------------------------------ MODULE CiVerify ------------------------------
(***************************************************************************)
(* The continuous integration job (Jenkins/ci.sh): it compares the CI       *)
(* workspace with the stream, accepts everything into it, and then accepts  *)
(* each work item on its own, with the items it depends on, into a          *)
(* workspace of the item, which is compiled in the background. Developers   *)
(* deliver to the stream at any time.                                       *)
(*                                                                         *)
(* recursive_accept is a machine over an explicit stack: the locals of a    *)
(* call are in its frame, the shell variables all calls share are variables.*)
(***************************************************************************)
EXTENDS FiniteSets, Naturals, Sequences

CONSTANTS
  Items,       \* work items
  ChangeSets,
  ItemOf,      \* workitems[0] of a change set
  Needs,       \* the change sets a change set depends on, all of them
  Mentions,    \* <<i, c>>: the line of c, not a change set of i, contains i
  Begins,      \* <<i, j>>: the number of i begins the number of j, or is it
  Accepted,    \* in the CI workspace at the start
  Delivered,   \* in the stream at the start
  None,
  MaxRuns,     \* bound: runs of the job
  MaxFaults    \* bound: commands that fail, but for the accept of CI_WS

ASSUME ItemOfAssumption == ItemOf \in [ChangeSets -> Items]
ASSUME NeedsAssumption ==
  /\ Needs \in [ChangeSets -> SUBSET ChangeSets]
  /\ \A c \in ChangeSets : c \notin Needs[c] /\ \A d \in Needs[c] : Needs[d] \subseteq Needs[c]
ASSUME NamesAssumption ==
  /\ Mentions \subseteq Items \X ChangeSets
  /\ Begins \subseteq Items \X Items
  /\ \A i \in Items : <<i, i>> \in Begins
ASSUME HistoryAssumption ==
  /\ Accepted \subseteq Delivered /\ Delivered \subseteq ChangeSets
  /\ \A S \in {Accepted, Delivered} : \A c \in S : Needs[c] \subseteq S
ASSUME NoneAssumption == None \notin {"ok", "failed", "running"}

-----------------------------------------------------------------------------
VARIABLES
  \* Kept by RTC
  stream, ciws,   \* the change sets of the CI stream and of the CI workspace
  created,        \* the items that have a workspace
  ws,             \* ws[i]: the change sets of the workspace of i
  \* The job
  phase, runs, faults,
  compare,        \* COMPARE_JSON_FILE
  snapshot,       \* the snapshot of the CI workspace
  existing,       \* WS_JSON_FILE
  handled,        \* the items of ITEMS_TO_VERIFY the loop has come to
  \* recursive_accept
  stack, DEPENDS_ON_WI_LIST, ACCEPTED_WIS, ACCEPTED_CSS,
  \* The compilations
  ITEMS_TO_BUILD, compile, waited, report, EXIT,
  \* Failures the job does not notice, recorded for the properties
  unseen,         \* items for whose workspace line 89 or 90 failed since it was
                  \* last created or replaced
  kept,           \* items of this job whose replace-component failed
  unaccepted      \* what was listed when the accept of CI_WS failed

rtc == <<stream, ciws, created, ws>>
comparison == <<compare, snapshot, existing>>
recursion == <<stack, DEPENDS_ON_WI_LIST, ACCEPTED_WIS, ACCEPTED_CSS>>
builds == <<ITEMS_TO_BUILD, compile, waited, report>>
unnoticed == <<unseen, kept, unaccepted>>
vars == <<rtc, phase, runs, faults, comparison, handled, recursion, builds,
          EXIT, unnoticed>>

Phases == {"idle", "compared", "accepted", "items", "builds", "ended", "aborted"}
Results == {"ok", "failed"}

\* A call of recursive_accept: before its accept command, or in its loop over
\* the items it depends on, with those still to come.
Frames == [item : Items, at : {"accept", "loop"}, todo : SUBSET Items]
Frame(i) == [item |-> i, at |-> "accept", todo |-> {}]
Top == stack[Len(stack)]
Pop == SubSeq(stack, 1, Len(stack) - 1)
Root == stack[1].item   \* the item of the workspace

Init ==
  /\ stream = Delivered /\ ciws = Accepted
  /\ created = {} /\ ws = [i \in Items |-> {}]
  /\ phase = "idle" /\ runs = 0 /\ faults = 0
  /\ compare = {} /\ snapshot = {} /\ existing = {} /\ handled = {}
  /\ stack = <<>> /\ DEPENDS_ON_WI_LIST = {} /\ ACCEPTED_WIS = {} /\ ACCEPTED_CSS = {}
  /\ ITEMS_TO_BUILD = <<>> /\ waited = 0 /\ EXIT = 0
  /\ compile = [i \in Items |-> None] /\ report = [i \in Items |-> None]
  /\ unseen = {} /\ kept = {} /\ unaccepted = {}

Fault == faults < MaxFaults /\ faults' = faults + 1

ITEMS_TO_VERIFY == {ItemOf[c] : c \in compare}

-----------------------------------------------------------------------------
(* Developers *)

Deliver(c) ==
  /\ c \notin stream /\ Needs[c] \subseteq stream
  /\ stream' = stream \union {c}
  /\ UNCHANGED <<ciws, created, ws, phase, runs, faults, comparison, handled,
                 recursion, builds, EXIT, unnoticed>>

-----------------------------------------------------------------------------
(* From the start of the job to the loop over the items *)

NotRunning == phase \in {"idle", "ended", "aborted"}

\* A new shell: its variables are empty. The comparison and the snapshot of
\* the CI workspace, which only this job changes.
Compare ==
  /\ NotRunning /\ runs < MaxRuns
  /\ runs' = runs + 1
  /\ compare' = stream \ ciws /\ snapshot' = ciws
  /\ phase' = IF compare' = {} THEN "ended" ELSE "compared"
  /\ existing' = {} /\ handled' = {} /\ stack' = <<>>
  /\ DEPENDS_ON_WI_LIST' = {} /\ ACCEPTED_WIS' = {} /\ ACCEPTED_CSS' = {}
  /\ ITEMS_TO_BUILD' = <<>> /\ waited' = 0 /\ EXIT' = 0
  /\ kept' = {}
  /\ compile' = [i \in Items |-> None] /\ report' = [i \in Items |-> None]
  /\ UNCHANGED <<rtc, faults, unseen, unaccepted>>

\* scm accept -t CI_WS: whatever the stream holds by now.
AcceptAll ==
  /\ phase = "compared"
  /\ phase' = "accepted" /\ ciws' = stream
  /\ UNCHANGED <<stream, created, ws, runs, faults, comparison, handled, recursion,
                 builds, EXIT, unnoticed>>

\* Its status is that of tee. A failure whose output has none of the phrases of
\* line 207, or a cd that fails before it, accepts nothing, and the job goes on.
AcceptAllFails ==
  /\ phase = "compared"
  /\ phase' = "accepted" /\ unaccepted' = unaccepted \union compare
  /\ UNCHANGED <<rtc, runs, faults, comparison, handled, recursion, builds, EXIT, unseen, kept>>

ListWorkspaces ==
  /\ phase = "accepted"
  /\ phase' = "items" /\ existing' = created
  /\ UNCHANGED <<rtc, runs, faults, compare, snapshot, handled, recursion, builds,
                 EXIT, unnoticed>>

\* cleanup_and_exit 1: a command whose result is checked fails. An accept that
\* "still has conflicts" has accepted all the same.
Abort ==
  /\ \/ phase = "compared" /\ ciws' \in {ciws, stream}
     \/ phase = "accepted" /\ ciws' = ciws
     \/ phase = "items" /\ stack = <<>> /\ handled # ITEMS_TO_VERIFY /\ ciws' = ciws
  /\ Fault
  /\ phase' = "aborted"
  /\ EXIT' = 1
  /\ UNCHANGED <<stream, created, ws, runs, comparison, handled, recursion, builds,
                 unnoticed>>

-----------------------------------------------------------------------------
(* The loop over the items: the workspace of the item *)

\* jq match of the name in the names of all workspaces.
HasWorkspace(i) == \E j \in existing : <<i, j>> \in Begins

StartItem(i) ==
  /\ phase = "items" /\ stack = <<>>
  /\ i \in ITEMS_TO_VERIFY \ handled
  /\ handled' = handled \union {i}
  /\ DEPENDS_ON_WI_LIST' = {} /\ ACCEPTED_WIS' = {} /\ ACCEPTED_CSS' = {}
  /\ UNCHANGED <<stream, ciws, runs, comparison, builds, unaccepted>>

TakeSnapshot(i) == ws' = [ws EXCEPT ![i] = snapshot] /\ unseen' = unseen \ {i}

CreateWorkspace(i) ==
  /\ StartItem(i) /\ ~HasWorkspace(i)
  /\ created' = created \union {i}
  /\ TakeSnapshot(i)
  /\ stack' = <<Frame(i)>>
  /\ UNCHANGED <<phase, faults, EXIT, kept>>

\* The result of replace-component is not looked at.
ReplaceComponents(i) ==
  /\ StartItem(i) /\ HasWorkspace(i) /\ i \in created
  /\ \/ TakeSnapshot(i) /\ UNCHANGED <<faults, kept>>
     \/ Fault /\ kept' = kept \union {i} /\ UNCHANGED <<ws, unseen>>
  /\ stack' = <<Frame(i)>>
  /\ UNCHANGED <<created, phase, EXIT>>

\* The workspace was another's: scm load fails, and with it the job.
LoadFails(i) ==
  /\ StartItem(i) /\ HasWorkspace(i) /\ i \notin created
  /\ phase' = "aborted" /\ EXIT' = 1
  /\ UNCHANGED <<created, ws, faults, stack, unseen, kept>>

\* One of the commands fails that follow when the workspace has been created or
\* replaced (lines 264-267).
AbortLoading(i) ==
  /\ StartItem(i) /\ Fault
  /\ HasWorkspace(i) => i \in created
  /\ created' = created \union {i}
  /\ TakeSnapshot(i)
  /\ phase' = "aborted" /\ EXIT' = 1
  /\ UNCHANGED <<stack, kept>>

-----------------------------------------------------------------------------
(* recursive_accept *)

ChangesOf(i) == {c \in compare : ItemOf[c] = i}
\* grep of the number of i in COMPARE_JSON_FILE.
LinesOf(i) == {c \in compare : <<i, ItemOf[c]>> \in Begins \/ <<i, c>> \in Mentions}

AllOfItem(i) == LinesOf(i)  \* mutant of CHANGESETS: accepted ones not filtered out
CHANGESETS(i) == LinesOf(i) \ ACCEPTED_CSS

MissingFor(C, h) == (UNION {Needs[c] : c \in C}) \ (C \union h)

InList(i, list) == \E j \in list : <<i, j>> \in Begins

\* A list with the given items appended that are not in it.
Appended(list, new) == list \union {i \in new : ~InList(i, list)}

\* The call on top of the stack returns 0. When it is the first, the item is
\* to be built.
ReturnToStack ==
  /\ stack' = Pop
  /\ ITEMS_TO_BUILD' = IF Len(stack) = 1 THEN Append(ITEMS_TO_BUILD, Root)
                                         ELSE ITEMS_TO_BUILD

\* Mutant of ReturnError: the status of scm becomes that of the job.
ReturnStatus ==
  /\ stack' = <<>>
  /\ EXIT' = 2

\* Calls that return something else take all their callers with them.
ReturnError ==
  /\ stack' = <<>>
  /\ EXIT' = 1

Accepting ==
  /\ phase = "items" /\ stack # <<>> /\ Top.at = "accept"
  /\ UNCHANGED <<stream, ciws, created, phase, runs, comparison, handled, compile,
                 waited, report>>

NothingToAccept ==
  /\ Accepting /\ CHANGESETS(Top.item) = {}
  /\ ReturnToStack
  /\ UNCHANGED <<ws, DEPENDS_ON_WI_LIST, ACCEPTED_WIS, ACCEPTED_CSS, faults, EXIT,
                 unnoticed>>

\* Every output but the two below. One that "still has conflicts" has accepted.
AcceptFails ==
  LET C == CHANGESETS(Top.item)
  IN /\ Accepting /\ C # {}
     /\ Fault
     /\ \/ UNCHANGED ws
        \/ MissingFor(C, ws[Root]) = {} /\ ws' = [ws EXCEPT ![Root] = @ \union C]
     /\ ReturnError
     /\ UNCHANGED <<DEPENDS_ON_WI_LIST, ACCEPTED_WIS, ACCEPTED_CSS, ITEMS_TO_BUILD,
                    unnoticed>>

\* "Change set is already in history", an exception.
AcceptAgain ==
  /\ Accepting /\ CHANGESETS(Top.item) \intersect ws[Root] # {}
  /\ ReturnError
  /\ UNCHANGED <<ws, DEPENDS_ON_WI_LIST, ACCEPTED_WIS, ACCEPTED_CSS, ITEMS_TO_BUILD,
                 faults, unnoticed>>

AcceptNew(C) == Accepting /\ C # {} /\ C \intersect ws[Root] = {}

AcceptCompletes ==
  LET C == CHANGESETS(Top.item)
  IN /\ AcceptNew(C) /\ MissingFor(C, ws[Root]) = {}
     /\ ws' = [ws EXCEPT ![Root] = @ \union C]
     /\ ACCEPTED_WIS' = Appended(ACCEPTED_WIS, {Top.item})
     /\ ACCEPTED_CSS' = ACCEPTED_CSS \union C
     /\ ReturnToStack
     /\ UNCHANGED <<DEPENDS_ON_WI_LIST, faults, EXIT, unnoticed>>

\* "Missing change sets found": they are listed, and a second accept takes them
\* along. The results of both are not looked at: where the first fails the list
\* is empty, where the second does nothing is accepted.
AcceptMissing ==
  LET C == CHANGESETS(Top.item)
      M == MissingFor(C, ws[Root])
  IN /\ AcceptNew(C) /\ M # {}
     /\ \E listed \in {M, {}}, accepted \in {C \union M, {}} :
          /\ IF listed = M /\ accepted # {}
               THEN UNCHANGED <<faults, unseen>>
               ELSE Fault /\ unseen' = unseen \union {Root}
          /\ ws' = [ws EXCEPT ![Root] = @ \union accepted]
          /\ ACCEPTED_CSS' = ACCEPTED_CSS \union accepted
          /\ \/ /\ listed \subseteq compare
                /\ DEPENDS_ON_WI_LIST' =
                     Appended(DEPENDS_ON_WI_LIST, {ItemOf[c] : c \in listed})
                /\ ACCEPTED_WIS' = Appended(ACCEPTED_WIS, {Top.item})
                /\ stack' = Append(Pop, [Top EXCEPT !.at = "loop",
                                                    !.todo = DEPENDS_ON_WI_LIST'])
                /\ UNCHANGED EXIT
             \/ /\ ~(listed \subseteq compare)  \* "No WorkItem found as incomming changes"
                /\ ReturnError
                /\ UNCHANGED <<DEPENDS_ON_WI_LIST, ACCEPTED_WIS>>
     /\ UNCHANGED <<ITEMS_TO_BUILD, kept, unaccepted>>

\* Mutants of Dependants: ACCEPTED_WIS is not looked at; the wrong list is; the
\* list is read again in every round.
AnyDependant == Top.todo
NewDependant == {i \in Top.todo : ~InList(i, DEPENDS_ON_WI_LIST)}
WholeList == DEPENDS_ON_WI_LIST

\* The rest of the loop. The list was expanded when the loop began,
\* ACCEPTED_WIS is read in every round.
Dependants == {i \in Top.todo : ~InList(i, ACCEPTED_WIS)}

Looping ==
  /\ phase = "items" /\ stack # <<>> /\ Top.at = "loop"
  /\ UNCHANGED <<rtc, phase, runs, faults, comparison, handled, DEPENDS_ON_WI_LIST,
                 ACCEPTED_WIS, ACCEPTED_CSS, compile, waited, report, EXIT, unnoticed>>

AcceptDependant(i) ==
  /\ Looping /\ i \in Dependants
  /\ stack' = Append(Append(Pop, [Top EXCEPT !.todo = @ \ {i}]), Frame(i))
  /\ UNCHANGED ITEMS_TO_BUILD

LoopEnds == Looping /\ Dependants = {} /\ ReturnToStack

-----------------------------------------------------------------------------
(* The compilations in the background *)

StartBuilds ==
  /\ phase = "items" /\ stack = <<>> /\ handled = ITEMS_TO_VERIFY
  /\ phase' = "builds"
  /\ compile' = [i \in Items |->
                   IF \E k \in DOMAIN ITEMS_TO_BUILD : ITEMS_TO_BUILD[k] = i
                     THEN "running" ELSE None]
  /\ UNCHANGED <<rtc, runs, faults, comparison, handled, recursion, ITEMS_TO_BUILD,
                 waited, report, EXIT, unnoticed>>

CompileEnds(i, result) ==
  /\ phase = "builds" /\ compile[i] = "running"
  /\ compile' = [compile EXCEPT ![i] = result]
  /\ UNCHANGED <<rtc, phase, runs, faults, comparison, handled, recursion,
                 ITEMS_TO_BUILD, waited, report, EXIT, unnoticed>>

\* Mutant of Awaited: wait -n, whichever compilation ends first.
AwaitedAny == CHOOSE i \in Items : compile[i] \in Results \/ \A j \in Items : compile[j] \notin Results
Awaited == ITEMS_TO_BUILD[waited + 1]

Wait ==
  /\ phase = "builds" /\ waited < Len(ITEMS_TO_BUILD)
  /\ compile[Awaited] \in Results
  /\ waited' = waited + 1
  /\ report' = [report EXCEPT ![ITEMS_TO_BUILD[waited + 1]] = compile[Awaited]]
  /\ EXIT' = IF compile[Awaited] = "failed" THEN 1 ELSE EXIT
  /\ UNCHANGED <<rtc, phase, runs, faults, comparison, handled, recursion,
                 ITEMS_TO_BUILD, compile, unnoticed>>

End ==
  /\ phase = "builds" /\ waited = Len(ITEMS_TO_BUILD)
  /\ phase' = "ended"
  /\ UNCHANGED <<rtc, runs, faults, comparison, handled, recursion, builds, EXIT,
                 unnoticed>>

-----------------------------------------------------------------------------
Job ==
  \/ AcceptAll \/ ListWorkspaces
  \/ \E i \in Items : \/ CreateWorkspace(i) \/ ReplaceComponents(i) \/ LoadFails(i)
                      \/ AcceptDependant(i)
  \/ NothingToAccept \/ AcceptAgain \/ AcceptCompletes \/ AcceptMissing \/ LoopEnds
  \/ StartBuilds \/ Wait \/ End

Compiler == \E i \in Items, result \in Results : CompileEnds(i, result)

Next ==
  \/ \E c \in ChangeSets : Deliver(c)
  \/ Compare \/ Job \/ Compiler
  \/ Abort \/ AcceptAllFails \/ AcceptFails \/ \E i \in Items : AbortLoading(i)

Spec == Init /\ [][Next]_vars

\* A shell goes on to its next command, and a compilation ends. Nobody has to
\* deliver, to start the job, or to make a command fail.
FairSpec == Spec /\ WF_vars(Job) /\ WF_vars(Compiler)

-----------------------------------------------------------------------------
(* Properties *)

TypeOK ==
  /\ stream \subseteq ChangeSets /\ ciws \subseteq ChangeSets
  /\ created \subseteq Items /\ ws \in [Items -> SUBSET ChangeSets]
  /\ phase \in Phases /\ runs \in Nat /\ faults \in Nat
  /\ compare \subseteq ChangeSets /\ snapshot \subseteq ChangeSets
  /\ existing \subseteq Items /\ handled \subseteq Items
  /\ stack \in Seq(Frames)
  /\ DEPENDS_ON_WI_LIST \subseteq Items /\ ACCEPTED_WIS \subseteq Items
  /\ ACCEPTED_CSS \subseteq ChangeSets
  /\ ITEMS_TO_BUILD \in Seq(Items) /\ waited \in 0..Len(ITEMS_TO_BUILD)
  /\ compile \in [Items -> Results \union {"running", None}]
  /\ report \in [Items -> Results \union {None}]
  /\ EXIT \in {0, 1}
  /\ unseen \subseteq Items /\ kept \subseteq Items /\ unaccepted \subseteq ChangeSets

ToBuild == {ITEMS_TO_BUILD[k] : k \in DOMAIN ITEMS_TO_BUILD}

\* The items that own a listed change set which one of i needs.
ItemsNeededBy(i) ==
  {ItemOf[d] : d \in compare \intersect UNION {Needs[c] : c \in ChangesOf(i)}}

\* The workspace of i has i and everything it depends on, whole items.
IsComplete(i) ==
  \E D \in SUBSET Items :
    /\ i \in D
    /\ \A j \in D : ChangesOf(j) \subseteq ws[i] /\ ItemsNeededBy(j) \subseteq D

\* recursive_accept accepts a work item with all work items it depends on,
\* complete, however they depend on each other. The lists it reads are changed by
\* the calls it makes. The exception: listing or accepting the missing change sets
\* failed unnoticed, in this job or in an earlier one whose workspace was kept.
CompleteWorkItems == \A i \in ToBuild \ unseen : IsComplete(i)

\* No accept command is given a change set that the workspace has (it ends in an
\* exception), though calls are nested and workspaces are reused, with what was
\* accepted there before where replace-component failed. The exception: the
\* workspace was not replaced, and the change set was listed already in an
\* earlier job, whose accept of the CI workspace failed unnoticed.
NeverAcceptedTwice ==
  stack # <<>> /\ Top.at = "accept" =>
    CHANGESETS(Top.item) \intersect ws[Root] \subseteq
      (IF Root \in kept THEN unaccepted ELSE {})

\* The recursion never comes back to an item it is accepting already, also when
\* items depend on each other both ways.
NoReentry ==
  \A k, l \in DOMAIN stack : stack[k].item = stack[l].item => k = l

\* The job succeeds exactly when every item of the comparison was accepted and
\* has compiled, and reports for each the end of its own compilation.
ExitTellsAll ==
  phase = "ended" =>
    /\ \A i \in Items : report[i] = compile[i]
    /\ EXIT = 0 <=> \A i \in ITEMS_TO_VERIFY : compile[i] = "ok"

\* A job that was started ends: the recursion does, and so do the waits.
JobEnds == ~NotRunning ~> NotRunning

-----------------------------------------------------------------------------
(* A comment of the script that does not hold *)

\* "Accept all Changesets in CI stream before anyone delivers new changeset, to
\* prevent accepting changes not validated" (ci.sh:204). Violated.
AcceptedAreListed ==
  phase \in {"accepted", "items", "builds", "ended"} => ciws \ snapshot \subseteq compare
=============================================================================
