--------------------------- MODULE CiVerify_proofs ---------------------------
(***************************************************************************)
(* Theorems about CiVerify: for any work items, change sets, dependencies    *)
(* and numbers, any deliveries and any commands that fail.                  *)
(***************************************************************************)
EXTENDS CiVerify, SequenceTheorems, FiniteSetTheorems, TLAPS

-----------------------------------------------------------------------------
(* The inductive invariant *)

\* A set of change sets with everything they need.
Closed(S) == \A c \in S : Needs[c] \subseteq S

Running == phase \in {"compared", "accepted", "items"}

\* The workspace of i has a listed change set of i itself.
Own(i) == \E c \in ws[i] \intersect compare : ItemOf[c] = i

\* The accept of the CI workspace took everything, or nothing.
Decided ==
  \/ compare \subseteq ciws /\ \A i \in Items : ws[i] \subseteq ciws
  \/ compare \subseteq unaccepted /\ compare \intersect ciws = {}

\* What the comparison, the CI workspace and the workspaces of the items have to
\* do with each other: a workspace holds nothing but what is in the CI workspace,
\* or was listed when it was not accepted there. Before its item is handled it has
\* nothing of the comparison but from such a job.
History ==
  /\ Closed(stream) /\ ciws \subseteq stream /\ compare \subseteq stream
  /\ unaccepted \subseteq stream
  /\ \A i \in Items : ws[i] \subseteq ciws \union unaccepted
  /\ Running =>
       /\ snapshot \subseteq ciws /\ Closed(compare \union snapshot)
       /\ compare \intersect snapshot = {}
       /\ \A i \in Items \ handled : ws[i] \intersect compare \subseteq unaccepted
  /\ phase = "compared" => compare \intersect ciws = {}
  /\ phase \in {"accepted", "items"} => Decided

\* What is left of earlier jobs in a workspace has a change set of its own item
\* with it, unless an accept failed unnoticed for it.
Leftovers ==
  /\ \A i \in Items \ unseen :
       ws[i] \subseteq ciws \/ \E c \in ws[i] \ ciws : ItemOf[c] = i
  /\ Running =>
       \A i \in Items \ (handled \union unseen) : ws[i] \intersect compare = {} \/ Own(i)

\* The calls under way: only the last one is before its accept, those in
\* their loops have been accepted, and all are for different items.
Calls(calls, list) ==
  /\ \A k \in 1..Len(calls) : calls[k].at = "accept" => k = Len(calls)
  /\ \A k \in 1..Len(calls) : calls[k].at = "loop" => InList(calls[k].item, list)
  /\ \A k, l \in 1..Len(calls) : calls[k].item = calls[l].item => k = l

\* What may be in the workspace of i unrecorded: it was not replaced, and this was
\* listed when it was not accepted into the CI workspace.
Excused(i) == IF i \in kept THEN unaccepted ELSE {}

\* ACCEPTED_CSS has all of the comparison that is in the workspace, but for such
\* leftovers; and when a workspace has these, the first accept is bound to fail.
Tracked ==
  stack # <<>> =>
    /\ phase = "items"
    /\ Root \in handled /\ ChangesOf(Root) # {}
    /\ ws[Root] \intersect compare \subseteq ACCEPTED_CSS \union Excused(Root)
    /\ stack = <<Frame(Root)>> => ACCEPTED_CSS = {}
    /\ Root \notin unseen =>
         \/ stack = <<Frame(Root)>> /\ (ws[Root] \intersect compare = {} \/ Own(Root))
         \/ ws[Root] \intersect compare \subseteq ACCEPTED_CSS /\ Own(Root)

IInv == TypeOK /\ History /\ Leftovers /\ Calls(stack, ACCEPTED_WIS) /\ Tracked

-----------------------------------------------------------------------------
(* Lists and the stack *)

\* An item that is in a list stays in it when the list grows.
LEMMA InLongerList ==
  ASSUME NEW list, NEW longer, list \subseteq longer, NEW i, InList(i, list)
  PROVE  InList(i, longer)
BY DEF InList

\* An item is in a list it was appended to, or it was not appended because it is.
LEMMA InListAppended ==
  ASSUME NEW list, NEW i \in Items
  PROVE  InList(i, Appended(list, {i})) /\ list \subseteq Appended(list, {i})
BY NamesAssumption DEF InList, Appended

\* The stack without its top.
LEMMA PopOfStack ==
  ASSUME stack \in Seq(Frames), stack # <<>>
  PROVE  /\ Len(stack) \in Nat \ {0} /\ Top \in Frames
         /\ Pop \in Seq(Frames) /\ Len(Pop) = Len(stack) - 1
         /\ \A k \in 1..Len(Pop) : Pop[k] = stack[k] /\ k \in 1..Len(stack)
<1>1. /\ Len(stack) \in Nat \ {0}
      /\ \A k \in 1..Len(stack) : stack[k] \in Frames
  BY EmptySeq, ElementOfSeq
<1>2. Top \in Frames  BY <1>1 DEF Top
<1>3. /\ Pop \in Seq(Frames)
      /\ Len(Pop) = IF 1 <= Len(stack) - 1 THEN Len(stack) - 1 - 1 + 1 ELSE 0
      /\ \A k \in 1..(Len(stack) - 1 - 1 + 1) : Pop[k] = stack[1 + k - 1]
  <2>1. \A k \in 1..(Len(stack) - 1) : stack[k] \in Frames  BY <1>1
  <2>2. 1 \in Int /\ Len(stack) - 1 \in Int  BY <1>1
  <2>3. QED  BY <2>1, <2>2, SubSeqProperties DEF Pop
<1> DEFINE n == Len(stack)
       m == Len(Pop)
<1>4. n \in Nat \ {0} /\ m = n - 1
  <2>1. n \in Nat \ {0}  BY <1>1
  <2>2. m = IF 1 <= n - 1 THEN n - 1 - 1 + 1 ELSE 0  BY <1>3
  <2>3. QED
    <3> HIDE DEF n, m
    <3> QED  BY <2>1, <2>2
<1>5. \A k \in 1..(n - 1) : Pop[k] = stack[k] /\ k \in 1..n
  <2> HIDE DEF n
  <2>1. \A k \in 1..(n - 1 - 1 + 1) : Pop[k] = stack[1 + k - 1]  BY <1>3 DEF n
  <2>2. \A k \in 1..(n - 1) : k \in 1..(n - 1 - 1 + 1) /\ 1 + k - 1 = k /\ k \in 1..n
    BY <1>4
  <2>3. QED  BY <2>1, <2>2
<1>6. QED  BY <1>1, <1>2, <1>3, <1>4, <1>5

\* A frame put on top of a sequence of frames.
LEMMA PutOnTop ==
  ASSUME NEW st \in Seq(Frames), NEW f \in Frames
  PROVE  /\ Append(st, f) \in Seq(Frames) /\ Append(st, f) # <<>>
         /\ Len(st) \in Nat /\ Len(Append(st, f)) = Len(st) + 1
         /\ \A k \in 1..Len(st) : Append(st, f)[k] = st[k]
         /\ Append(st, f)[Len(st) + 1] = f
OBVIOUS

\* A call that returns leaves the calls below it as they were.
LEMMA CallReturns ==
  ASSUME stack \in Seq(Frames), stack # <<>>, NEW list, NEW longer,
         list \subseteq longer, Calls(stack, list)
  PROVE  /\ Calls(Pop, longer)
         /\ \A k \in 1..Len(Pop) : Pop[k].at # "accept"
         /\ \A k \in 1..Len(Pop) : Pop[k].item # Top.item
<1>1. /\ Len(stack) \in Nat \ {0} /\ Len(Pop) = Len(stack) - 1
      /\ \A k \in 1..Len(Pop) : Pop[k] = stack[k] /\ k \in 1..Len(stack)
  BY PopOfStack
<1>2. \A k \in 1..Len(Pop) : Pop[k].at # "accept" /\ Pop[k].item # Top.item
  <2>1. SUFFICES ASSUME NEW k \in 1..Len(Pop)
                 PROVE  Pop[k].at # "accept" /\ Pop[k].item # Top.item
    OBVIOUS
  <2>2. k # Len(stack) /\ Len(stack) \in 1..Len(stack)  BY <1>1
  <2>3. QED  BY <1>1, <2>1, <2>2 DEF Calls, Top
<1>3. \A k \in 1..Len(Pop) : Pop[k].at = "loop" => InList(Pop[k].item, longer)
  BY <1>1, InLongerList DEF Calls
<1>4. \A k, l \in 1..Len(Pop) : Pop[k].item = Pop[l].item => k = l
  BY <1>1 DEF Calls
<1>5. QED  BY <1>2, <1>3, <1>4 DEF Calls

\* A call for a new item on top of calls that are all in their loops.
LEMMA CallOnTop ==
  ASSUME NEW st \in Seq(Frames), NEW f \in Frames, NEW list, Calls(st, list),
         \A k \in 1..Len(st) : st[k].at # "accept",
         \A k \in 1..Len(st) : st[k].item # f.item,
         f.at = "loop" => InList(f.item, list)
  PROVE  Calls(Append(st, f), list)
<1>1. /\ Len(st) \in Nat /\ Len(Append(st, f)) = Len(st) + 1
      /\ \A k \in 1..Len(st) : Append(st, f)[k] = st[k]
      /\ Append(st, f)[Len(st) + 1] = f
  BY PutOnTop
<1>2. \A k \in 1..(Len(st) + 1) : k \in 1..Len(st) \/ k = Len(st) + 1
  BY <1>1
<1>3. \A k \in 1..(Len(st) + 1) :
        Append(st, f)[k].at = "accept" => k = Len(st) + 1
  BY <1>1, <1>2
<1>4. \A k \in 1..(Len(st) + 1) :
        Append(st, f)[k].at = "loop" => InList(Append(st, f)[k].item, list)
  BY <1>1, <1>2 DEF Calls
<1>5. \A k, l \in 1..(Len(st) + 1) :
        Append(st, f)[k].item = Append(st, f)[l].item => k = l
  <2>1. SUFFICES ASSUME NEW k \in 1..(Len(st) + 1), NEW l \in 1..(Len(st) + 1),
                        Append(st, f)[k].item = Append(st, f)[l].item
                 PROVE  k = l
    OBVIOUS
  <2>2. CASE k \in 1..Len(st) /\ l \in 1..Len(st)
    BY <1>1, <2>1, <2>2 DEF Calls
  <2>3. CASE k = Len(st) + 1 \/ l = Len(st) + 1
    BY <1>1, <1>2, <2>1, <2>3
  <2>4. QED  BY <1>2, <2>2, <2>3
<1>6. QED  BY <1>1, <1>3, <1>4, <1>5 DEF Calls

\* The item of the workspace stays that of the first call.
LEMMA SameRoot ==
  ASSUME stack \in Seq(Frames), stack # <<>>
  PROVE  /\ Root \in Items
         /\ Pop # <<>> => Pop[1] = stack[1]
         /\ Pop = <<>> => Len(stack) = 1 /\ Top = stack[1]
         /\ \A f : Pop # <<>> => Append(Pop, f)[1] = stack[1]
<1>1. /\ Len(stack) \in Nat \ {0} /\ stack[1] \in Frames
  BY PopOfStack, ElementOfSeq
<1>2. /\ Pop \in Seq(Frames) /\ Len(Pop) = Len(stack) - 1
      /\ \A k \in 1..Len(Pop) : Pop[k] = stack[k]
  BY PopOfStack
<1>3. Pop # <<>> => 1 \in 1..Len(Pop)  BY <1>2, EmptySeq
<1>4. Pop = <<>> => Len(Pop) = 0  OBVIOUS
<1>5. \A f : Pop # <<>> => Append(Pop, f)[1] = Pop[1]
  BY <1>2, <1>3
<1>6. QED  BY <1>1, <1>2, <1>3, <1>4, <1>5 DEF Root, Frames, Top

\* A call in its loop on top of others that are in theirs.
LEMMA LoopOnTop ==
  ASSUME NEW st \in Seq(Frames), NEW f \in Frames, f.at # "accept",
         \A k \in 1..Len(st) : st[k].at # "accept"
  PROVE  \A k \in 1..Len(Append(st, f)) : Append(st, f)[k].at # "accept"
<1>1. /\ Len(st) \in Nat /\ Len(Append(st, f)) = Len(st) + 1
      /\ \A k \in 1..Len(st) : Append(st, f)[k] = st[k]
      /\ Append(st, f)[Len(st) + 1] = f
  BY PutOnTop
<1>2. \A k \in 1..(Len(st) + 1) : k \in 1..Len(st) \/ k = Len(st) + 1
  BY <1>1
<1>3. \A k \in 1..(Len(st) + 1) : Append(st, f)[k].at # "accept"
  BY <1>1, <1>2
<1>4. QED  BY <1>1, <1>3

-----------------------------------------------------------------------------
(* The commands that change change sets *)

\* What a closed set lacks of what its members need is in it.
LEMMA MissingIsClosed ==
  ASSUME NEW S, Closed(S), NEW C, C \subseteq S, NEW h
  PROVE  MissingFor(C, h) \subseteq S
BY DEF Closed, MissingFor

\* A delivery: the stream stays closed, and the rest is as it was.
LEMMA DeliverKeeps ==
  ASSUME IInv, NEW c \in ChangeSets, Deliver(c)
  PROVE  IInv'
<1> USE DEF IInv
<1>1. TypeOK'
  BY DEF TypeOK, Deliver, rtc, comparison, recursion, builds, unnoticed
<1>2. Closed(stream') /\ stream \subseteq stream'
  BY DEF Deliver, History, Closed
<1>3. UNCHANGED <<ciws, ws, phase, compare, snapshot, handled, unseen, kept, unaccepted>>
  BY DEF Deliver, comparison, unnoticed
<1>4. History' /\ Leftovers'
  BY <1>2, <1>3 DEF History, Decided, Leftovers, Own, Closed, Running
<1>5. Calls(stack, ACCEPTED_WIS)' /\ Tracked'
  BY <1>3 DEF Calls, InList, Tracked, Root, Excused, Own, ChangesOf, Deliver, recursion
<1>6. QED  BY <1>1, <1>4, <1>5

\* The comparison starts from variables that are empty. What an item's workspace
\* has more than the CI workspace is listed again.
LEMMA CompareKeeps ==
  ASSUME IInv, Compare
  PROVE  IInv'
<1> USE DEF IInv
<1>1. TypeOK'
  <2>1. <<>> \in Seq(Frames) /\ <<>> \in Seq(Items) /\ Len(<<>>) = 0
    BY EmptySeq
  <2>2. QED
    BY <2>1 DEF TypeOK, Compare, rtc, Phases
<1>2. /\ compare' = stream \ ciws /\ snapshot' = ciws /\ handled' = {}
      /\ UNCHANGED <<stream, ciws, ws, unseen, unaccepted>>
      /\ phase' \in {"compared", "ended"}
  BY DEF Compare, rtc
<1>3. Closed(compare' \union snapshot')
  <2>1. compare' \union snapshot' = stream  BY <1>2 DEF History
  <2>2. QED  BY <2>1 DEF History
<1>4. \A i \in Items : ws'[i] \intersect compare' \subseteq unaccepted
  BY <1>2 DEF History
<1>5. History'
  BY <1>2, <1>3, <1>4 DEF History, Closed, Running
<1>6. ASSUME NEW i \in Items, i \notin unseen
      PROVE  ws'[i] \intersect compare' = {} \/ Own(i)'
  <2>1. CASE ws[i] \subseteq ciws  BY <1>2, <2>1
  <2>2. ASSUME NEW c \in ws[i] \ ciws, ItemOf[c] = i PROVE Own(i)'
    <3>1. c \in compare' /\ c \in ws'[i]  BY <1>2, <2>2 DEF History
    <3>2. QED  BY <2>2, <3>1 DEF Own
  <2>3. QED  BY <1>6, <2>1, <2>2 DEF Leftovers
<1>7. Leftovers'  BY <1>2, <1>6 DEF Leftovers
<1>8. stack' = <<>>  BY DEF Compare
<1>9. Calls(stack, ACCEPTED_WIS)' /\ Tracked'
  BY <1>8 DEF Calls, Tracked
<1>10. QED  BY <1>1, <1>5, <1>7, <1>9

\* Accepting everything makes the CI workspace the stream of that moment; when it
\* fails unnoticed, what was listed is noted.
LEMMA AcceptAllKeeps ==
  ASSUME IInv, AcceptAll \/ AcceptAllFails
  PROVE  IInv'
<1> USE DEF IInv
<1>1. /\ phase = "compared" /\ phase' = "accepted"
      /\ UNCHANGED <<stream, ws, compare, snapshot, handled, recursion, unseen, kept>>
      /\ \/ ciws' = stream /\ UNCHANGED unaccepted
         \/ ciws' = ciws /\ unaccepted' = unaccepted \union compare
  BY DEF AcceptAll, AcceptAllFails, rtc, comparison, unnoticed
<1>2. TypeOK'
  BY DEF TypeOK, AcceptAll, AcceptAllFails, rtc, comparison, recursion, builds, Phases,
         unnoticed
<1>3. ASSUME ciws' = stream /\ UNCHANGED unaccepted PROVE History' /\ Leftovers'
  <2>1. compare' \subseteq ciws' /\ \A i \in Items : ws'[i] \subseteq ciws'
    BY <1>1, <1>3 DEF History
  <2>2. History'
    BY <1>1, <1>3, <2>1 DEF History, Decided, Closed, Running
  <2>3. Leftovers'
    BY <1>1, <1>3, <2>1 DEF Leftovers, Own, Running
  <2>4. QED  BY <2>2, <2>3
<1>4. ASSUME ciws' = ciws /\ unaccepted' = unaccepted \union compare
      PROVE  History' /\ Leftovers'
  <2>1. History'
    BY <1>1, <1>4 DEF History, Decided, Closed, Running
  <2>2. Leftovers'
    BY <1>1, <1>4 DEF Leftovers, Own, Running
  <2>3. QED  BY <2>1, <2>2
<1>5. History' /\ Leftovers'
  BY <1>1, <1>3, <1>4
<1>6. stack = <<>>  BY <1>1 DEF Tracked
<1>7. Calls(stack, ACCEPTED_WIS)' /\ Tracked'
  BY <1>1, <1>6 DEF Calls, InList, Tracked, recursion
<1>8. QED  BY <1>2, <1>5, <1>7

\* Listing the workspaces, a failure, and the end of the loop change no change sets.
LEMMA OtherStepsKeep ==
  ASSUME IInv, ListWorkspaces \/ Abort \/ StartBuilds \/ Wait \/ End \/ Compiler
  PROVE  IInv'
<1> USE DEF IInv
<1>1. /\ UNCHANGED <<stream, ws, compare, snapshot, handled, recursion, unnoticed>>
      /\ phase' \in {phase, "items", "aborted", "builds", "ended"}
      /\ phase' = "items" => phase \in {"items", "accepted"}
      /\ stack # <<>> => phase' = phase
      /\ ciws' = ciws \/ (ciws' = stream /\ phase' = "aborted")
  BY DEF ListWorkspaces, Abort, StartBuilds, Wait, End, Compiler, CompileEnds,
         rtc, comparison, recursion, builds, Tracked
<1>2. TypeOK'
  <2>1. CASE ListWorkspaces
    BY <2>1 DEF TypeOK, ListWorkspaces, rtc, comparison, recursion, builds, Phases, unnoticed
  <2>2. CASE Abort
    BY <2>2 DEF TypeOK, Abort, Fault, rtc, comparison, recursion, builds, Phases, unnoticed
  <2>3. CASE StartBuilds
    BY <2>3 DEF TypeOK, StartBuilds, rtc, comparison, recursion, builds, Phases, unnoticed
  <2>4. CASE Wait
    <3>1. /\ waited' = waited + 1 /\ waited < Len(ITEMS_TO_BUILD)
          /\ UNCHANGED ITEMS_TO_BUILD /\ compile[Awaited] \in Results
          /\ EXIT' \in {1, EXIT}
          /\ report' = [report EXCEPT ![ITEMS_TO_BUILD[waited + 1]] = compile[Awaited]]
      BY <2>4 DEF Wait
    <3>2. report' \in [Items -> Results \union {None}]
      BY <3>1 DEF TypeOK
    <3>3. waited' \in 0..Len(ITEMS_TO_BUILD')
      BY <3>1, LenProperties DEF TypeOK
    <3>4. QED  BY <2>4, <3>1, <3>2, <3>3 DEF TypeOK, Wait, rtc, comparison, recursion,
                  unnoticed
  <2>5. CASE End
    BY <2>5 DEF TypeOK, End, rtc, comparison, recursion, builds, Phases, unnoticed
  <2>6. CASE Compiler
    BY <2>6 DEF TypeOK, Compiler, CompileEnds, rtc, comparison, recursion,
                  unnoticed
  <2>7. QED  BY <2>1, <2>2, <2>3, <2>4, <2>5, <2>6
<1>3. ASSUME ciws' = ciws PROVE History' /\ Leftovers'
  <2>1. History'
    BY <1>1, <1>3 DEF History, Decided, Closed, Running, unnoticed
  <2>2. Leftovers'
    BY <1>1, <1>3 DEF Leftovers, Own, Running, unnoticed
  <2>3. QED  BY <2>1, <2>2
<1>4. ASSUME ciws' = stream, phase' = "aborted" PROVE History' /\ Leftovers'
  <2>1. \A i \in Items : ws'[i] \subseteq ciws'  BY <1>1, <1>4 DEF History
  <2>2. History'
    BY <1>1, <1>4, <2>1 DEF History, Closed, Running, unnoticed
  <2>3. Leftovers'
    BY <1>1, <1>4, <2>1 DEF Leftovers, Running, unnoticed
  <2>4. QED  BY <2>2, <2>3
<1>5. Calls(stack, ACCEPTED_WIS)' /\ Tracked'
  BY <1>1 DEF Calls, InList, Tracked, Root, Excused, Own, ChangesOf, recursion, unnoticed
<1>6. QED  BY <1>1, <1>2, <1>3, <1>4, <1>5

-----------------------------------------------------------------------------
(* The loop over the items *)

\* An item gets a workspace without anything of the comparison; one that could not
\* be replaced is left with what it has.
LEMMA StartItemKeeps ==
  ASSUME IInv, NEW i \in Items,
         CreateWorkspace(i) \/ ReplaceComponents(i) \/ LoadFails(i) \/ AbortLoading(i)
  PROVE  IInv'
<1> USE DEF IInv
<1>1. /\ StartItem(i)
      /\ phase = "items" /\ stack = <<>> /\ i \notin handled /\ ChangesOf(i) # {}
      /\ handled' = handled \union {i} /\ ACCEPTED_WIS' = {} /\ ACCEPTED_CSS' = {}
      /\ UNCHANGED <<stream, ciws, compare, snapshot, unaccepted>>
  BY DEF CreateWorkspace, ReplaceComponents, LoadFails, AbortLoading, StartItem, comparison,
         ITEMS_TO_VERIFY, ChangesOf
<1>2. \/ phase' = "items" /\ stack' = <<Frame(i)>>
      \/ phase' = "aborted" /\ stack' = <<>>
  BY <1>1 DEF CreateWorkspace, ReplaceComponents, LoadFails, AbortLoading
<1>3. \/ ws' = [ws EXCEPT ![i] = snapshot] /\ unseen' = unseen \ {i}
      \/ ws' = ws /\ unseen' = unseen /\ (i \in kept' \/ phase' = "aborted")
  BY DEF CreateWorkspace, ReplaceComponents, LoadFails, AbortLoading, TakeSnapshot
<1>4. /\ \A j \in Items \ {i} : ws'[j] = ws[j]
      /\ ws'[i] = snapshot \/ ws'[i] = ws[i]
  BY <1>3 DEF TypeOK
<1>5. /\ \A j \in Items : ws'[j] \subseteq ciws \union unaccepted
      /\ (\A j \in Items : ws[j] \subseteq ciws) => (\A j \in Items : ws'[j] \subseteq ciws)
  BY <1>1, <1>4 DEF History, Running
<1>6. Frame(i) \in Frames /\ <<Frame(i)>> \in Seq(Frames) /\ Len(<<Frame(i)>>) = 1
  BY DEF Frame, Frames
<1>7. TypeOK'
  <2>1. stack' \in Seq(Frames)  BY <1>2, <1>6, EmptySeq
  <2>2. ws' \in [Items -> SUBSET ChangeSets] /\ unseen' \subseteq Items
    BY <1>3 DEF TypeOK
  <2>3. phase' \in Phases  BY <1>2 DEF Phases
  <2>4. created' \subseteq Items /\ faults' \in Nat /\ EXIT' \in {0, 1} /\ kept' \subseteq Items
    BY DEF TypeOK, CreateWorkspace, ReplaceComponents, LoadFails, AbortLoading, Fault
  <2>5. QED
    BY <1>1, <2>1, <2>2, <2>3, <2>4 DEF TypeOK, StartItem, comparison, builds
<1>8. History'
  <2>1. \A j \in Items \ handled' : ws'[j] = ws[j] /\ j \in Items \ handled
    BY <1>1, <1>4
  <2>2. Decided'  BY <1>1, <1>5 DEF History, Decided
  <2>3. QED  BY <1>1, <1>2, <1>5, <2>1, <2>2 DEF History, Closed, Running
<1>9. Leftovers'
  <2>1. ASSUME NEW j \in Items, j \notin unseen'
        PROVE  ws'[j] \subseteq ciws' \/ \E c \in ws'[j] \ ciws' : ItemOf[c] = j
    <3>1. CASE ws'[j] = ws[j] /\ j \notin unseen
      BY <1>1, <2>1, <3>1 DEF Leftovers
    <3>2. CASE j = i /\ ws'[j] = snapshot
      BY <1>1, <3>2 DEF History, Running
    <3>3. QED  BY <1>3, <1>4, <2>1, <3>1, <3>2 DEF TypeOK
  <2>2. ASSUME NEW j \in Items \ (handled' \union unseen')
        PROVE  ws'[j] \intersect compare' = {} \/ Own(j)'
    <3>1. j # i /\ j \notin unseen /\ j \notin handled  BY <1>1, <1>3, <2>2
    <3>2. QED  BY <1>1, <1>4, <3>1 DEF Leftovers, Running, Own
  <2>3. QED  BY <2>1, <2>2 DEF Leftovers
<1>10. Calls(stack', ACCEPTED_WIS')
  <2>1. CASE stack' = <<>>  BY <2>1 DEF Calls
  <2>2. CASE stack' = <<Frame(i)>>
    <3>1. stack'[1].at = "accept" /\ Len(stack') = 1
      BY <2>2 DEF Frame
    <3>2. QED  BY <3>1 DEF Calls
  <2>3. QED  BY <1>2, <2>1, <2>2
<1>11. Tracked'
  <2> SUFFICES ASSUME stack' # <<>> PROVE Tracked'
    BY DEF Tracked
  <2>1. stack' = <<Frame(i)>> /\ Root' = i /\ phase' = "items"
    BY <1>2 DEF Root, Frame
  <2>2. ws[i] \intersect compare \subseteq unaccepted /\ snapshot \intersect compare = {}
    BY <1>1 DEF History, Running
  <2>3. ws'[i] = snapshot \/ (ws'[i] = ws[i] /\ i \in kept' /\ unseen' = unseen)
    BY <1>3, <2>1 DEF TypeOK
  <2>4. ws'[i] \intersect compare' \subseteq Excused(i)'
    BY <1>1, <2>2, <2>3 DEF Excused
  <2>5. i \notin unseen' => ws'[i] \intersect compare' = {} \/ Own(i)'
    <3>1. CASE ws'[i] = snapshot  BY <1>1, <2>2, <3>1
    <3>2. CASE ws'[i] = ws[i] /\ unseen' = unseen
      BY <1>1, <3>2 DEF Leftovers, Running, Own
    <3>3. QED  BY <2>3, <3>1, <3>2
  <2>6. ChangesOf(i)' # {}  BY <1>1 DEF ChangesOf
  <2>7. QED
    BY <1>1, <2>1, <2>4, <2>5, <2>6 DEF Tracked, Excused, Own, ChangesOf
<1>12. Calls(stack, ACCEPTED_WIS)'  BY <1>10 DEF Calls, InList
<1>13. QED  BY <1>7, <1>8, <1>9, <1>11, <1>12

-----------------------------------------------------------------------------
(* The recursion *)

\* The first accept of an item, that of its own change sets, when no failure goes
\* unnoticed: with the rest, or nothing and the recursion is over.
FirstAccept(new) ==
  stack = <<Frame(Root)>> /\ Root \notin unseen' =>
    /\ stack' # <<>> => ws[Root] \intersect ChangesOf(Root) = {}
    /\ (new = {} /\ stack' = <<>>) \/ ChangesOf(Root) \subseteq new

\* What a step of recursive_accept leaves alone, and what it may do to the
\* workspace: it adds change sets that are listed, or were in the CI workspace, and
\* records them unless it breaks off.
AcceptStep ==
  /\ stack # <<>> /\ phase = "items"
  /\ UNCHANGED <<stream, ciws, created, phase, runs, compare, snapshot, existing,
                 handled, compile, waited, report, kept, unaccepted>>
  /\ \E new \in SUBSET (compare \union snapshot) :
       /\ ws' = [ws EXCEPT ![Root] = @ \union new]
       /\ \/ ACCEPTED_CSS' = ACCEPTED_CSS \union new
          \/ ACCEPTED_CSS' = ACCEPTED_CSS /\ stack' = <<>>
       /\ FirstAccept(new)
  /\ ACCEPTED_WIS \subseteq ACCEPTED_WIS'
  /\ unseen \subseteq unseen' /\ unseen' \subseteq unseen \union {Root}

\* What the recursion adds is listed, or was in the CI workspace at its snapshot.
LEMMA AcceptedIsListed ==
  ASSUME IInv, Accepting
  PROVE  /\ CHANGESETS(Top.item) \subseteq compare
         /\ MissingFor(CHANGESETS(Top.item), ws[Root]) \subseteq compare \union snapshot
<1>1. CHANGESETS(Top.item) \subseteq compare
  BY DEF CHANGESETS, LinesOf
<1>2. Closed(compare \union snapshot)
  BY DEF IInv, History, Running, Accepting
<1>3. QED  BY <1>1, <1>2, MissingIsClosed

\* The first accept command names all change sets of the item.
LEMMA FirstIsWhole ==
  ASSUME IInv, stack = <<Frame(Root)>>
  PROVE  /\ Top.item = Root /\ Top.at = "accept" /\ Pop = <<>>
         /\ ChangesOf(Root) \subseteq CHANGESETS(Root)
<1>1. /\ stack # <<>> /\ Len(stack) = 1 /\ stack[1] = Frame(Root)
  BY DEF Root
<1>2. Top = Frame(Root)  BY <1>1 DEF Top
<1>3. Root \in Items /\ Len(Pop) = 0 /\ Pop \in Seq(Frames)
  BY <1>1, SameRoot, PopOfStack DEF IInv, TypeOK
<1>4. Pop = <<>>  BY <1>3, EmptySeq
<1>5. ACCEPTED_CSS = {}  BY <1>1 DEF IInv, Tracked
<1>6. ChangesOf(Root) \subseteq CHANGESETS(Root)
  BY <1>3, <1>5, NamesAssumption DEF ChangesOf, CHANGESETS, LinesOf
<1>7. QED  BY <1>2, <1>4, <1>6 DEF Frame

\* Every step of the recursion is of that kind.
LEMMA RecursionIsAcceptStep ==
  ASSUME IInv, NEW i \in Items,
         \/ NothingToAccept \/ AcceptFails \/ AcceptAgain \/ AcceptCompletes \/ AcceptMissing
         \/ LoopEnds \/ AcceptDependant(i)
  PROVE  AcceptStep
<1> USE DEF IInv
<1> DEFINE C == CHANGESETS(Top.item)
           M == MissingFor(C, ws[Root])
<1>1. stack # <<>> => Root \in Items
  BY SameRoot DEF TypeOK
<1>2. ASSUME stack # <<>>, UNCHANGED <<ws, ACCEPTED_CSS>>, FirstAccept({})
      PROVE  \E new \in SUBSET (compare \union snapshot) :
               /\ ws' = [ws EXCEPT ![Root] = @ \union new]
               /\ ACCEPTED_CSS' = ACCEPTED_CSS \union new
               /\ FirstAccept(new)
  <2>1. ws' = [ws EXCEPT ![Root] = @ \union {}]
    BY <1>1, <1>2 DEF TypeOK
  <2>2. QED  BY <1>2, <2>1
<1>3. stack' = <<>> => FirstAccept({})  BY DEF FirstAccept
<1>4. Top.at = "loop" => \A new : FirstAccept(new)
  BY FirstIsWhole DEF FirstAccept
<1>5. CASE NothingToAccept
  <2>1. FirstAccept({})
    BY <1>3, <1>5, FirstIsWhole DEF NothingToAccept, ReturnToStack, FirstAccept
  <2>2. QED
    BY <1>2, <1>5, <2>1 DEF NothingToAccept, Accepting, AcceptStep, comparison, unnoticed
<1>6. CASE AcceptFails
  <2>1. /\ Accepting /\ stack' = <<>> /\ UNCHANGED <<ACCEPTED_WIS, ACCEPTED_CSS, unnoticed>>
        /\ UNCHANGED ws \/ ws' = [ws EXCEPT ![Root] = @ \union C]
    BY <1>6 DEF AcceptFails, ReturnError
  <2>2. C \subseteq compare  BY <2>1, AcceptedIsListed
  <2>3. FirstAccept(C)  BY <2>1, FirstIsWhole DEF FirstAccept
  <2>4. \E new \in SUBSET (compare \union snapshot) :
          /\ ws' = [ws EXCEPT ![Root] = @ \union new]
          /\ ACCEPTED_CSS' = ACCEPTED_CSS /\ stack' = <<>>
          /\ FirstAccept(new)
    <3>1. CASE UNCHANGED ws
      BY <1>2, <1>3, <2>1, <3>1 DEF Accepting
    <3>2. CASE ws' = [ws EXCEPT ![Root] = @ \union C]
      <4> HIDE DEF C
      <4> QED  BY <2>1, <2>2, <2>3, <3>2
    <3>3. QED  BY <2>1, <3>1, <3>2
  <2>5. QED  BY <2>1, <2>4 DEF Accepting, AcceptStep, comparison, unnoticed
<1>7. CASE AcceptAgain
  BY <1>2, <1>3, <1>7
  DEF AcceptAgain, Accepting, ReturnError, AcceptStep, comparison, unnoticed
<1>8. CASE AcceptCompletes
  <2>1. /\ Accepting /\ stack' = Pop /\ UNCHANGED unnoticed
        /\ ws' = [ws EXCEPT ![Root] = @ \union C]
        /\ ACCEPTED_CSS' = ACCEPTED_CSS \union C
        /\ ACCEPTED_WIS \subseteq ACCEPTED_WIS'
    BY <1>8 DEF AcceptCompletes, AcceptNew, ReturnToStack, Appended
  <2>2. C \subseteq compare  BY <2>1, AcceptedIsListed
  <2>3. FirstAccept(C)  BY <2>1, FirstIsWhole DEF FirstAccept
  <2>4. \E new \in SUBSET (compare \union snapshot) :
          /\ ws' = [ws EXCEPT ![Root] = @ \union new]
          /\ ACCEPTED_CSS' = ACCEPTED_CSS \union new
          /\ FirstAccept(new)
    <3> HIDE DEF C
    <3> QED  BY <2>1, <2>2, <2>3
  <2>5. QED  BY <2>1, <2>4 DEF Accepting, AcceptStep, comparison, unnoticed
<1>9. CASE AcceptMissing
  <2>1. /\ Accepting /\ C \intersect ws[Root] = {} /\ UNCHANGED <<kept, unaccepted>>
        /\ ACCEPTED_WIS \subseteq ACCEPTED_WIS'
    BY <1>9 DEF AcceptMissing, AcceptNew, Appended
  <2>2. PICK accepted \in {C \union M, {}} :
          /\ ws' = [ws EXCEPT ![Root] = @ \union accepted]
          /\ ACCEPTED_CSS' = ACCEPTED_CSS \union accepted
          /\ (accepted # {} /\ unseen' = unseen) \/ unseen' = unseen \union {Root}
    BY <1>9 DEF AcceptMissing
  <2>3. C \union M \subseteq compare \union snapshot  BY <2>1, AcceptedIsListed
  <2>4. FirstAccept(accepted)
    <3> SUFFICES ASSUME stack = <<Frame(Root)>>, Root \notin unseen'
                 PROVE  FirstAccept(accepted)
      BY DEF FirstAccept
    <3>1. accepted = C \union M  BY <2>2
    <3>2. ChangesOf(Root) \subseteq C  BY FirstIsWhole
    <3>3. QED  BY <2>1, <3>1, <3>2 DEF FirstAccept
  <2>5. \E new \in SUBSET (compare \union snapshot) :
          /\ ws' = [ws EXCEPT ![Root] = @ \union new]
          /\ ACCEPTED_CSS' = ACCEPTED_CSS \union new
          /\ FirstAccept(new)
    <3> HIDE DEF C, M
    <3>1. accepted \in SUBSET (compare \union snapshot)  BY <2>2, <2>3
    <3> QED  BY <2>2, <2>4, <3>1
  <2>6. unseen \subseteq unseen' /\ unseen' \subseteq unseen \union {Root}  BY <2>2
  <2>7. QED  BY <2>1, <2>5, <2>6 DEF Accepting, AcceptStep, comparison
<1>10. CASE LoopEnds
  BY <1>2, <1>4, <1>10 DEF LoopEnds, Looping, AcceptStep, comparison, rtc, unnoticed
<1>11. CASE AcceptDependant(i)
  BY <1>2, <1>4, <1>11 DEF AcceptDependant, Looping, AcceptStep, comparison, rtc, unnoticed
<1>12. QED  BY <1>5, <1>6, <1>7, <1>8, <1>9, <1>10, <1>11

\* Such a step keeps the workspaces right and the account of the current one.
LEMMA AcceptStepKeeps ==
  ASSUME IInv, AcceptStep
  PROVE  /\ History' /\ Leftovers'
         /\ ws' \in [Items -> SUBSET ChangeSets] /\ ACCEPTED_CSS' \subseteq ChangeSets
         /\ unseen' \subseteq Items
         /\ stack' # <<>> =>
              /\ ws'[Root] \intersect compare \subseteq ACCEPTED_CSS' \union Excused(Root)
              /\ Root \notin unseen' =>
                   /\ ws'[Root] \intersect compare \subseteq ACCEPTED_CSS'
                   /\ \E c \in ws'[Root] \intersect compare : ItemOf[c] = Root
<1> USE DEF IInv
<1>1. PICK new \in SUBSET (compare \union snapshot) :
        /\ ws' = [ws EXCEPT ![Root] = @ \union new]
        /\ \/ ACCEPTED_CSS' = ACCEPTED_CSS \union new
           \/ ACCEPTED_CSS' = ACCEPTED_CSS /\ stack' = <<>>
        /\ FirstAccept(new)
  BY DEF AcceptStep
<1>2. /\ Root \in Items /\ Root \in handled /\ ChangesOf(Root) # {}
      /\ ws[Root] \intersect compare \subseteq ACCEPTED_CSS \union Excused(Root)
      /\ compare \union snapshot \subseteq ChangeSets
  BY SameRoot DEF TypeOK, Tracked, AcceptStep
<1>3. /\ ws'[Root] = ws[Root] \union new
      /\ \A j \in Items \ {Root} : ws'[j] = ws[j]
  BY <1>1, <1>2 DEF TypeOK
<1>4. /\ ws' \in [Items -> SUBSET ChangeSets] /\ ACCEPTED_CSS' \subseteq ChangeSets
      /\ unseen' \subseteq Items
  BY <1>1, <1>2, <1>3 DEF TypeOK, AcceptStep
<1>5. /\ snapshot \subseteq ciws /\ Decided
  BY DEF History, Running, AcceptStep
<1>6. /\ \A j \in Items : ws'[j] \subseteq ciws \union unaccepted
      /\ (compare \subseteq ciws /\ \A j \in Items : ws[j] \subseteq ciws)
           => \A j \in Items : ws'[j] \subseteq ciws
  BY <1>3, <1>5 DEF History, Decided
<1>7. \A j \in Items \ handled : ws'[j] = ws[j]
  BY <1>2, <1>3
<1>8. History'
  <2>1. Decided'  BY <1>5, <1>6 DEF Decided, AcceptStep
  <2>2. QED  BY <1>6, <1>7, <2>1 DEF History, Closed, Running, AcceptStep
<1>9. ASSUME Root \notin unseen', stack' # <<>> \/ ws'[Root] # ws[Root]
      PROVE  \E c \in ws'[Root] \intersect compare : ItemOf[c] = Root
  <2>1. CASE Own(Root)  BY <1>3, <2>1 DEF Own
  <2>2. CASE stack = <<Frame(Root)>> /\ ChangesOf(Root) \subseteq new
    BY <1>2, <1>3, <2>2 DEF ChangesOf
  <2>3. Root \notin unseen  BY <1>9 DEF AcceptStep
  <2>4. stack = <<Frame(Root)>> => ChangesOf(Root) \subseteq new
    BY <1>1, <1>3, <1>9 DEF FirstAccept
  <2>5. QED  BY <2>1, <2>2, <2>3, <2>4 DEF Tracked, AcceptStep
<1>10. Leftovers'
  <2>1. ASSUME NEW j \in Items \ unseen'
        PROVE  ws'[j] \subseteq ciws' \/ \E c \in ws'[j] \ ciws' : ItemOf[c] = j
    <3>1. j \notin unseen /\ ciws' = ciws  BY DEF AcceptStep
    <3>2. CASE ws'[j] = ws[j]  BY <3>1, <3>2 DEF Leftovers
    <3>3. CASE compare \subseteq ciws /\ \A k \in Items : ws[k] \subseteq ciws
      BY <1>6, <3>1, <3>3
    <3>4. CASE j = Root /\ ws'[Root] # ws[Root] /\ compare \intersect ciws = {}
      BY <1>9, <3>1, <3>4
    <3>5. QED  BY <1>3, <1>5, <3>2, <3>3, <3>4 DEF Decided
  <2>2. QED  BY <1>7, <2>1 DEF Leftovers, Own, Running, AcceptStep
<1>11. ASSUME stack' # <<>>
       PROVE  /\ ws'[Root] \intersect compare \subseteq ACCEPTED_CSS' \union Excused(Root)
              /\ Root \notin unseen' => ws'[Root] \intersect compare \subseteq ACCEPTED_CSS'
  <2>1. ACCEPTED_CSS' = ACCEPTED_CSS \union new  BY <1>1, <1>11
  <2>2. ASSUME Root \notin unseen' PROVE ws[Root] \intersect compare \subseteq ACCEPTED_CSS
    <3>1. CASE stack = <<Frame(Root)>>
      <4>1. ~Own(Root)  BY <1>1, <1>11, <2>2, <3>1 DEF FirstAccept, Own, ChangesOf
      <4>2. QED  BY <1>11, <2>2, <3>1, <4>1 DEF Tracked, AcceptStep
    <3>2. CASE stack # <<Frame(Root)>>
      BY <2>2, <3>2 DEF Tracked, AcceptStep
    <3>3. QED  BY <3>1, <3>2
  <2>3. QED  BY <1>2, <1>3, <2>1, <2>2
<1>12. QED  BY <1>4, <1>8, <1>9, <1>10, <1>11

\* What a step does to the stack: a call returns, goes on to its loop, or makes
\* another call; or all of them are left.
LEMMA RecursionKeepsCalls ==
  ASSUME IInv, NEW i \in Items,
         \/ NothingToAccept \/ AcceptFails \/ AcceptAgain \/ AcceptCompletes \/ AcceptMissing
         \/ LoopEnds \/ AcceptDependant(i)
  PROVE  /\ stack' \in Seq(Frames) /\ Calls(stack', ACCEPTED_WIS')
         /\ stack' # <<>> => stack'[1].item = Root /\ stack'[1].at # "accept"
<1> USE DEF IInv
<1>1. AcceptStep  BY RecursionIsAcceptStep
<1>2. /\ stack \in Seq(Frames) /\ stack # <<>>
      /\ ACCEPTED_WIS \subseteq ACCEPTED_WIS' /\ Calls(stack, ACCEPTED_WIS)
  BY <1>1 DEF TypeOK, AcceptStep
<1>3. Pop \in Seq(Frames) /\ Top \in Frames  BY <1>2, PopOfStack
<1>4. /\ Calls(Pop, ACCEPTED_WIS')
      /\ \A k \in 1..Len(Pop) : Pop[k].at # "accept" /\ Pop[k].item # Top.item
  BY <1>2, CallReturns
<1>5. /\ Pop # <<>> => Pop[1] = stack[1]
      /\ Pop = <<>> => Top = stack[1]
      /\ \A f : Pop # <<>> => Append(Pop, f)[1] = stack[1]
  BY <1>2, SameRoot
<1>12. Pop # <<>> => Pop[1].at # "accept"
  <2>1. Pop # <<>> => 1 \in 1..Len(Pop)  BY <1>3, EmptySeq
  <2>2. QED  BY <1>4, <2>1
<1>6. ASSUME NEW f \in Frames, f.item = Top.item, f.at = "loop",
             InList(f.item, ACCEPTED_WIS')
      PROVE  /\ Append(Pop, f) \in Seq(Frames)
             /\ Calls(Append(Pop, f), ACCEPTED_WIS')
             /\ Append(Pop, f)[1].item = Root /\ Append(Pop, f)[1].at # "accept"
  <2>1. Append(Pop, f) \in Seq(Frames)  BY <1>3, PutOnTop
  <2>2. Calls(Append(Pop, f), ACCEPTED_WIS')
    BY <1>3, <1>4, <1>6, CallOnTop
  <2>3. CASE Pop # <<>>  BY <1>5, <1>12, <2>1, <2>3, <2>2 DEF Root
  <2>4. CASE Pop = <<>>
    <3>1. Append(Pop, f)[1] = f  BY <2>4
    <3>2. QED  BY <1>5, <1>6, <2>1, <2>2, <2>4, <3>1 DEF Root
  <2>5. QED  BY <2>3, <2>4
<1>7. CASE stack' = Pop
  BY <1>3, <1>4, <1>5, <1>7, <1>12 DEF Root
<1>8. CASE stack' = <<>>
  BY <1>8, EmptySeq DEF Calls
<1>9. CASE AcceptMissing
  <2> DEFINE f == [Top EXCEPT !.at = "loop", !.todo = DEPENDS_ON_WI_LIST']
  <2>1. stack' = <<>> \/ /\ stack' = Append(Pop, f)
                         /\ ACCEPTED_WIS' = Appended(ACCEPTED_WIS, {Top.item})
                         /\ DEPENDS_ON_WI_LIST' \subseteq Items
    BY <1>9, ItemOfAssumption DEF AcceptMissing, ReturnError, TypeOK, Appended
  <2>2. CASE /\ stack' = Append(Pop, f)
             /\ ACCEPTED_WIS' = Appended(ACCEPTED_WIS, {Top.item})
             /\ DEPENDS_ON_WI_LIST' \subseteq Items
    <3>1. f \in Frames /\ f.item = Top.item /\ f.at = "loop"
      BY <1>3, <2>2 DEF Frames
    <3>2. InList(Top.item, ACCEPTED_WIS')
      BY <1>3, <2>2, InListAppended DEF Frames
    <3>3. QED  BY <1>6, <2>2, <3>1, <3>2
  <2>3. QED  BY <1>8, <2>1, <2>2
<1>10. CASE AcceptDependant(i)
  <2> DEFINE f == [Top EXCEPT !.todo = @ \ {i}]
             st == Append(Pop, f)
  <2>1. /\ stack' = Append(st, Frame(i)) /\ ACCEPTED_WIS' = ACCEPTED_WIS
        /\ Top.at = "loop" /\ ~InList(i, ACCEPTED_WIS)
    BY <1>10 DEF AcceptDependant, Looping, Dependants
  <2>2. f \in Frames /\ f.item = Top.item /\ f.at = "loop"
    BY <1>3, <2>1 DEF Frames
  <2>3. InList(Top.item, ACCEPTED_WIS)
    <3>1. Len(stack) \in 1..Len(stack)  BY <1>2, PopOfStack
    <3>2. QED  BY <1>2, <2>1, <3>1 DEF Calls, Top
  <2>4. /\ st \in Seq(Frames) /\ Calls(st, ACCEPTED_WIS) /\ st[1].item = Root /\ st[1].at # "accept"
    <3> HIDE DEF f
    <3>1. QED  BY <1>6, <2>1, <2>2, <2>3
  <2>5. st # <<>> /\ Len(st) \in Nat /\ Len(st) = Len(Pop) + 1
        /\ \A k \in 1..Len(Pop) : st[k] = Pop[k]
        /\ st[Len(Pop) + 1] = f /\ Len(Pop) \in Nat
    <3> HIDE DEF f
    <3>1. QED  BY <1>3, <2>2, PutOnTop
  <2>6. \A k \in 1..Len(st) : st[k].at # "accept"
    <3> HIDE DEF f
    <3>1. f.at # "accept" /\ f \in Frames  BY <2>2
    <3>2. QED  BY <1>3, <1>4, <3>1, LoopOnTop
  <2>7. \A k \in 1..Len(st) : st[k].item # i
    <3> HIDE DEF f, st
    <3>1. SUFFICES ASSUME NEW k \in 1..Len(st), st[k].item = i PROVE FALSE
      OBVIOUS
    <3>2. st[k] \in Frames  BY <2>4, ElementOfSeq
    <3>3. st[k].at = "loop"  BY <2>6, <3>2 DEF Frames
    <3>4. InList(st[k].item, ACCEPTED_WIS)  BY <2>4, <3>3 DEF Calls
    <3>5. QED  BY <2>1, <3>1, <3>4
  <2>8. Frame(i) \in Frames /\ Frame(i).item = i /\ Frame(i).at = "accept"
    BY DEF Frame, Frames
  <2>9. Calls(Append(st, Frame(i)), ACCEPTED_WIS)
    <3> HIDE DEF st
    <3>1. QED  BY <2>4, <2>6, <2>7, <2>8, CallOnTop
  <2>10. Append(st, Frame(i)) \in Seq(Frames) /\ Append(st, Frame(i))[1] = st[1]
    <3> HIDE DEF st
    <3>1. 1 \in 1..Len(st)  BY <2>4, <2>5
    <3>2. QED  BY <2>4, <2>8, <3>1, PutOnTop
  <2>11. QED
    <3> HIDE DEF st
    <3>1. QED  BY <2>1, <2>4, <2>9, <2>10
<1>11. QED
  BY <1>7, <1>8, <1>9, <1>10
  DEF NothingToAccept, AcceptFails, AcceptAgain, AcceptCompletes, LoopEnds, ReturnToStack,
      ReturnError

\* The recursion keeps the invariant.
LEMMA RecursionKeeps ==
  ASSUME IInv, NEW i \in Items,
         \/ NothingToAccept \/ AcceptFails \/ AcceptAgain \/ AcceptCompletes \/ AcceptMissing
         \/ LoopEnds \/ AcceptDependant(i)
  PROVE  IInv'
<1> USE DEF IInv
<1>1. AcceptStep  BY RecursionIsAcceptStep
<1>2. /\ stack' \in Seq(Frames) /\ Calls(stack', ACCEPTED_WIS')
      /\ stack' # <<>> => stack'[1].item = Root /\ stack'[1].at # "accept"
  BY RecursionKeepsCalls
<1>3. /\ History' /\ Leftovers'
      /\ ws' \in [Items -> SUBSET ChangeSets] /\ ACCEPTED_CSS' \subseteq ChangeSets
      /\ unseen' \subseteq Items
      /\ stack' # <<>> =>
           /\ ws'[Root] \intersect compare \subseteq ACCEPTED_CSS' \union Excused(Root)
           /\ Root \notin unseen' =>
                /\ ws'[Root] \intersect compare \subseteq ACCEPTED_CSS'
                /\ \E c \in ws'[Root] \intersect compare : ItemOf[c] = Root
  BY <1>1, AcceptStepKeeps
<1>4. /\ Root \in Items /\ Top.item \in Items /\ Root \in handled
  <2>1. Top \in Frames /\ Root \in Items
    BY <1>1, PopOfStack, SameRoot DEF AcceptStep, TypeOK
  <2>2. QED  BY <1>1, <2>1 DEF AcceptStep, Frames, Tracked
<1>5. ITEMS_TO_BUILD' \in Seq(Items) /\ waited' \in 0..Len(ITEMS_TO_BUILD')
  <2>1. ITEMS_TO_BUILD' = ITEMS_TO_BUILD \/ ITEMS_TO_BUILD' = Append(ITEMS_TO_BUILD, Root)
    BY DEF NothingToAccept, AcceptFails, AcceptAgain, AcceptCompletes, AcceptMissing, LoopEnds,
           AcceptDependant, ReturnToStack
  <2>2. waited' = waited  BY <1>1 DEF AcceptStep
  <2>3. ITEMS_TO_BUILD \in Seq(Items) /\ waited \in 0..Len(ITEMS_TO_BUILD)
    BY DEF TypeOK
  <2>4. CASE ITEMS_TO_BUILD' = ITEMS_TO_BUILD
    BY <2>2, <2>3, <2>4
  <2>5. CASE ITEMS_TO_BUILD' = Append(ITEMS_TO_BUILD, Root)
    <3>1. /\ Append(ITEMS_TO_BUILD, Root) \in Seq(Items)
          /\ Len(Append(ITEMS_TO_BUILD, Root)) = Len(ITEMS_TO_BUILD) + 1
          /\ Len(ITEMS_TO_BUILD) \in Nat
      BY <1>4, <2>3, AppendProperties, LenProperties
    <3>2. waited \in 0..(Len(ITEMS_TO_BUILD) + 1)
      BY <2>3, <3>1
    <3>3. QED  BY <2>2, <2>5, <3>1, <3>2
  <2>6. QED  BY <2>1, <2>4, <2>5
<1>6. /\ ACCEPTED_WIS' \subseteq Items /\ DEPENDS_ON_WI_LIST' \subseteq Items
      /\ faults' \in Nat /\ EXIT' \in {0, 1}
  BY <1>4, ItemOfAssumption
  DEF TypeOK, NothingToAccept, AcceptFails, AcceptAgain, AcceptCompletes, AcceptMissing, LoopEnds,
      AcceptDependant, Looping, ReturnError, Appended, Fault
<1>7. TypeOK'
  BY <1>1, <1>2, <1>3, <1>5, <1>6 DEF TypeOK, AcceptStep
<1>8. Tracked'
  <2> SUFFICES ASSUME stack' # <<>> PROVE Tracked'
    BY DEF Tracked
  <2>1. /\ Root' = Root /\ ChangesOf(Root)' # {} /\ phase' = "items" /\ Root \in handled'
        /\ Excused(Root)' = Excused(Root)
    BY <1>1, <1>2 DEF Tracked, Root, AcceptStep, ChangesOf, Excused
  <2>2. stack' # <<Frame(Root)>>  BY <1>2 DEF Frame
  <2>3. UNCHANGED compare  BY <1>1 DEF AcceptStep
  <2>4. QED  BY <1>3, <2>1, <2>2, <2>3 DEF Tracked, Own
<1>9. Calls(stack, ACCEPTED_WIS)'  BY <1>2 DEF Calls, InList
<1>10. QED  BY <1>3, <1>7, <1>8, <1>9

-----------------------------------------------------------------------------
(* Theorems *)

\* The invariant holds at the start and is kept by every step.
LEMMA AlwaysIInv == Spec => []IInv
<1>1. Init => IInv
  <2>1. <<>> \in Seq(Frames) /\ <<>> \in Seq(Items) /\ Len(<<>>) = 0
    BY EmptySeq
  <2>2. ASSUME Init PROVE TypeOK
    BY <2>1, <2>2, HistoryAssumption DEF Init, TypeOK, Phases
  <2>3. ASSUME Init PROVE History /\ Leftovers
    BY <2>3, HistoryAssumption DEF Init, History, Leftovers, Closed, Running
  <2>4. ASSUME Init PROVE Calls(stack, ACCEPTED_WIS) /\ Tracked
    BY <2>1, <2>4 DEF Init, Calls, Tracked
  <2>5. QED  BY <2>2, <2>3, <2>4 DEF IInv
<1>2. IInv /\ [Next]_vars => IInv'
  <2> SUFFICES ASSUME IInv, [Next]_vars PROVE IInv'  OBVIOUS
  <2>1. CASE Next
    <3>1. \/ \E c \in ChangeSets : Deliver(c)
          \/ Compare \/ AcceptAll \/ AcceptAllFails
          \/ ListWorkspaces \/ Abort \/ StartBuilds \/ Wait \/ End \/ Compiler
          \/ \E i \in Items : CreateWorkspace(i) \/ ReplaceComponents(i) \/ LoadFails(i) \/ AbortLoading(i)
          \/ NothingToAccept \/ AcceptFails \/ AcceptAgain \/ AcceptCompletes \/ AcceptMissing
          \/ LoopEnds
          \/ \E i \in Items : AcceptDependant(i)
      BY <2>1 DEF Next, Job
    <3>2. ASSUME NothingToAccept \/ AcceptFails \/ AcceptAgain \/ AcceptCompletes \/ AcceptMissing
                 \/ LoopEnds
          PROVE  IInv'
      <4>1. stack # <<>>
        BY <3>2 DEF NothingToAccept, AcceptFails, AcceptAgain, AcceptCompletes, AcceptMissing,
                    LoopEnds, Looping, Accepting, AcceptNew
      <4>2. PICK i \in Items : TRUE
        BY <4>1, SameRoot DEF IInv, TypeOK
      <4>3. QED  BY <3>2, <4>2, RecursionKeeps
    <3>3. QED
      BY <3>1, <3>2, DeliverKeeps, CompareKeeps, AcceptAllKeeps, OtherStepsKeep,
         StartItemKeeps, RecursionKeeps
  <2>2. CASE UNCHANGED vars
    BY <2>2 DEF vars, rtc, comparison, recursion, builds, unnoticed, IInv, TypeOK, History,
                Decided, Leftovers, Own, Closed, Running, Calls, InList, Tracked, Excused,
                ChangesOf, Root
  <2>3. QED  BY <2>1, <2>2
<1>3. QED  BY <1>1, <1>2, PTL DEF Spec

\* The variables of the job and the contents of RTC keep their types; in
\* particular the stack holds calls only, and the wait never runs past the
\* compilations that were started.
THEOREM TypeCorrect == Spec => []TypeOK
<1>1. IInv => TypeOK  BY DEF IInv
<1>2. QED  BY <1>1, AlwaysIInv, PTL

\* No accept command is given a change set the workspace has already, whatever
\* the recursion accepted before, was delivered meanwhile, or failed.
THEOREM AcceptsOnlyOnce == Spec => []NeverAcceptedTwice
<1>1. IInv => NeverAcceptedTwice
  BY DEF IInv, Tracked, Excused, NeverAcceptedTwice, CHANGESETS, LinesOf
<1>2. QED  BY <1>1, AlwaysIInv, PTL

\* recursive_accept never comes back to an item whose call has not returned,
\* so its depth is bounded by the number of items, whatever depends on what.
THEOREM RecursionIsAcyclic == Spec => []NoReentry
<1>1. IInv => NoReentry
  <2> SUFFICES ASSUME IInv PROVE NoReentry  OBVIOUS
  <2>1. DOMAIN stack = 1..Len(stack)  BY LenProperties DEF IInv, TypeOK
  <2>2. QED  BY <2>1 DEF IInv, Calls, NoReentry
<1>2. QED  BY <1>1, AlwaysIInv, PTL

-----------------------------------------------------------------------------
(* The end of the job *)

\* No item is to be built twice.
Once ==
  \A k, l \in 1..Len(ITEMS_TO_BUILD) : ITEMS_TO_BUILD[k] = ITEMS_TO_BUILD[l] => k = l

\* The items whose compilation was waited for.
Awaits == {ITEMS_TO_BUILD[k] : k \in 1..waited}

\* Before the loop over the items.
Preparing ==
  phase \in {"compared", "accepted"} =>
    EXIT = 0 /\ ITEMS_TO_BUILD = <<>> /\ handled = {}

NoBuilds ==
  phase \in {"compared", "accepted", "items"} =>
    waited = 0 /\ \A i \in Items : compile[i] = None /\ report[i] = None

\* In the loop: the status is 0 as long as every item handled is to be built,
\* but for the one under way.
Handling ==
  phase = "items" =>
    /\ Once /\ handled \subseteq ITEMS_TO_VERIFY /\ ToBuild \subseteq handled
    /\ stack # <<>> => Root \notin ToBuild
    /\ EXIT = 0 <=> handled \ ToBuild = IF stack = <<>> THEN {} ELSE {Root}

\* While it waits: reported is what was waited for, and the status says what
\* was not to be built and what was reported.
Waiting ==
  phase = "builds" =>
    /\ Once /\ ToBuild \subseteq ITEMS_TO_VERIFY
    /\ \A i \in Items : compile[i] # None <=> i \in ToBuild
    /\ \A i \in Items : report[i] = IF i \in Awaits THEN compile[i] ELSE None
    /\ \A i \in Awaits : compile[i] \in Results
    /\ EXIT = 0 <=> ToBuild = ITEMS_TO_VERIFY /\ \A i \in Awaits : compile[i] = "ok"

BuildInv == Preparing /\ NoBuilds /\ Handling /\ Waiting /\ ExitTellsAll

\* An item that is put in the list of those to build.
LEMMA OneMoreToBuild ==
  ASSUME ITEMS_TO_BUILD \in Seq(Items), NEW i \in Items,
         ITEMS_TO_BUILD' = Append(ITEMS_TO_BUILD, i)
  PROVE  /\ ToBuild' = ToBuild \union {i}
         /\ Once /\ i \notin ToBuild => Once'
<1> DEFINE n == Len(ITEMS_TO_BUILD)
<1>1. /\ n \in Nat /\ Len(ITEMS_TO_BUILD') = n + 1
      /\ DOMAIN ITEMS_TO_BUILD = 1..n /\ DOMAIN ITEMS_TO_BUILD' = 1..(n + 1)
      /\ \A k \in 1..n : ITEMS_TO_BUILD'[k] = ITEMS_TO_BUILD[k]
      /\ ITEMS_TO_BUILD'[n + 1] = i
  BY AppendProperties, LenProperties
<1> HIDE DEF n
<1>2. 1..(n + 1) = (1..n) \union {n + 1} /\ n + 1 \notin 1..n  BY <1>1
<1>3. ToBuild' = ToBuild \union {i}  BY <1>1, <1>2 DEF ToBuild
<1>4. ASSUME Once, i \notin ToBuild PROVE Once'
  <2>1. \A k \in 1..n : ITEMS_TO_BUILD[k] # i  BY <1>1, <1>4 DEF ToBuild
  <2>2. \A k, l \in 1..n : ITEMS_TO_BUILD[k] = ITEMS_TO_BUILD[l] => k = l
    BY <1>4 DEF Once, n
  <2>3. \A k, l \in 1..(n + 1) : ITEMS_TO_BUILD'[k] = ITEMS_TO_BUILD'[l] => k = l
    BY <1>1, <1>2, <2>1, <2>2
  <2>4. QED  BY <1>1, <2>3 DEF Once
<1>5. QED  BY <1>3, <1>4

\* A step of the recursion goes on with the item, ends with it to be built,
\* or breaks off with the status of a failure.
Outcome ==
  \/ stack' # <<>> /\ Root' = Root /\ UNCHANGED <<ITEMS_TO_BUILD, EXIT>>
  \/ /\ stack' = <<>> /\ ITEMS_TO_BUILD' = Append(ITEMS_TO_BUILD, Root)
     /\ UNCHANGED EXIT
  \/ stack' = <<>> /\ EXIT' = 1 /\ UNCHANGED ITEMS_TO_BUILD

LEMMA RecursionOutcome ==
  ASSUME IInv, NEW i \in Items,
         \/ NothingToAccept \/ AcceptFails \/ AcceptAgain \/ AcceptCompletes \/ AcceptMissing
         \/ LoopEnds \/ AcceptDependant(i)
  PROVE  Outcome
<1> USE DEF IInv
<1>1. /\ stack \in Seq(Frames) /\ stack # <<>>
      /\ stack' \in Seq(Frames)
      /\ stack' # <<>> => stack'[1].item = Root
  BY RecursionIsAcceptStep, RecursionKeepsCalls DEF TypeOK, AcceptStep
<1>2. /\ Pop = <<>> <=> Len(stack) = 1
      /\ \A f \in Frames : Append(Pop, f) # <<>>
  BY <1>1, PopOfStack, EmptySeq, PutOnTop
<1>3. CASE ReturnToStack /\ UNCHANGED EXIT
  BY <1>1, <1>2, <1>3 DEF ReturnToStack, Outcome, Root
<1>4. CASE ReturnError /\ UNCHANGED ITEMS_TO_BUILD
  BY <1>4 DEF ReturnError, Outcome
<1>5. CASE AcceptMissing /\ ~ReturnError
  <2>1. /\ UNCHANGED <<ITEMS_TO_BUILD, EXIT>>
        /\ stack' = Append(Pop, [Top EXCEPT !.at = "loop",
                                            !.todo = DEPENDS_ON_WI_LIST'])
    BY <1>5 DEF AcceptMissing
  <2>2. Pop \in Seq(Frames)  BY <1>1, PopOfStack
  <2>3. stack' # <<>>  BY <2>1, <2>2
  <2>4. QED  BY <1>1, <2>1, <2>3 DEF Outcome, Root
<1>6. CASE AcceptDependant(i)
  <2> DEFINE st == Append(Pop, [Top EXCEPT !.todo = @ \ {i}])
  <2>1. UNCHANGED <<ITEMS_TO_BUILD, EXIT>> /\ stack' = Append(st, Frame(i))
    BY <1>6 DEF AcceptDependant, Looping
  <2>2. Pop \in Seq(Frames) /\ Top \in Frames  BY <1>1, PopOfStack
  <2>3. st \in Seq(Frames)  BY <2>2 DEF Frames
  <2>4. stack' # <<>>
    <3> HIDE DEF st
    <3> QED  BY <2>1, <2>3
  <2>5. QED  BY <1>1, <2>1, <2>4 DEF Outcome, Root
<1>7. QED
  BY <1>3, <1>4, <1>5, <1>6
  DEF NothingToAccept, AcceptFails, AcceptAgain, AcceptCompletes, AcceptMissing, LoopEnds, Looping

\* The recursion keeps the account of the items to build.
LEMMA RecursionKeepsBuilds ==
  ASSUME IInv, BuildInv, NEW i \in Items,
         \/ NothingToAccept \/ AcceptFails \/ AcceptAgain \/ AcceptCompletes \/ AcceptMissing
         \/ LoopEnds \/ AcceptDependant(i)
  PROVE  BuildInv'
<1> USE DEF IInv, BuildInv
<1>1. /\ AcceptStep /\ Outcome
      /\ phase = "items" /\ stack # <<>>
      /\ UNCHANGED <<phase, compare, handled, compile, waited, report>>
  BY RecursionIsAcceptStep, RecursionOutcome DEF AcceptStep
<1>2. /\ Root \in Items /\ Root \in handled /\ Root \notin ToBuild
      /\ Once /\ handled \subseteq ITEMS_TO_VERIFY /\ ToBuild \subseteq handled
      /\ EXIT = 0 <=> handled \ ToBuild = {Root}
  BY <1>1, SameRoot DEF TypeOK, Tracked, Handling
<1>3. ITEMS_TO_VERIFY' = ITEMS_TO_VERIFY  BY <1>1 DEF ITEMS_TO_VERIFY
<1>4. Handling'
  <2>1. CASE stack' # <<>> /\ Root' = Root /\ UNCHANGED <<ITEMS_TO_BUILD, EXIT>>
    BY <1>1, <1>2, <1>3, <2>1 DEF Handling, Once, ToBuild
  <2>2. CASE /\ stack' = <<>> /\ ITEMS_TO_BUILD' = Append(ITEMS_TO_BUILD, Root)
             /\ UNCHANGED EXIT
    <3>1. ToBuild' = ToBuild \union {Root} /\ Once'
      BY <1>2, <2>2, OneMoreToBuild DEF TypeOK
    <3>2. handled \ ToBuild = {Root} <=> handled \ ToBuild' = {}
      BY <1>2, <3>1
    <3>3. QED  BY <1>1, <1>2, <1>3, <2>2, <3>1, <3>2 DEF Handling
  <2>3. CASE stack' = <<>> /\ EXIT' = 1 /\ UNCHANGED ITEMS_TO_BUILD
    <3>1. ToBuild' = ToBuild /\ Once'  BY <1>2, <2>3 DEF ToBuild, Once
    <3>2. handled \ ToBuild # {}  BY <1>2
    <3>3. QED  BY <1>1, <1>2, <1>3, <2>3, <3>1, <3>2 DEF Handling
  <2>4. QED  BY <1>1, <2>1, <2>2, <2>3 DEF Outcome
<1>5. QED  BY <1>1, <1>4 DEF Preparing, NoBuilds, Waiting, ExitTellsAll

\* An item whose turn it is, is in no list and has no status yet.
LEMMA StartItemKeepsBuilds ==
  ASSUME IInv, BuildInv, NEW i \in Items,
         CreateWorkspace(i) \/ ReplaceComponents(i) \/ LoadFails(i) \/ AbortLoading(i)
  PROVE  BuildInv'
<1> USE DEF IInv, BuildInv
<1>1. /\ phase = "items" /\ stack = <<>> /\ i \in ITEMS_TO_VERIFY \ handled
      /\ handled' = handled \union {i}
      /\ UNCHANGED <<compare, ITEMS_TO_BUILD, compile, waited, report>>
  BY DEF CreateWorkspace, ReplaceComponents, LoadFails, AbortLoading, StartItem, comparison, builds
<1>2. \/ phase' = "items" /\ stack' = <<Frame(i)>> /\ UNCHANGED EXIT
      \/ phase' = "aborted"
  BY <1>1 DEF CreateWorkspace, ReplaceComponents, LoadFails, AbortLoading
<1>3. ITEMS_TO_VERIFY' = ITEMS_TO_VERIFY /\ ToBuild' = ToBuild
  BY <1>1 DEF ITEMS_TO_VERIFY, ToBuild
<1>4. Handling'
  <2>1. SUFFICES ASSUME phase' = "items" PROVE Handling'
    BY DEF Handling
  <2>2. /\ stack' # <<>> /\ Root' = i /\ UNCHANGED EXIT
    BY <1>2, <2>1 DEF Root, Frame
  <2>3. /\ ToBuild \subseteq handled /\ handled \subseteq ITEMS_TO_VERIFY /\ Once
        /\ EXIT = 0 <=> handled \ ToBuild = {}
    BY <1>1 DEF Handling
  <2>4. handled \ ToBuild = {} <=> handled' \ ToBuild = {i}
    BY <1>1, <2>3
  <2>5. Once'  BY <1>1, <2>3 DEF Once
  <2>6. i \notin ToBuild  BY <1>1, <2>3
  <2>7. QED  BY <1>1, <1>3, <2>2, <2>3, <2>4, <2>5, <2>6 DEF Handling
<1>5. QED
  BY <1>1, <1>2, <1>4 DEF Preparing, NoBuilds, Waiting, ExitTellsAll

\* The items are waited for in the order of the list, each for its own end.
LEMMA WaitKeepsBuilds ==
  ASSUME IInv, BuildInv, Wait
  PROVE  BuildInv'
<1> USE DEF IInv, BuildInv
<1> DEFINE n == Len(ITEMS_TO_BUILD)
<1>1. /\ phase = "builds" /\ phase' = "builds" /\ waited < n
      /\ compile[Awaited] \in Results /\ waited' = waited + 1
      /\ report' = [report EXCEPT ![Awaited] = compile[Awaited]]
      /\ EXIT' = IF compile[Awaited] = "failed" THEN 1 ELSE EXIT
      /\ UNCHANGED <<compare, ITEMS_TO_BUILD, compile>>
  BY DEF Wait, Awaited, comparison
<1>2. n \in Nat /\ waited \in 0..n /\ DOMAIN ITEMS_TO_BUILD = 1..n
      /\ ITEMS_TO_BUILD \in Seq(Items)
  BY LenProperties DEF TypeOK
<1>3. waited + 1 \in 1..n /\ 1..(waited + 1) = (1..waited) \union {waited + 1}
  BY <1>1, <1>2
<1>4. Awaited \in Items /\ Awaited \in ToBuild /\ Awaits' = Awaits \union {Awaited}
  BY <1>1, <1>2, <1>3, ElementOfSeq DEF Awaited, ToBuild, Awaits
<1>5. ToBuild' = ToBuild /\ ITEMS_TO_VERIFY' = ITEMS_TO_VERIFY
  BY <1>1 DEF ToBuild, ITEMS_TO_VERIFY
<1>6. \A j \in Items :
        report'[j] = IF j = Awaited THEN compile[j] ELSE report[j]
  BY <1>1, <1>4 DEF TypeOK
<1>7. EXIT' = 0 <=> EXIT = 0 /\ compile[Awaited] = "ok"
  BY <1>1 DEF Results
<1>8. Waiting'
  BY <1>1, <1>4, <1>5, <1>6, <1>7 DEF Waiting, Once
<1>9. QED  BY <1>1, <1>8 DEF Preparing, NoBuilds, Handling, ExitTellsAll

\* A compilation that ends was not waited for before.
LEMMA CompileEndsKeepsBuilds ==
  ASSUME IInv, BuildInv, NEW i \in Items, NEW result \in Results, CompileEnds(i, result)
  PROVE  BuildInv'
<1> USE DEF IInv, BuildInv
<1>1. /\ phase = "builds" /\ compile[i] = "running" /\ phase' = "builds"
      /\ compile' = [compile EXCEPT ![i] = result]
      /\ UNCHANGED <<compare, ITEMS_TO_BUILD, waited, report, EXIT>>
  BY DEF CompileEnds, comparison
<1>2. /\ Awaits' = Awaits /\ ToBuild' = ToBuild
      /\ ITEMS_TO_VERIFY' = ITEMS_TO_VERIFY
  BY <1>1 DEF Awaits, ToBuild, ITEMS_TO_VERIFY
<1>3. i \notin Awaits  BY <1>1 DEF Waiting, Results
<1>4. \A j \in Items : compile'[j] = IF j = i THEN result ELSE compile[j]
  BY <1>1 DEF TypeOK
<1>5. "running" # None /\ result # None  BY NoneAssumption DEF Results
<1>6. \A j \in Items : compile'[j] # None <=> compile[j] # None
  BY <1>1, <1>4, <1>5
<1>7. Awaits \subseteq Items
  <2>1. \A k \in 1..waited : k \in 1..Len(ITEMS_TO_BUILD)
    BY LenProperties DEF TypeOK
  <2>2. QED  BY <2>1, ElementOfSeq DEF TypeOK, Awaits
<1>8. \A j \in Awaits : compile'[j] = compile[j]  BY <1>3, <1>4, <1>7
<1>9. Waiting'
  BY <1>1, <1>2, <1>3, <1>4, <1>6, <1>8 DEF Waiting, Once
<1>10. QED  BY <1>1, <1>9 DEF Preparing, NoBuilds, Handling, ExitTellsAll

\* The loop is done, and the compilations start.
LEMMA StartBuildsKeeps ==
  ASSUME IInv, BuildInv, StartBuilds
  PROVE  BuildInv'
<1> USE DEF IInv, BuildInv
<1>1. /\ phase = "items" /\ stack = <<>> /\ handled = ITEMS_TO_VERIFY
      /\ phase' = "builds" /\ waited = 0
      /\ UNCHANGED <<compare, ITEMS_TO_BUILD, waited, report, EXIT>>
      /\ \A i \in Items : report[i] = None
      /\ \A i \in Items : compile'[i] = IF i \in ToBuild THEN "running" ELSE None
  BY DEF StartBuilds, comparison, NoBuilds, ToBuild
<1>2. Awaits' = {}  BY <1>1 DEF Awaits
<1>3. ToBuild' = ToBuild /\ ITEMS_TO_VERIFY' = ITEMS_TO_VERIFY
  BY <1>1 DEF ToBuild, ITEMS_TO_VERIFY
<1>4. /\ Once /\ ToBuild \subseteq ITEMS_TO_VERIFY
      /\ EXIT = 0 <=> ITEMS_TO_VERIFY \ ToBuild = {}
  BY <1>1 DEF Handling
<1>5. EXIT = 0 <=> ToBuild = ITEMS_TO_VERIFY  BY <1>4
<1>6. "running" # None  BY NoneAssumption
<1>7. Waiting'
  BY <1>1, <1>2, <1>3, <1>4, <1>5, <1>6 DEF Waiting, Once
<1>8. QED  BY <1>1, <1>7 DEF Preparing, NoBuilds, Handling, ExitTellsAll

\* All compilations were waited for.
LEMMA EndKeepsBuilds ==
  ASSUME IInv, BuildInv, End
  PROVE  BuildInv'
<1> USE DEF IInv, BuildInv
<1>1. /\ phase = "builds" /\ phase' = "ended" /\ waited = Len(ITEMS_TO_BUILD)
      /\ UNCHANGED <<compare, compile, report, EXIT>>
  BY DEF End, comparison, builds
<1>2. Awaits = ToBuild
  BY <1>1, LenProperties DEF TypeOK, Awaits, ToBuild
<1>3. ITEMS_TO_VERIFY' = ITEMS_TO_VERIFY /\ ITEMS_TO_VERIFY \subseteq Items
  BY <1>1, ItemOfAssumption DEF ITEMS_TO_VERIFY, TypeOK
<1>4. \A i \in Items : report[i] = compile[i]
  BY <1>1, <1>2 DEF Waiting
<1>5. EXIT = 0 <=> \A i \in ITEMS_TO_VERIFY : compile[i] = "ok"
  BY <1>1, <1>2, <1>3, NoneAssumption DEF Waiting
<1>6. ExitTellsAll'  BY <1>1, <1>3, <1>4, <1>5 DEF ExitTellsAll
<1>7. QED  BY <1>1, <1>6 DEF Preparing, NoBuilds, Handling, Waiting

LEMMA CompareKeepsBuilds ==
  ASSUME IInv, BuildInv, Compare
  PROVE  BuildInv'
<1>1. /\ phase' = IF compare' = {} THEN "ended" ELSE "compared"
      /\ EXIT' = 0 /\ ITEMS_TO_BUILD' = <<>> /\ handled' = {} /\ waited' = 0
      /\ \A i \in Items : compile'[i] = None /\ report'[i] = None
  BY DEF Compare
<1>2. compare' = {} => ITEMS_TO_VERIFY' = {}  BY DEF ITEMS_TO_VERIFY
<1>3. ExitTellsAll'  BY <1>1, <1>2 DEF ExitTellsAll
<1>4. QED
  BY <1>1, <1>3 DEF BuildInv, Preparing, NoBuilds, Handling, Waiting

\* The rest of the steps, of the job before the loop and of the developers.
LEMMA OthersKeepBuilds ==
  ASSUME IInv, BuildInv,
         \/ \E c \in ChangeSets : Deliver(c)
         \/ AcceptAll \/ AcceptAllFails \/ ListWorkspaces \/ Abort \/ UNCHANGED vars
  PROVE  BuildInv'
<1> USE DEF IInv, BuildInv
<1>1. UNCHANGED <<compare, handled, ITEMS_TO_BUILD, stack, compile, waited, report>>
  BY DEF Deliver, AcceptAll, AcceptAllFails, ListWorkspaces, Abort, comparison, recursion, builds, vars
<1>2. /\ ITEMS_TO_VERIFY' = ITEMS_TO_VERIFY /\ ToBuild' = ToBuild /\ Root' = Root
      /\ Awaits' = Awaits /\ Once' = Once
  BY <1>1 DEF ITEMS_TO_VERIFY, ToBuild, Root, Awaits, Once
<1>3. \/ UNCHANGED <<phase, EXIT>>
      \/ phase = "compared" /\ phase' = "accepted" /\ UNCHANGED EXIT
      \/ phase = "accepted" /\ phase' = "items" /\ UNCHANGED EXIT
      \/ phase' = "aborted"
  BY DEF Deliver, AcceptAll, AcceptAllFails, ListWorkspaces, Abort, vars
<1>4. CASE UNCHANGED <<phase, EXIT>>
  BY <1>1, <1>2, <1>4
  DEF Preparing, NoBuilds, Handling, Waiting, ExitTellsAll
<1>5. CASE phase = "compared" /\ phase' = "accepted" /\ UNCHANGED EXIT
  BY <1>1, <1>2, <1>5
  DEF Preparing, NoBuilds, Handling, Waiting, ExitTellsAll
<1>6. CASE phase = "accepted" /\ phase' = "items" /\ UNCHANGED EXIT
  <2>1. /\ stack = <<>> /\ handled = {} /\ ITEMS_TO_BUILD = <<>> /\ EXIT = 0
    BY <1>6 DEF Tracked, Preparing
  <2>2. ToBuild = {} /\ Once
    BY <2>1 DEF ToBuild, Once
  <2>3. Handling'  BY <1>1, <1>2, <1>6, <2>1, <2>2 DEF Handling
  <2>4. QED
    BY <1>1, <1>2, <1>6, <2>3 DEF Preparing, NoBuilds, Waiting, ExitTellsAll
<1>7. CASE phase' = "aborted"
  BY <1>7 DEF Preparing, NoBuilds, Handling, Waiting, ExitTellsAll
<1>8. QED  BY <1>3, <1>4, <1>5, <1>6, <1>7

\* The steps of the recursion, whose lemmas need some item.
LEMMA RecursionSteps ==
  ASSUME IInv, Next
  PROVE  \/ \E c \in ChangeSets : Deliver(c)
         \/ Compare \/ AcceptAll \/ AcceptAllFails \/ ListWorkspaces \/ Abort
         \/ StartBuilds \/ Wait \/ End
         \/ \E i \in Items, result \in Results : CompileEnds(i, result)
         \/ \E i \in Items : CreateWorkspace(i) \/ ReplaceComponents(i) \/ LoadFails(i) \/ AbortLoading(i)
         \/ \E i \in Items :
              \/ NothingToAccept \/ AcceptFails \/ AcceptAgain \/ AcceptCompletes \/ AcceptMissing
              \/ LoopEnds \/ AcceptDependant(i)
<1>1. ASSUME NothingToAccept \/ AcceptFails \/ AcceptAgain \/ AcceptCompletes \/ AcceptMissing
             \/ LoopEnds
      PROVE  \E i \in Items : TRUE
  <2>1. stack # <<>>
    BY <1>1 DEF NothingToAccept, AcceptFails, AcceptAgain, AcceptCompletes, AcceptMissing,
                LoopEnds, Looping, Accepting, AcceptNew
  <2>2. QED  BY <2>1, SameRoot DEF IInv, TypeOK
<1>2. QED  BY <1>1 DEF Next, Job, Compiler

\* The job succeeds exactly when every item of the comparison was accepted and
\* has compiled: for any order in which the compilations end.
THEOREM ExitStatusTellsAll == Spec => []ExitTellsAll
<1>1. Init => BuildInv
  BY DEF Init, BuildInv, Preparing, NoBuilds, Handling, Waiting, ExitTellsAll
<1>2. ASSUME IInv, BuildInv, [Next]_vars PROVE BuildInv'
  BY <1>2, RecursionSteps, RecursionKeepsBuilds, StartItemKeepsBuilds, WaitKeepsBuilds,
     CompileEndsKeepsBuilds, StartBuildsKeeps, EndKeepsBuilds, CompareKeepsBuilds,
     OthersKeepBuilds
<1>3. BuildInv => ExitTellsAll  BY DEF BuildInv
<1>4. QED  BY <1>1, <1>2, <1>3, AlwaysIInv, PTL DEF Spec

-----------------------------------------------------------------------------
(* Complete work items *)

\* The items a change set of which something needs.
NeededItems == {ItemOf[d] : d \in UNION {Needs[c] : c \in ChangeSets}}

\* What the texts must not do: a change set that is found for another item because
\* its line mentions that item, not by its number, is one that nothing needs, and
\* the number of an item that something depends on does not begin another's.
NumbersApart ==
  /\ \A i \in Items, c \in ChangeSets :
       <<i, c>> \in Mentions /\ <<i, ItemOf[c]>> \notin Begins
       => \A e \in ChangeSets : c \notin Needs[e]
  /\ \A i \in NeededItems, j \in Items : <<i, j>> \in Begins => i = j

\* What the lists say of the workspace, tree, of the item root: the accepted
\* change sets, css, are in it and have with them all they need of the
\* comparison, they are change sets of the root, of the items it depends on or of
\* an item accepted whole, as are the accepted items, wis.
Accounted(root, deps, wis, css, tree) ==
  /\ css \subseteq tree
  /\ \A c \in css : Needs[c] \intersect compare \subseteq css
  /\ \A c \in css \intersect compare :
       \/ ItemOf[c] \in {root} \union deps
       \/ ChangesOf(ItemOf[c]) \subseteq css
       \/ \A e \in ChangeSets : c \notin Needs[e]
  /\ \A j \in wis : ChangesOf(j) \subseteq css
  /\ deps \subseteq NeededItems

\* A call that has j still before it.
Before(call, j) == (call.at = "accept" /\ call.item = j) \/ j \in call.todo

\* The root and what it depends on have been accepted whole, or a call has them
\* before it.
Settled(calls, root, deps, css) ==
  /\ \A j \in {root} \union deps :
       ChangesOf(j) \subseteq css \/ \E k \in 1..Len(calls) : Before(calls[k], j)
  /\ \A k \in 1..Len(calls) :
       /\ calls[k].item \in {root} \union deps /\ calls[k].todo \subseteq deps
       /\ calls[k].at = "accept" => calls[k].todo = {}

Accepts ==
  stack # <<>> /\ Root \notin unseen =>
    /\ Accounted(Root, DEPENDS_ON_WI_LIST, ACCEPTED_WIS, ACCEPTED_CSS, ws[Root])
    /\ Settled(stack, Root, DEPENDS_ON_WI_LIST, ACCEPTED_CSS)

\* An item to be built was handled before the one under way.
Past == ToBuild \subseteq handled /\ (stack # <<>> => Root \notin ToBuild)

CompleteInv == Past /\ Accepts /\ CompleteWorkItems

\* The item is in tree with everything it depends on, whole items.
WholeIn(i, tree) ==
  \E D \in SUBSET Items :
    /\ i \in D
    /\ \A j \in D : ChangesOf(j) \subseteq tree /\ ItemsNeededBy(j) \subseteq D

\* With all calls returned, the root and what it depends on are complete.
LEMMA AllSettled ==
  ASSUME NEW root \in Items, NEW deps \in SUBSET Items, NEW wis, NEW css \in SUBSET ChangeSets,
         NEW tree, Accounted(root, deps, wis, css, tree), Settled(<<>>, root, deps, css)
  PROVE  WholeIn(root, tree)
<1> DEFINE D == {j \in Items : ChangesOf(j) \subseteq css}
<1>1. {root} \union deps \subseteq D
  BY DEF Settled
<1>2. ASSUME NEW j \in D PROVE ItemsNeededBy(j) \subseteq D
  <2> SUFFICES ASSUME NEW c \in ChangesOf(j), NEW d \in compare \intersect Needs[c]
               PROVE  ItemOf[d] \in D
    BY DEF ItemsNeededBy
  <2>1. c \in css /\ c \in ChangeSets  OBVIOUS
  <2>2. d \in css \intersect compare  BY <2>1 DEF Accounted
  <2>3. \/ ItemOf[d] \in {root} \union deps
        \/ ChangesOf(ItemOf[d]) \subseteq css
    BY <2>1, <2>2 DEF Accounted
  <2>4. ItemOf[d] \in Items  BY <2>2, ItemOfAssumption
  <2>5. QED  BY <1>1, <2>3, <2>4
<1>3. \A j \in D : ChangesOf(j) \subseteq tree  BY DEF Accounted
<1>4. D \in SUBSET Items /\ root \in D  BY <1>1
<1>5. QED
  <2> HIDE DEF D
  <2> QED  BY <1>2, <1>3, <1>4 DEF WholeIn

\* A call returns when what it had before it is accepted.
LEMMA SettledByReturn ==
  ASSUME stack \in Seq(Frames), stack # <<>>, NEW root, NEW deps, NEW css, NEW more,
         Settled(stack, root, deps, css), css \subseteq more,
         \A j : Before(Top, j) => ChangesOf(j) \subseteq more
  PROVE  Settled(Pop, root, deps, more)
<1>1. /\ Len(stack) \in Nat \ {0} /\ Len(Pop) = Len(stack) - 1
      /\ \A k \in 1..Len(Pop) : Pop[k] = stack[k] /\ k \in 1..Len(stack)
  BY PopOfStack
<1>2. ASSUME NEW j \in {root} \union deps, ~(ChangesOf(j) \subseteq more)
      PROVE  \E k \in 1..Len(Pop) : Before(Pop[k], j)
  <2>1. PICK k \in 1..Len(stack) : Before(stack[k], j)  BY <1>2 DEF Settled
  <2>2. k # Len(stack)  BY <1>2, <2>1 DEF Top
  <2>3. k \in 1..Len(Pop)  BY <1>1, <2>1, <2>2
  <2>4. QED  BY <1>1, <2>1, <2>3
<1>3. QED  BY <1>1, <1>2 DEF Settled

\* The call on top goes on with a new frame f, which has before it what the old
\* one had, or that is accepted by now.
LEMMA SettledByFrame ==
  ASSUME stack \in Seq(Frames), stack # <<>>, NEW root, NEW deps, NEW longer, NEW css,
         NEW more, Settled(stack, root, deps, css), css \subseteq more, deps \subseteq longer,
         NEW f \in Frames, f.item = Top.item, f.at = "loop", f.todo \subseteq longer,
         \A j : Before(Top, j) \/ j \in longer \ deps
                => ChangesOf(j) \subseteq more \/ j \in f.todo
  PROVE  Settled(Append(Pop, f), root, longer, more)
<1> DEFINE new == Append(Pop, f)
<1>1. /\ Len(stack) \in Nat \ {0} /\ Len(Pop) = Len(stack) - 1 /\ Pop \in Seq(Frames)
      /\ \A k \in 1..Len(Pop) : Pop[k] = stack[k] /\ k \in 1..Len(stack)
  BY PopOfStack
<1>2. /\ Len(new) = Len(stack) /\ new[Len(stack)] = f
      /\ \A k \in 1..Len(stack) : k # Len(stack) => new[k] = stack[k]
      /\ Len(stack) \in 1..Len(stack)
  <2>1. /\ Len(new) = Len(Pop) + 1 /\ new[Len(Pop) + 1] = f
        /\ \A k \in 1..Len(Pop) : new[k] = Pop[k]
    BY <1>1, PutOnTop
  <2> HIDE DEF new
  <2>2. \A k \in 1..Len(stack) : k # Len(stack) => k \in 1..Len(Pop)  BY <1>1
  <2>3. QED  BY <1>1, <2>1, <2>2
<1> HIDE DEF new
<1>3. ASSUME NEW j \in {root} \union longer, ~(ChangesOf(j) \subseteq more)
      PROVE  \E k \in 1..Len(new) : Before(new[k], j)
  <2>1. CASE j \in longer \ deps
    <3>1. Before(f, j)  BY <1>3, <2>1 DEF Before
    <3>2. QED  BY <1>2, <3>1
  <2>2. CASE j \in {root} \union deps
    <3>1. PICK k \in 1..Len(stack) : Before(stack[k], j)
      BY <1>3, <2>2 DEF Settled
    <3>2. CASE k = Len(stack)
      <4>1. Before(f, j)  BY <1>3, <3>1, <3>2 DEF Before, Top
      <4>2. QED  BY <1>2, <4>1
    <3>3. CASE k # Len(stack)  BY <1>2, <3>1, <3>3
    <3>4. QED  BY <3>2, <3>3
  <2>3. QED  BY <1>3, <2>1, <2>2
<1>4. ASSUME NEW k \in 1..Len(new)
      PROVE  /\ new[k].item \in {root} \union longer /\ new[k].todo \subseteq longer
             /\ new[k].at = "accept" => new[k].todo = {}
  <2>1. Top.item \in {root} \union deps  BY <1>2 DEF Settled, Top
  <2>2. QED  BY <1>2, <1>4, <2>1 DEF Settled
<1>5. Settled(new, root, longer, more)  BY <1>3, <1>4 DEF Settled
<1>6. QED  BY <1>5 DEF new

\* A call takes over an item from the one below it.
LEMMA SettledByCall ==
  ASSUME stack \in Seq(Frames), stack # <<>>, NEW root, NEW deps, NEW css,
         Settled(stack, root, deps, css), NEW i \in Items, i \in Top.todo, Top.at = "loop"
  PROVE  Settled(Append(Append(Pop, [Top EXCEPT !.todo = @ \ {i}]), Frame(i)),
                 root, deps, css)
<1> DEFINE f == [Top EXCEPT !.todo = @ \ {i}]
           st == Append(Pop, f)
           new == Append(st, Frame(i))
<1>1. /\ Len(stack) \in Nat \ {0} /\ Len(Pop) = Len(stack) - 1 /\ Pop \in Seq(Frames)
      /\ \A k \in 1..Len(Pop) : Pop[k] = stack[k] /\ k \in 1..Len(stack)
      /\ Top \in Frames
  BY PopOfStack
<1>2. /\ f \in Frames /\ f.item = Top.item /\ f.at = "loop" /\ f.todo = Top.todo \ {i}
      /\ Frame(i) \in Frames /\ Frame(i).item = i /\ Frame(i).at = "accept"
      /\ Frame(i).todo = {}
  BY <1>1 DEF Frames, Frame
<1>3. /\ st \in Seq(Frames) /\ Len(st) = Len(stack) /\ st[Len(stack)] = f
      /\ \A k \in 1..Len(Pop) : st[k] = Pop[k]
  <2> HIDE DEF f
  <2>1. /\ st \in Seq(Frames) /\ Len(st) = Len(Pop) + 1 /\ st[Len(Pop) + 1] = f
        /\ \A k \in 1..Len(Pop) : st[k] = Pop[k]
    BY <1>1, <1>2, PutOnTop
  <2> HIDE DEF st
  <2>2. Len(Pop) + 1 = Len(stack)  BY <1>1
  <2>3. QED  BY <2>1, <2>2
<1> HIDE DEF f, st
<1>4. /\ Len(new) = Len(stack) + 1 /\ new[Len(stack) + 1] = Frame(i)
      /\ \A k \in 1..Len(stack) : new[k] = st[k]
  BY <1>2, <1>3, PutOnTop
<1> HIDE DEF new
<1>5. /\ new[Len(stack)] = f
      /\ \A k \in 1..Len(stack) : k # Len(stack) => new[k] = stack[k]
      /\ Len(stack) \in 1..Len(stack)
      /\ Len(stack) \in 1..Len(new) /\ Len(stack) + 1 \in 1..Len(new)
      /\ \A k \in 1..Len(stack) : k \in 1..Len(new)
  <2>1. \A k \in 1..Len(stack) : k # Len(stack) => k \in 1..Len(Pop)  BY <1>1
  <2>2. QED  BY <1>1, <1>3, <1>4, <2>1
<1>6. ASSUME NEW j \in {root} \union deps, ~(ChangesOf(j) \subseteq css)
      PROVE  \E k \in 1..Len(new) : Before(new[k], j)
  <2>1. PICK k \in 1..Len(stack) : Before(stack[k], j)
    BY <1>6 DEF Settled
  <2>2. CASE k # Len(stack)  BY <1>5, <2>1, <2>2
  <2>3. CASE k = Len(stack) /\ j = i
    <3>1. Before(Frame(i), j)  BY <1>2, <2>3 DEF Before
    <3>2. QED  BY <1>4, <1>5, <3>1
  <2>4. CASE k = Len(stack) /\ j # i
    <3>1. j \in Top.todo  BY <2>1, <2>4 DEF Before, Top
    <3>2. Before(f, j)  BY <1>2, <2>4, <3>1 DEF Before
    <3>3. QED  BY <1>5, <3>2
  <2>5. QED  BY <2>2, <2>3, <2>4
<1>7. ASSUME NEW k \in 1..Len(new)
      PROVE  /\ new[k].item \in {root} \union deps /\ new[k].todo \subseteq deps
             /\ new[k].at = "accept" => new[k].todo = {}
  <2>1. Top.item \in {root} \union deps /\ Top.todo \subseteq deps
    BY <1>5 DEF Settled, Top
  <2>2. CASE k = Len(stack) + 1  BY <1>2, <1>4, <2>1, <2>2
  <2>3. CASE k = Len(stack)  BY <1>2, <1>5, <2>1, <2>3
  <2>4. CASE k \in 1..Len(stack) /\ k # Len(stack)
    BY <1>5, <2>4 DEF Settled
  <2>5. k = Len(stack) + 1 \/ k \in 1..Len(stack)  BY <1>1, <1>4, <1>7
  <2>6. QED  BY <2>2, <2>3, <2>4, <2>5
<1>8. Settled(new, root, deps, css)  BY <1>6, <1>7 DEF Settled
<1>9. QED  BY <1>8 DEF new, st, f

\* The change sets of the accept command of the call on top, and those missing.
Asked == CHANGESETS(Top.item)
Lacking == MissingFor(Asked, ws[Root])

\* The change sets of an accept command with those missing: the account stays
\* right.
LEMMA AccountedAccept ==
  ASSUME IInv, NumbersApart, stack # <<>>,
         ws[Root] \intersect compare \subseteq ACCEPTED_CSS,
         NEW deps \in SUBSET Items, NEW longer, deps \subseteq longer,
         longer \subseteq NeededItems,
         Accounted(Root, deps, ACCEPTED_WIS, ACCEPTED_CSS, ws[Root]),
         Top.item \in {Root} \union deps,
         Lacking \subseteq compare, \A d \in Lacking : ItemOf[d] \in longer,
         NEW wis, wis \subseteq ACCEPTED_WIS \union {Top.item}
  PROVE  /\ Accounted(Root, longer, wis, ACCEPTED_CSS \union Asked \union Lacking,
                      ws[Root] \union Asked \union Lacking)
         /\ ChangesOf(Top.item) \subseteq ACCEPTED_CSS \union Asked \union Lacking
<1> DEFINE css == ACCEPTED_CSS \union Asked \union Lacking
<1>1. /\ Top \in Frames /\ Top.item \in Items /\ Root \in Items
      /\ ACCEPTED_CSS \subseteq ChangeSets /\ compare \subseteq ChangeSets
  BY PopOfStack, SameRoot DEF IInv, TypeOK, Frames
<1>2. Asked \subseteq compare  BY DEF Asked, CHANGESETS, LinesOf
<1>3. ChangesOf(Top.item) \subseteq css
  BY <1>1, NamesAssumption DEF Asked, ChangesOf, CHANGESETS, LinesOf
<1>4. ASSUME NEW c \in css PROVE Needs[c] \intersect compare \subseteq css
  <2>1. CASE c \in ACCEPTED_CSS  BY <2>1 DEF Accounted
  <2>2. CASE c \in Asked
    <3>1. Needs[c] \subseteq Asked \union Lacking \union ws[Root]  BY <2>2 DEF Lacking, MissingFor
    <3>2. QED  BY <1>1, <3>1
  <2>3. CASE c \in Lacking
    <3>1. PICK e \in Asked : c \in Needs[e]  BY <2>3 DEF Lacking, MissingFor
    <3>2. Needs[c] \subseteq Needs[e]
      BY <1>1, <1>2, <3>1, NeedsAssumption
    <3>3. Needs[e] \subseteq Asked \union Lacking \union ws[Root]  BY <3>1 DEF Lacking, MissingFor
    <3>4. QED  BY <1>1, <3>2, <3>3
  <2>4. QED  BY <2>1, <2>2, <2>3
<1>5. ASSUME NEW c \in css \intersect compare
      PROVE  \/ ItemOf[c] \in {Root} \union longer
             \/ ChangesOf(ItemOf[c]) \subseteq css
             \/ \A e \in ChangeSets : c \notin Needs[e]
  <2>1. CASE c \in ACCEPTED_CSS
    <3>1. ACCEPTED_CSS \subseteq css  OBVIOUS
    <3>2. QED  BY <2>1, <3>1 DEF Accounted
  <2>2. CASE c \in Asked
    <3>1. <<Top.item, ItemOf[c]>> \in Begins \/ <<Top.item, c>> \in Mentions
      BY <2>2 DEF Asked, CHANGESETS, LinesOf
    <3>2. c \in ChangeSets  BY <1>1
    <3>3. CASE <<Top.item, ItemOf[c]>> \in Begins
      BY <3>3 DEF Asked, ChangesOf, CHANGESETS, LinesOf
    <3>4. CASE <<Top.item, ItemOf[c]>> \notin Begins
      BY <1>1, <3>1, <3>2, <3>4 DEF NumbersApart
    <3>5. QED  BY <3>3, <3>4
  <2>3. CASE c \in Lacking  BY <2>3
  <2>4. QED  BY <2>1, <2>2, <2>3
<1>6. \A j \in wis : ChangesOf(j) \subseteq css  BY <1>3 DEF Accounted
<1>7. css \subseteq ws[Root] \union Asked \union Lacking  BY DEF Accounted
<1>8. QED  BY <1>3, <1>4, <1>5, <1>6, <1>7 DEF Accounted

\* A set of change sets that is accepted has nothing that the workspace has; so the
\* workspace has nothing else of the comparison than what is recorded.
LEMMA NothingUnrecorded ==
  ASSUME IInv, AcceptNew(Asked), Root \notin unseen
  PROVE  ws[Root] \intersect compare \subseteq ACCEPTED_CSS
<1>1. stack # <<>> /\ Asked \intersect ws[Root] = {}
  BY DEF AcceptNew, Accepting
<1>2. CASE stack = <<Frame(Root)>>
  <2>1. ~Own(Root)
    BY <1>1, <1>2, FirstIsWhole DEF Own, Asked, ChangesOf
  <2>2. QED  BY <1>1, <1>2, <2>1 DEF IInv, Tracked
<1>3. CASE stack # <<Frame(Root)>>
  BY <1>1, <1>3 DEF IInv, Tracked
<1>4. QED  BY <1>2, <1>3

\* What the recursion does to the lists and the calls.
LEMMA RecursionAccepts ==
  ASSUME IInv, CompleteInv, NumbersApart, NEW i \in Items,
         \/ NothingToAccept \/ AcceptFails \/ AcceptAgain \/ AcceptCompletes \/ AcceptMissing
         \/ LoopEnds \/ AcceptDependant(i),
         Root \notin unseen'
  PROVE  \/ stack' = <<>> /\ UNCHANGED ITEMS_TO_BUILD
         \/ /\ Accounted(Root, DEPENDS_ON_WI_LIST', ACCEPTED_WIS', ACCEPTED_CSS',
                         ws'[Root])
            /\ Settled(stack', Root, DEPENDS_ON_WI_LIST', ACCEPTED_CSS')
<1> USE DEF IInv
<1>1. /\ AcceptStep /\ stack # <<>> /\ stack \in Seq(Frames) /\ UNCHANGED compare
      /\ Root \in Items /\ Top \in Frames /\ Top.item \in Items
      /\ DEPENDS_ON_WI_LIST \in SUBSET Items /\ ws \in [Items -> SUBSET ChangeSets]
  BY RecursionIsAcceptStep, SameRoot, PopOfStack DEF AcceptStep, TypeOK, Frames
<1>2. Root \notin unseen
  BY DEF NothingToAccept, AcceptFails, AcceptAgain, AcceptCompletes, AcceptMissing, LoopEnds,
         AcceptDependant, Looping, unnoticed
<1>3. /\ Accounted(Root, DEPENDS_ON_WI_LIST, ACCEPTED_WIS, ACCEPTED_CSS, ws[Root])
      /\ Settled(stack, Root, DEPENDS_ON_WI_LIST, ACCEPTED_CSS)
  BY <1>1, <1>2 DEF CompleteInv, Accepts
<1>4. /\ Top.item \in {Root} \union DEPENDS_ON_WI_LIST
      /\ Top.todo \subseteq DEPENDS_ON_WI_LIST
      /\ Top.at = "accept" => Top.todo = {}
  <2>1. Len(stack) \in 1..Len(stack)  BY <1>1, PopOfStack
  <2>2. QED  BY <1>3, <2>1 DEF Settled, Top
<1>5. CASE NothingToAccept
  <2>1. /\ Top.at = "accept" /\ Asked = {} /\ stack' = Pop
        /\ UNCHANGED <<ws, DEPENDS_ON_WI_LIST, ACCEPTED_WIS, ACCEPTED_CSS>>
    BY <1>5 DEF Asked, NothingToAccept, Accepting, ReturnToStack
  <2>2. ChangesOf(Top.item) \subseteq ACCEPTED_CSS
    BY <1>1, <2>1, NamesAssumption DEF Asked, ChangesOf, CHANGESETS, LinesOf
  <2>3. \A j : Before(Top, j) => ChangesOf(j) \subseteq ACCEPTED_CSS
    BY <1>4, <2>1, <2>2 DEF Before
  <2>4. Settled(Pop, Root, DEPENDS_ON_WI_LIST, ACCEPTED_CSS)
    BY <1>1, <1>3, <2>3, SettledByReturn
  <2>5. QED  BY <1>3, <2>1, <2>4
<1>6. CASE AcceptFails \/ AcceptAgain
  BY <1>6 DEF AcceptFails, AcceptAgain, ReturnError
<1>7. CASE AcceptCompletes
  <2>1. /\ AcceptNew(Asked) /\ Top.at = "accept" /\ Lacking = {} /\ stack' = Pop
        /\ ws' = [ws EXCEPT ![Root] = @ \union Asked]
        /\ ACCEPTED_WIS' = Appended(ACCEPTED_WIS, {Top.item})
        /\ ACCEPTED_CSS' = ACCEPTED_CSS \union Asked /\ UNCHANGED DEPENDS_ON_WI_LIST
    BY <1>7 DEF Asked, Lacking, AcceptCompletes, AcceptNew, Accepting, ReturnToStack
  <2>2. ws'[Root] = ws[Root] \union Asked \union Lacking
        /\ ACCEPTED_CSS' = ACCEPTED_CSS \union Asked \union Lacking
    BY <1>1, <2>1
  <2>3. ACCEPTED_WIS' \subseteq ACCEPTED_WIS \union {Top.item}
    BY <2>1 DEF Appended
  <2>4. Lacking \subseteq compare /\ \A d \in Lacking : ItemOf[d] \in DEPENDS_ON_WI_LIST
    BY <2>1
  <2>5. DEPENDS_ON_WI_LIST \subseteq NeededItems  BY <1>3 DEF Accounted
  <2>6. /\ Accounted(Root, DEPENDS_ON_WI_LIST, ACCEPTED_WIS', ACCEPTED_CSS', ws'[Root])
        /\ ChangesOf(Top.item) \subseteq ACCEPTED_CSS'
    <3> HIDE DEF IInv
    <3>1. ws[Root] \intersect compare \subseteq ACCEPTED_CSS
      BY <1>2, <2>1, NothingUnrecorded
    <3>2. /\ DEPENDS_ON_WI_LIST \in SUBSET Items
          /\ DEPENDS_ON_WI_LIST \subseteq DEPENDS_ON_WI_LIST
      BY <1>1
    <3>3. /\ Accounted(Root, DEPENDS_ON_WI_LIST, ACCEPTED_WIS',
                       ACCEPTED_CSS \union Asked \union Lacking,
                       ws[Root] \union Asked \union Lacking)
          /\ ChangesOf(Top.item) \subseteq ACCEPTED_CSS \union Asked \union Lacking
      BY <1>1, <1>3, <1>4, <2>3, <2>4, <2>5, <3>1, <3>2, AccountedAccept
    <3>4. QED  BY <2>1, <2>2, <3>3
  <2>7. \A j : Before(Top, j) => ChangesOf(j) \subseteq ACCEPTED_CSS'
    BY <1>4, <2>1, <2>6 DEF Before
  <2>8. ACCEPTED_CSS \subseteq ACCEPTED_CSS'  BY <2>1
  <2>9. Settled(Pop, Root, DEPENDS_ON_WI_LIST, ACCEPTED_CSS')
    BY <1>1, <1>3, <2>7, <2>8, SettledByReturn
  <2>10. QED  BY <2>1, <2>6, <2>9
<1>8. CASE AcceptMissing /\ stack' # <<>>
  <2> DEFINE f == [Top EXCEPT !.at = "loop", !.todo = DEPENDS_ON_WI_LIST']
  <2>1. PICK listed \in {Lacking, {}}, accepted \in {Asked \union Lacking, {}} :
          /\ (listed = Lacking /\ accepted # {}) \/ unseen' = unseen \union {Root}
          /\ ws' = [ws EXCEPT ![Root] = @ \union accepted]
          /\ ACCEPTED_CSS' = ACCEPTED_CSS \union accepted
          /\ listed \subseteq compare
          /\ DEPENDS_ON_WI_LIST' = Appended(DEPENDS_ON_WI_LIST, {ItemOf[c] : c \in listed})
          /\ ACCEPTED_WIS' = Appended(ACCEPTED_WIS, {Top.item})
          /\ stack' = Append(Pop, f)
    BY <1>8 DEF Asked, Lacking, AcceptMissing, ReturnError
  <2>2. /\ AcceptNew(Asked) /\ Top.at = "accept" /\ Lacking \subseteq compare
        /\ ws' = [ws EXCEPT ![Root] = @ \union (Asked \union Lacking)]
        /\ ACCEPTED_CSS' = ACCEPTED_CSS \union Asked \union Lacking
        /\ DEPENDS_ON_WI_LIST' = Appended(DEPENDS_ON_WI_LIST, {ItemOf[c] : c \in Lacking})
    <3>1. unseen' # unseen \union {Root}  OBVIOUS
    <3>2. accepted = Asked \union Lacking /\ listed = Lacking  BY <2>1, <3>1
    <3>3. AcceptNew(Asked) /\ Top.at = "accept"
      BY <1>8 DEF Asked, AcceptMissing, AcceptNew, Accepting
    <3>4. QED  BY <2>1, <3>2, <3>3
  <2>3. ws'[Root] = ws[Root] \union Asked \union Lacking
    BY <1>1, <2>2
  <2>4. Lacking \subseteq ChangeSets /\ Asked \subseteq ChangeSets
        /\ \A d \in Lacking : ItemOf[d] \in NeededItems
    <3>1. compare \subseteq ChangeSets  BY DEF TypeOK
    <3>2. Asked \subseteq ChangeSets  BY <3>1 DEF Asked, CHANGESETS, LinesOf
    <3>3. QED  BY <2>2, <3>1, <3>2 DEF Lacking, MissingFor, NeededItems
  <2>5. \A d \in Lacking : ItemOf[d] \in Items
    BY <2>4, ItemOfAssumption
  <2>6. \A d \in Lacking : ItemOf[d] \in DEPENDS_ON_WI_LIST'
    <3> SUFFICES ASSUME NEW d \in Lacking, ItemOf[d] \notin DEPENDS_ON_WI_LIST
                 PROVE  ItemOf[d] \in DEPENDS_ON_WI_LIST'
      BY <2>2 DEF Appended
    <3>1. ~InList(ItemOf[d], DEPENDS_ON_WI_LIST)
      BY <1>1, <2>4 DEF InList, NumbersApart
    <3>2. QED  BY <2>2, <3>1 DEF Appended
  <2>7. /\ DEPENDS_ON_WI_LIST \subseteq DEPENDS_ON_WI_LIST'
        /\ DEPENDS_ON_WI_LIST' \subseteq NeededItems
        /\ DEPENDS_ON_WI_LIST' \subseteq Items
    BY <1>1, <1>3, <2>2, <2>4, <2>5 DEF Appended, Accounted
  <2>8. ACCEPTED_WIS' \subseteq ACCEPTED_WIS \union {Top.item}
    BY <2>1 DEF Appended
  <2>9. /\ Accounted(Root, DEPENDS_ON_WI_LIST', ACCEPTED_WIS', ACCEPTED_CSS', ws'[Root])
        /\ ChangesOf(Top.item) \subseteq ACCEPTED_CSS'
    <3> HIDE DEF IInv
    <3>1. /\ DEPENDS_ON_WI_LIST' \in SUBSET Items
          /\ ACCEPTED_WIS' \subseteq ACCEPTED_WIS \union {Top.item}
      BY <2>7, <2>8
    <3>2. /\ Accounted(Root, DEPENDS_ON_WI_LIST', ACCEPTED_WIS',
                       ACCEPTED_CSS \union Asked \union Lacking,
                       ws[Root] \union Asked \union Lacking)
          /\ ChangesOf(Top.item) \subseteq ACCEPTED_CSS \union Asked \union Lacking
      BY <1>1, <1>2, <1>3, <1>4, <2>2, <2>6, <2>7, <3>1, NothingUnrecorded, AccountedAccept
    <3>3. QED  BY <2>2, <2>3, <3>2
  <2>10. /\ f \in Frames /\ f.item = Top.item /\ f.at = "loop"
         /\ f.todo = DEPENDS_ON_WI_LIST'
    BY <1>1, <2>7 DEF Frames
  <2>11. \A j : Before(Top, j) \/ j \in DEPENDS_ON_WI_LIST' \ DEPENDS_ON_WI_LIST
                => ChangesOf(j) \subseteq ACCEPTED_CSS' \/ j \in f.todo
    BY <1>4, <2>2, <2>9, <2>10 DEF Before
  <2>12. ACCEPTED_CSS \subseteq ACCEPTED_CSS'  BY <2>2
  <2>13. Settled(Append(Pop, f), Root, DEPENDS_ON_WI_LIST', ACCEPTED_CSS')
    <3> HIDE DEF f
    <3> QED  BY <1>1, <1>3, <2>7, <2>10, <2>11, <2>12, SettledByFrame
  <2>14. QED  BY <2>1, <2>9, <2>13
<1>9. CASE LoopEnds
  <2>1. /\ Top.at = "loop" /\ stack' = Pop /\ Dependants = {}
        /\ UNCHANGED <<ws, DEPENDS_ON_WI_LIST, ACCEPTED_WIS, ACCEPTED_CSS>>
    BY <1>9 DEF LoopEnds, Looping, ReturnToStack, rtc
  <2>2. ASSUME NEW j \in Top.todo PROVE ChangesOf(j) \subseteq ACCEPTED_CSS
    <3>1. InList(j, ACCEPTED_WIS)  BY <2>1, <2>2 DEF Dependants
    <3>2. j \in NeededItems  BY <1>3, <1>4, <2>2 DEF Accounted
    <3>3. j \in ACCEPTED_WIS
      BY <3>1, <3>2 DEF InList, NumbersApart, TypeOK
    <3>4. QED  BY <1>3, <3>3 DEF Accounted
  <2>3. \A j : Before(Top, j) => ChangesOf(j) \subseteq ACCEPTED_CSS
    BY <2>1, <2>2 DEF Before
  <2>4. Settled(Pop, Root, DEPENDS_ON_WI_LIST, ACCEPTED_CSS)
    BY <1>1, <1>3, <2>3, SettledByReturn
  <2>5. QED  BY <1>3, <2>1, <2>4
<1>10. CASE AcceptDependant(i)
  <2>1. /\ Top.at = "loop" /\ i \in Top.todo
        /\ stack' = Append(Append(Pop, [Top EXCEPT !.todo = @ \ {i}]), Frame(i))
        /\ UNCHANGED <<ws, DEPENDS_ON_WI_LIST, ACCEPTED_WIS, ACCEPTED_CSS>>
    BY <1>10 DEF AcceptDependant, Looping, Dependants, rtc
  <2>2. Settled(stack', Root, DEPENDS_ON_WI_LIST, ACCEPTED_CSS)
    BY <1>1, <1>3, <2>1, SettledByCall
  <2>3. QED  BY <1>3, <2>1, <2>2
<1>11. QED  BY <1>5, <1>6, <1>7, <1>8, <1>9, <1>10 DEF AcceptMissing

\* The recursion keeps the account of the items.
LEMMA RecursionKeepsComplete ==
  ASSUME IInv, CompleteInv, NumbersApart, NEW i \in Items,
         \/ NothingToAccept \/ AcceptFails \/ AcceptAgain \/ AcceptCompletes \/ AcceptMissing
         \/ LoopEnds \/ AcceptDependant(i)
  PROVE  CompleteInv'
<1> USE DEF IInv
<1>1. /\ AcceptStep /\ Outcome /\ stack # <<>>
      /\ Root \in Items /\ Root \in handled
      /\ UNCHANGED <<compare, handled>>
      /\ Past /\ Accepts /\ CompleteWorkItems
  BY RecursionIsAcceptStep, RecursionOutcome, SameRoot
  DEF AcceptStep, TypeOK, Tracked, CompleteInv
<1>2. /\ \A j \in Items \ {Root} : ws'[j] = ws[j]
      /\ ACCEPTED_CSS' \subseteq ChangeSets
  <2>1. PICK new : ws' = [ws EXCEPT ![Root] = @ \union new]  BY <1>1 DEF AcceptStep
  <2>2. QED  BY <1>1, <2>1, AcceptStepKeeps DEF TypeOK
<1>3. unseen \subseteq unseen' /\ DEPENDS_ON_WI_LIST' \subseteq Items
  BY <1>1, RecursionKeeps DEF AcceptStep, TypeOK
<1>4. Root \notin unseen' =>
        \/ stack' = <<>> /\ UNCHANGED ITEMS_TO_BUILD
        \/ /\ Accounted(Root, DEPENDS_ON_WI_LIST', ACCEPTED_WIS', ACCEPTED_CSS', ws'[Root])
           /\ Settled(stack', Root, DEPENDS_ON_WI_LIST', ACCEPTED_CSS')
  BY <1>1, RecursionAccepts DEF CompleteInv
<1>5. \A j \in Items \ {Root} : IsComplete(j) => IsComplete(j)'
  BY <1>1, <1>2 DEF IsComplete, ChangesOf, ItemsNeededBy
<1>6. ToBuild \subseteq Items /\ Root \notin ToBuild
  <2>1. \A k \in DOMAIN ITEMS_TO_BUILD : ITEMS_TO_BUILD[k] \in Items
    BY LenProperties, ElementOfSeq DEF TypeOK
  <2>2. QED  BY <1>1, <2>1 DEF ToBuild, Past
<1>7. \A j \in ToBuild \ unseen' : IsComplete(j)'
  BY <1>1, <1>3, <1>5, <1>6 DEF CompleteWorkItems
<1>8. CASE stack' # <<>> /\ Root' = Root /\ UNCHANGED <<ITEMS_TO_BUILD, EXIT>>
  <2>2. ToBuild' = ToBuild  BY <1>8 DEF ToBuild
  <2>3. Accepts'
    BY <1>1, <1>4, <1>8 DEF Accepts, Accounted, Settled, ChangesOf
  <2>4. Past'  BY <1>1, <1>8, <2>2 DEF Past
  <2>5. CompleteWorkItems'  BY <1>7, <2>2 DEF CompleteWorkItems
  <2>6. QED  BY <2>3, <2>4, <2>5 DEF CompleteInv
<1>9. CASE /\ stack' = <<>> /\ ITEMS_TO_BUILD' = Append(ITEMS_TO_BUILD, Root)
           /\ UNCHANGED EXIT
  <2>1. ToBuild' = ToBuild \union {Root}
    BY <1>1, <1>9, OneMoreToBuild DEF TypeOK
  <2>2. PICK root \in Items : root = Root  BY <1>1
  <2>3. ASSUME root \notin unseen' PROVE IsComplete(root)'
    <3>1. /\ Accounted(root, DEPENDS_ON_WI_LIST', ACCEPTED_WIS', ACCEPTED_CSS', ws'[root])
          /\ Settled(<<>>, root, DEPENDS_ON_WI_LIST', ACCEPTED_CSS')
      BY <1>4, <1>6, <1>9, <2>1, <2>2, <2>3 DEF ToBuild
    <3>2. WholeIn(root, ws'[root])
      <4> HIDE DEF IInv
      <4>1. DEPENDS_ON_WI_LIST' \in SUBSET Items /\ ACCEPTED_CSS' \in SUBSET ChangeSets
        BY <1>2, <1>3
      <4>2. QED  BY <3>1, <4>1, AllSettled
    <3>3. QED  BY <1>1, <3>2 DEF WholeIn, IsComplete, ChangesOf, ItemsNeededBy
  <2>4. CompleteWorkItems'  BY <1>7, <2>1, <2>2, <2>3 DEF CompleteWorkItems
  <2>5. Past' /\ Accepts'
    BY <1>1, <1>9, <2>1 DEF Past, Accepts
  <2>6. QED  BY <2>4, <2>5 DEF CompleteInv
<1>10. CASE stack' = <<>> /\ EXIT' = 1 /\ UNCHANGED ITEMS_TO_BUILD
  <2>1. ToBuild' = ToBuild  BY <1>10 DEF ToBuild
  <2>2. CompleteWorkItems'  BY <1>7, <2>1 DEF CompleteWorkItems
  <2>3. QED  BY <1>1, <1>10, <2>1, <2>2 DEF CompleteInv, Past, Accepts
<1>11. QED  BY <1>1, <1>8, <1>9, <1>10 DEF Outcome

\* Every other step of a running job leaves the items to build as they are, and
\* their workspaces.
LEMMA OtherStepsKeepComplete ==
  ASSUME IInv, CompleteInv,
         \/ \E c \in ChangeSets : Deliver(c)
         \/ AcceptAll \/ AcceptAllFails \/ ListWorkspaces \/ Abort \/ StartBuilds \/ Wait \/ End
         \/ \E i \in Items, result \in Results : CompileEnds(i, result)
         \/ UNCHANGED vars
  PROVE  CompleteInv'
<1>1. UNCHANGED <<compare, ws, handled, stack, DEPENDS_ON_WI_LIST, ACCEPTED_WIS,
                  ACCEPTED_CSS, ITEMS_TO_BUILD, unseen>>
  BY DEF Deliver, AcceptAll, AcceptAllFails, ListWorkspaces, Abort, StartBuilds, Wait, End,
         CompileEnds, vars, rtc, comparison, recursion, builds, unnoticed
<1>2. Past' /\ Accepts'
  BY <1>1 DEF CompleteInv, Past, Accepts, ToBuild, Root, Accounted, Settled, ChangesOf
<1>3. CompleteWorkItems'
  BY <1>1 DEF CompleteInv, CompleteWorkItems, ToBuild, IsComplete, ChangesOf, ItemsNeededBy
<1>4. QED  BY <1>2, <1>3 DEF CompleteInv

\* The first call has the item of the workspace before it, and nothing accepted.
LEMMA StartItemKeepsComplete ==
  ASSUME IInv, CompleteInv, NEW i \in Items,
         CreateWorkspace(i) \/ ReplaceComponents(i) \/ LoadFails(i) \/ AbortLoading(i)
  PROVE  CompleteInv'
<1> USE DEF IInv, CompleteInv
<1>1. /\ stack = <<>> /\ i \notin handled /\ handled' = handled \union {i}
      /\ DEPENDS_ON_WI_LIST' = {} /\ ACCEPTED_WIS' = {} /\ ACCEPTED_CSS' = {}
      /\ UNCHANGED <<compare, ITEMS_TO_BUILD>>
      /\ unseen' = unseen \/ unseen' = unseen \ {i}
      /\ stack' = <<Frame(i)>> \/ stack' = stack
      /\ \A j \in Items \ {i} : ws'[j] = ws[j]
  BY DEF CreateWorkspace, ReplaceComponents, LoadFails, AbortLoading, TakeSnapshot, StartItem,
         comparison, builds, TypeOK
<1>2. ToBuild' = ToBuild /\ i \notin ToBuild /\ ToBuild \subseteq handled
  BY <1>1 DEF ToBuild, Past
<1>3. ToBuild \subseteq Items  BY <1>2 DEF TypeOK
<1>4. Past'  BY <1>1, <1>2 DEF Past, Root, Frame
<1>5. Accepts'
  <2>1. CASE stack' = stack  BY <1>1, <2>1 DEF Accepts
  <2>2. CASE stack' = <<Frame(i)>>
    <3>1. /\ Len(stack') = 1 /\ stack'[1] = Frame(i) /\ Root' = i
          /\ Frame(i).item = i /\ Frame(i).at = "accept" /\ Frame(i).todo = {}
      BY <2>2 DEF Root, Frame
    <3>2. Accounted(i, {}, {}, {}, ws'[i])
      BY DEF Accounted
    <3>3. 1 \in 1..Len(stack') /\ \A k \in 1..Len(stack') : k = 1  BY <3>1
    <3>4. Settled(stack', i, {}, {})
      BY <3>1, <3>3 DEF Settled, Before
    <3>5. QED
      BY <1>1, <3>1, <3>2, <3>4 DEF Accepts, Accounted, Settled, ChangesOf
  <2>3. QED  BY <1>1, <2>1, <2>2
<1>6. \A j \in ToBuild : IsComplete(j) => IsComplete(j)'
  BY <1>1, <1>2, <1>3 DEF IsComplete, ChangesOf, ItemsNeededBy
<1>7. CompleteWorkItems'  BY <1>1, <1>2, <1>6 DEF CompleteWorkItems
<1>8. QED  BY <1>4, <1>5, <1>7

\* recursive_accept accepts an item with all items it depends on, complete, however
\* they depend on each other, also when its number selects the change sets of
\* other items, as long as comments select nothing needed and the number of an
\* item that something depends on begins no other.
THEOREM AcceptedAreComplete ==
  ASSUME NumbersApart
  PROVE  Spec => []CompleteWorkItems
<1>1. Init => CompleteInv
  BY DEF Init, CompleteInv, Past, Accepts, CompleteWorkItems, ToBuild
<1>2. ASSUME IInv, CompleteInv, [Next]_vars PROVE CompleteInv'
  <2>1. CASE Compare
    <3>1. ITEMS_TO_BUILD' = <<>> /\ stack' = <<>>  BY <2>1 DEF Compare
    <3>2. ToBuild' = {}  BY <3>1 DEF ToBuild
    <3>3. QED  BY <3>1, <3>2 DEF CompleteInv, Past, Accepts, CompleteWorkItems
  <2>2. QED
    BY <1>2, <2>1, RecursionSteps, RecursionKeepsComplete, OtherStepsKeepComplete,
       StartItemKeepsComplete
<1>3. CompleteInv => CompleteWorkItems  BY DEF CompleteInv
<1>4. QED  BY <1>1, <1>2, <1>3, AlwaysIInv, PTL DEF Spec

-----------------------------------------------------------------------------
(* The comment of line 204 *)

\* What the CI workspace holds more than at its snapshot is listed, or will be
\* when the stream is as it was compared.
ListedInv ==
  /\ phase = "compared" => stream \ snapshot \subseteq compare
  /\ AcceptedAreListed

\* "Accept all Changesets in CI stream before anyone delivers new changeset":
\* what the comment takes for granted is what it takes, and it is enough. As
\* long as nobody delivers between the comparison and the accept, nothing is
\* accepted that is not validated, though they deliver at any other time.
THEOREM ListedWhenQuiet ==
  Init /\ [][Next /\ (phase = "compared" => UNCHANGED stream)]_vars => []AcceptedAreListed
<1> DEFINE Quiet == Next /\ (phase = "compared" => UNCHANGED stream)
<1>1. Init => ListedInv
  BY DEF Init, ListedInv, AcceptedAreListed
<1>2. ASSUME IInv, ListedInv, [Quiet]_vars PROVE ListedInv'
  <2>1. CASE UNCHANGED vars
    BY <1>2, <2>1 DEF vars, rtc, comparison, ListedInv, AcceptedAreListed
  <2>2. CASE Compare
    BY <2>2 DEF Compare, rtc, ListedInv, AcceptedAreListed
  <2>3. CASE AcceptAll \/ AcceptAllFails
    <3>1. /\ phase = "compared" /\ UNCHANGED <<compare, snapshot>>
          /\ phase' = "accepted" /\ ciws' \subseteq stream
      BY <1>2, <2>3 DEF AcceptAll, AcceptAllFails, comparison, rtc, IInv, History
    <3> QED BY <1>2, <3>1 DEF ListedInv, AcceptedAreListed
  <2>4. CASE \E c \in ChangeSets : Deliver(c)
    <3>1. /\ UNCHANGED <<ciws, phase, compare, snapshot>>
          /\ phase # "compared"
      BY <1>2, <2>4 DEF Deliver, comparison, vars, rtc
    <3> QED BY <1>2, <3>1 DEF ListedInv, AcceptedAreListed
  <2>5. CASE ListWorkspaces \/ Abort \/ StartBuilds \/ Wait \/ End
    <3>1. /\ UNCHANGED <<compare, snapshot>>
          /\ phase' \in {"items", "aborted", "builds", "ended"}
          /\ phase' # "aborted" =>
               phase \in {"accepted", "items", "builds"} /\ UNCHANGED ciws
      BY <2>5 DEF ListWorkspaces, Abort, StartBuilds, Wait, End, rtc, comparison
    <3> QED BY <1>2, <3>1 DEF ListedInv, AcceptedAreListed
  <2>6. ASSUME NEW i \in Items, NEW result \in Results, CompileEnds(i, result)
        PROVE  ListedInv'
    BY <1>2, <2>6 DEF CompileEnds, rtc, comparison, ListedInv, AcceptedAreListed
  <2>7. ASSUME NEW i \in Items, CreateWorkspace(i) \/ ReplaceComponents(i) \/ LoadFails(i) \/ AbortLoading(i)
        PROVE  ListedInv'
    <3>1. /\ UNCHANGED <<ciws, compare, snapshot>>
          /\ phase = "items" /\ phase' \in {"items", "aborted"}
      BY <2>7 DEF CreateWorkspace, ReplaceComponents, LoadFails, AbortLoading, StartItem, comparison
    <3> QED BY <1>2, <3>1 DEF ListedInv, AcceptedAreListed
  <2>8. ASSUME NEW i \in Items,
               \/ NothingToAccept \/ AcceptFails \/ AcceptAgain \/ AcceptCompletes \/ AcceptMissing
               \/ LoopEnds \/ AcceptDependant(i)
        PROVE  ListedInv'
    <3>1. UNCHANGED <<ciws, phase, compare, snapshot>> /\ phase = "items"
      BY <1>2, <2>8, RecursionIsAcceptStep DEF AcceptStep
    <3> QED BY <1>2, <3>1 DEF ListedInv, AcceptedAreListed
  <2> QED
    BY <1>2, <2>1, <2>2, <2>3, <2>4, <2>5, <2>6, <2>7, <2>8, RecursionSteps
<1>3. ListedInv => AcceptedAreListed
  BY DEF ListedInv
<1>4. Quiet => Next
  OBVIOUS
<1>5. Init /\ [][Quiet]_vars => Spec
  BY <1>4, PTL DEF Spec
<1> HIDE DEF Quiet
<1>6. Init /\ [][Quiet]_vars => []AcceptedAreListed
  BY <1>1, <1>2, <1>3, <1>5, AlwaysIInv, PTL
<1> QED BY <1>6 DEF Quiet

-----------------------------------------------------------------------------
(* The length of a job *)

ItemCount == Cardinality(Items)

\* What the calls in their loops have before them.
Todos == {p \in (1..Len(stack)) \X Items : p[2] \in stack[p[1]].todo}

\* Every step of the recursion takes an item out of those not accepted, which
\* counts more than all it may add to a loop, takes one out of a loop, which
\* counts more than its call, or ends a call.
PerAccept == 2 * ItemCount + 1
CallsLeft == PerAccept * Cardinality(Items \ ACCEPTED_WIS) + 2 * Cardinality(Todos) + Len(stack)

\* All that one round of the loop over the items may do, and the builds.
PerItem == PerAccept * ItemCount + 2
BuildSteps == 2 * ItemCount + 2
BuildsLeft ==
  Cardinality({i \in Items : compile[i] = "running"}) + (Len(ITEMS_TO_BUILD) - waited) + 1
LoopLeft == PerItem * Cardinality(Items \ handled) + CallsLeft + BuildSteps
JobSteps == PerItem * ItemCount + PerAccept * ItemCount + BuildSteps + 2

\* A bound on the steps that the job has before it.
StepsLeft ==
  CASE phase = "compared" -> JobSteps
    [] phase = "accepted" -> JobSteps - 1
    [] phase = "items" -> LoopLeft
    [] phase = "builds" -> BuildsLeft
    [] OTHER -> 0

\* An item is not accepted when its call begins.
CallIsNew == stack # <<>> /\ Top.at = "accept" => ~InList(Top.item, ACCEPTED_WIS)

LEMMA ItemSets ==
  ASSUME IsFiniteSet(Items), NEW S \in SUBSET Items
  PROVE  IsFiniteSet(S) /\ Cardinality(S) \in Nat /\ ItemCount \in Nat
         /\ Cardinality(S) <= ItemCount
BY FS_Subset, FS_CardinalityType DEF ItemCount

\* Fewer of the same weight.
LEMMA Weighed ==
  ASSUME NEW w \in Nat, NEW b \in Nat, NEW c \in Nat
  PROVE  /\ w * c \in Nat
         /\ b <= c => w * b <= w * c
         /\ b < c => w * b <= w * c - w
<1>1. w * c \in Nat /\ w * b \in Nat
  OBVIOUS
<1>2. ASSUME b <= c PROVE w * b <= w * c
  BY <1>2
<1>3. ASSUME b < c PROVE w * b <= w * c - w
  <2>1. w * (b + 1) <= w * c
    BY <1>3
  <2>2. w * (b + 1) = w * b + w
    OBVIOUS
  <2> QED BY <1>1, <2>1, <2>2
<1> QED BY <1>1, <1>2, <1>3

LEMMA Outweighed ==
  ASSUME NEW n \in Nat, NEW l \in Nat, NEW x \in Nat, NEW y \in Nat, NEW t \in Nat, NEW u \in Nat,
         y <= x - (2 * n + 1), u <= t + n
  PROVE  y + 2 * u + l < x + 2 * t + l
<1>1. y + (2 * n + 1) <= x
  OBVIOUS
<1>2. 2 * u <= 2 * t + 2 * n
  OBVIOUS
<1> QED BY <1>1, <1>2

\* The numbers from 1 to m are m.
LEMMA IntervalCount ==
  ASSUME NEW m \in Nat
  PROVE  IsFiniteSet(1..m) /\ Cardinality(1..m) = m
<1>1. 1 \in Int /\ m \in Int
  OBVIOUS
<1>2. IsFiniteSet(1..m) /\ Cardinality(1..m) = IF 1 > m THEN 0 ELSE m - 1 + 1
  BY <1>1, FS_Interval
<1>3. m = IF 1 > m THEN 0 ELSE m - 1 + 1
  OBVIOUS
<1> QED BY <1>2, <1>3

LEMMA TodosFinite ==
  ASSUME IsFiniteSet(Items), stack \in Seq(Frames)
  PROVE  IsFiniteSet(Todos) /\ Cardinality(Todos) \in Nat /\ Len(stack) \in Nat
<1>1. Len(stack) \in Nat
  BY LenProperties
<1>2. IsFiniteSet(1..Len(stack))
  BY <1>1, FS_Interval
<1>3. IsFiniteSet((1..Len(stack)) \X Items)
  BY <1>2, FS_Product
<1>4. Todos \subseteq (1..Len(stack)) \X Items
  BY DEF Todos
<1> QED BY <1>1, <1>3, <1>4, FS_Subset, FS_CardinalityType

\* The weights add up to natural numbers.
LEMMA CallsLeftNat ==
  ASSUME IsFiniteSet(Items), IInv
  PROVE  /\ CallsLeft \in Nat /\ PerAccept \in Nat /\ PerItem \in Nat /\ BuildSteps \in Nat
         /\ JobSteps \in Nat /\ ItemCount \in Nat
         /\ stack = <<>> => CallsLeft <= PerAccept * ItemCount
<1>1. /\ ItemCount \in Nat /\ Cardinality(Items \ ACCEPTED_WIS) \in Nat
      /\ Cardinality(Items \ ACCEPTED_WIS) <= ItemCount
  BY ItemSets
<1>2. PerAccept \in Nat
  BY <1>1 DEF PerAccept
<1>3. Cardinality(Todos) \in Nat /\ Len(stack) \in Nat
  BY TodosFinite DEF IInv, TypeOK
<1>4. /\ PerAccept * Cardinality(Items \ ACCEPTED_WIS) \in Nat /\ PerAccept * ItemCount \in Nat
      /\ PerAccept * Cardinality(Items \ ACCEPTED_WIS) <= PerAccept * ItemCount
  BY <1>1, <1>2, Weighed
<1>5. PerItem \in Nat /\ BuildSteps \in Nat
  BY <1>1, <1>4 DEF PerItem, BuildSteps
<1>6. PerItem * ItemCount \in Nat
  BY <1>1, <1>5, Weighed
<1>7. JobSteps \in Nat
  BY <1>1, <1>4, <1>5, <1>6 DEF JobSteps
<1>8. CallsLeft \in Nat
  BY <1>3, <1>4 DEF CallsLeft
<1>9. ASSUME stack = <<>> PROVE CallsLeft <= PerAccept * ItemCount
  <2>1. Len(stack) = 0
    BY <1>9
  <2>2. Todos = {}
    BY <2>1 DEF Todos
  <2>3. Cardinality(Todos) = 0
    BY <2>2, FS_EmptySet
  <2> QED BY <1>4, <2>1, <2>3 DEF CallsLeft
<1> QED BY <1>1, <1>2, <1>5, <1>7, <1>8, <1>9

\* A step of the recursion leaves it fewer.
LEMMA RecursionShrinks ==
  ASSUME IsFiniteSet(Items), IInv, CallIsNew, NEW i \in Items,
         \/ NothingToAccept \/ AcceptFails \/ AcceptAgain \/ AcceptCompletes \/ AcceptMissing
         \/ LoopEnds \/ AcceptDependant(i)
  PROVE  CallsLeft' < CallsLeft /\ CallsLeft' \in Nat
<1> DEFINE a == Cardinality(Items \ ACCEPTED_WIS)
           t == Cardinality(Todos)
           l == Len(stack)
           n == ItemCount
           w == PerAccept
<1>1. /\ AcceptStep /\ stack \in Seq(Frames) /\ stack # <<>> /\ Top \in Frames
      /\ IInv'
  BY RecursionIsAcceptStep, RecursionKeeps, PopOfStack DEF AcceptStep, IInv, TypeOK
<1>2. /\ a \in Nat /\ a' \in Nat /\ n \in Nat
  BY ItemSets DEF ItemCount
<1>3. t \in Nat /\ t' \in Nat /\ l \in Nat /\ l' \in Nat
  <2>1. IsFiniteSet(Todos) /\ t \in Nat /\ l \in Nat
    BY <1>1, TodosFinite
  <2>2. stack' \in Seq(Frames)
    BY <1>1 DEF IInv, TypeOK
  <2>3. l' \in Nat /\ IsFiniteSet(1..Len(stack'))
    BY <2>2, LenProperties, FS_Interval
  <2>4. IsFiniteSet((1..Len(stack')) \X Items)
    BY <2>3, FS_Product
  <2>5. Todos' \subseteq (1..Len(stack')) \X Items
    BY DEF Todos
  <2> QED BY <2>1, <2>3, <2>4, <2>5, FS_Subset, FS_CardinalityType
<1>4. IsFiniteSet(Todos)
  BY <1>1, TodosFinite
<1>5. w \in Nat /\ w = 2 * n + 1
  BY <1>2 DEF PerAccept
<1>6. a' <= a
  <2>1. Items \ ACCEPTED_WIS' \subseteq Items \ ACCEPTED_WIS
    BY <1>1 DEF AcceptStep
  <2>2. IsFiniteSet(Items \ ACCEPTED_WIS)
    BY ItemSets
  <2> QED BY <2>1, <2>2, FS_Subset
<1>7. CallsLeft = w * a + 2 * t + l /\ CallsLeft' = w * a' + 2 * t' + l'
  BY DEF CallsLeft, PerAccept, ItemCount
<1>13. CallsLeft' \in Nat
  <2>1. w * a' \in Nat
    BY <1>2, <1>5, <1>6, Weighed
  <2> HIDE DEF a, t, l, n, w
  <2> QED BY <1>3, <1>7, <2>1
<1>8. /\ l # 0 /\ Len(Pop) = l - 1 /\ Pop \in Seq(Frames)
      /\ \A k \in 1..Len(Pop) : Pop[k] = stack[k] /\ k \in 1..l
  BY <1>1, PopOfStack
<1>9. CASE stack' = Pop \/ stack' = <<>>
  <2>1. l' < l
    <3>1. Len(<<>>) = 0
      OBVIOUS
    <3> QED BY <1>3, <1>8, <1>9, <3>1
  <2>2. Todos' \subseteq Todos
    <3>1. CASE stack' = Pop
      BY <1>8, <3>1 DEF Todos
    <3>2. CASE stack' = <<>>
      <4>1. Len(stack') = 0
        BY <3>2
      <4> QED BY <4>1 DEF Todos
    <3> QED BY <1>9, <3>1, <3>2
  <2>3. t' <= t
    BY <1>4, <2>2, FS_Subset
  <2>4. w * a' <= w * a /\ w * a' \in Nat /\ w * a \in Nat
    BY <1>2, <1>5, <1>6, Weighed
  <2> HIDE DEF a, t, l, n, w
  <2> QED BY <1>3, <1>7, <2>1, <2>3, <2>4
<1>10. CASE AcceptMissing /\ stack' # <<>>
  <2> DEFINE f == [Top EXCEPT !.at = "loop", !.todo = DEPENDS_ON_WI_LIST']
  <2>1. /\ stack' = Append(Pop, f) /\ Top.at = "accept"
        /\ ACCEPTED_WIS' = Appended(ACCEPTED_WIS, {Top.item})
        /\ DEPENDS_ON_WI_LIST' \subseteq Items
    BY <1>1, <1>10 DEF AcceptMissing, AcceptNew, Accepting, ReturnError, IInv, TypeOK
  <2>2. f \in Frames /\ f.todo \subseteq Items
    BY <1>1, <2>1 DEF Frames
  <2>3. /\ l' = l /\ \A k \in 1..l : k # l => stack'[k] = stack[k]
    <3> HIDE DEF f
    <3>1. /\ Len(stack') = Len(Pop) + 1 /\ \A k \in 1..Len(Pop) : stack'[k] = Pop[k]
      BY <1>8, <2>1, <2>2, PutOnTop
    <3>2. \A k \in 1..l : k # l => k \in 1..Len(Pop)
      BY <1>3, <1>8
    <3>3. l' = l
      BY <1>3, <1>8, <3>1
    <3>4. \A k \in 1..l : k # l => stack'[k] = stack[k]
      BY <1>8, <3>1, <3>2
    <3> QED BY <3>3, <3>4
  <2>4. Todos' \subseteq Todos \union ({l} \X Items)
    BY <2>3 DEF Todos
  <2>5. /\ IsFiniteSet({l} \X Items) /\ Cardinality({l} \X Items) = 1 * n
    <3>1. IsFiniteSet({l}) /\ Cardinality({l}) = 1
      BY FS_Singleton
    <3> HIDE DEF l
    <3> QED BY <3>1, FS_Product DEF ItemCount
  <2>6. t' <= t + n
    <3>1. /\ IsFiniteSet(Todos \union ({l} \X Items))
          /\ Cardinality(Todos \union ({l} \X Items))
               = t + Cardinality({l} \X Items) - Cardinality(Todos \intersect ({l} \X Items))
      BY <1>4, <2>5, FS_Union
    <3>2. Cardinality(Todos \intersect ({l} \X Items)) \in Nat
      <4>1. Todos \intersect ({l} \X Items) \subseteq Todos
        OBVIOUS
      <4> QED BY <1>4, <4>1, FS_Subset, FS_CardinalityType
    <3>3. t' <= Cardinality(Todos \union ({l} \X Items))
      BY <2>4, <3>1, FS_Subset
    <3>4. Cardinality(Todos \union ({l} \X Items)) <= t + n
      BY <1>2, <1>3, <2>5, <3>1, <3>2
    <3>5. Cardinality(Todos \union ({l} \X Items)) \in Nat
      BY <3>1, FS_CardinalityType
    <3> HIDE DEF t, n, l
    <3> QED BY <1>2, <1>3, <3>3, <3>4, <3>5
  <2>7. a' < a
    <3>1. Top.item \in Items /\ ~InList(Top.item, ACCEPTED_WIS)
      BY <1>1, <2>1 DEF CallIsNew, Frames
    <3>2. Top.item \notin ACCEPTED_WIS
      BY <3>1, NamesAssumption DEF InList
    <3>3. Top.item \in ACCEPTED_WIS' /\ ACCEPTED_WIS \subseteq ACCEPTED_WIS'
      BY <2>1, <3>1 DEF Appended
    <3>4. Items \ ACCEPTED_WIS' \subseteq (Items \ ACCEPTED_WIS) \ {Top.item}
      BY <3>3
    <3>5. IsFiniteSet(Items \ ACCEPTED_WIS)
      BY ItemSets
    <3>6. /\ IsFiniteSet((Items \ ACCEPTED_WIS) \ {Top.item})
          /\ Cardinality((Items \ ACCEPTED_WIS) \ {Top.item}) = a - 1
      BY <3>1, <3>2, <3>5, FS_RemoveElement
    <3>7. a' <= a - 1
      BY <3>4, <3>6, FS_Subset
    <3> HIDE DEF a
    <3> QED BY <1>2, <3>7
  <2>8. w * a' <= w * a - w /\ w * a' \in Nat /\ w * a \in Nat
    BY <1>2, <1>5, <2>7, Weighed
  <2> DEFINE x == w * a
             y == w * a'
  <2>9. x \in Nat /\ y \in Nat /\ y <= x - (2 * n + 1)
    BY <1>5, <2>8
  <2>10. CallsLeft = x + 2 * t + l /\ CallsLeft' = y + 2 * t' + l'
    BY <1>7
  <2>11. /\ n \in Nat /\ t \in Nat /\ t' \in Nat /\ l \in Nat /\ l' = l /\ t' <= t + n
    BY <1>2, <1>3, <2>3, <2>6
  <2>12. y + 2 * t' + l < x + 2 * t + l
    <3> HIDE DEF t, l, n, x, y
    <3> QED BY <2>9, <2>11, Outweighed
  <2> HIDE DEF t, l, n, x, y
  <2> QED BY <1>13, <2>10, <2>11, <2>12
<1>11. CASE AcceptDependant(i)
  <2> DEFINE f == [Top EXCEPT !.todo = @ \ {i}]
             st == Append(Pop, f)
  <2>1. /\ stack' = Append(st, Frame(i)) /\ i \in Top.todo /\ UNCHANGED ACCEPTED_WIS
    BY <1>11 DEF AcceptDependant, Looping, Dependants
  <2>2. /\ f \in Frames /\ f.todo = Top.todo \ {i}
        /\ Frame(i) \in Frames /\ Frame(i).todo = {}
    BY <1>1, <2>1 DEF Frames, Frame
  <2>3. /\ l' = l + 1 /\ stack'[l].todo = Top.todo \ {i} /\ stack'[l + 1].todo = {}
        /\ \A k \in 1..l : k # l => stack'[k] = stack[k]
    <3> HIDE DEF f
    <3>1. /\ st \in Seq(Frames) /\ Len(st) = Len(Pop) + 1 /\ st[Len(Pop) + 1] = f
          /\ \A k \in 1..Len(Pop) : st[k] = Pop[k]
      BY <1>8, <2>2, PutOnTop
    <3> HIDE DEF st
    <3>2. /\ Len(stack') = Len(st) + 1 /\ stack'[Len(st) + 1] = Frame(i)
          /\ \A k \in 1..Len(st) : stack'[k] = st[k]
      BY <2>1, <2>2, <3>1, PutOnTop
    <3>3. Len(st) = l /\ l \in 1..l /\ \A k \in 1..l : k # l => k \in 1..Len(Pop)
      BY <1>3, <1>8, <3>1
    <3>4. st[l] = f
      BY <1>3, <1>8, <3>1
    <3> QED BY <1>8, <2>2, <3>1, <3>2, <3>3, <3>4
  <2>4. <<l, i>> \in Todos
    <3>1. l \in 1..l
      BY <1>3, <1>8
    <3> QED BY <2>1, <3>1 DEF Todos, Top
  <2>5. Todos' \subseteq Todos \ {<<l, i>>}
    <3>1. \A k \in 1..(l + 1) : k = l + 1 \/ (k \in 1..l /\ (k = l \/ k # l))
      BY <1>3
    <3>2. stack[l] = Top
      BY DEF Top
    <3> QED BY <2>3, <3>1, <3>2 DEF Todos
  <2>6. t' <= t - 1
    <3>1. IsFiniteSet(Todos \ {<<l, i>>}) /\ Cardinality(Todos \ {<<l, i>>}) = t - 1
      BY <1>4, <2>4, FS_RemoveElement
    <3> QED BY <2>5, <3>1, FS_Subset
  <2>7. w * a' = w * a /\ w * a \in Nat
    BY <1>2, <1>5, <2>1, Weighed
  <2> HIDE DEF a, t, l, n, w
  <2> QED BY <1>3, <1>7, <2>3, <2>6, <2>7
<1>12. QED
  BY <1>9, <1>10, <1>11, <1>13
  DEF NothingToAccept, AcceptFails, AcceptAgain, AcceptCompletes, AcceptMissing, LoopEnds,
      ReturnToStack, ReturnError

\* No more compilations than items.
LEMMA BuildsBounded ==
  ASSUME IsFiniteSet(Items), IInv
  PROVE  /\ Cardinality({i \in Items : compile[i] = "running"}) \in 0..ItemCount
         /\ IsFiniteSet({i \in Items : compile[i] = "running"})
         /\ Len(ITEMS_TO_BUILD) - waited \in Nat /\ BuildsLeft \in Nat /\ BuildsLeft >= 1
         /\ Once => Len(ITEMS_TO_BUILD) <= ItemCount
<1> DEFINE R == {i \in Items : compile[i] = "running"}
           m == Len(ITEMS_TO_BUILD)
<1>1. /\ IsFiniteSet(R) /\ Cardinality(R) \in Nat /\ ItemCount \in Nat
      /\ Cardinality(R) <= ItemCount
  BY ItemSets
<1>2. ITEMS_TO_BUILD \in Seq(Items) /\ m \in Nat /\ waited \in 0..m
  BY LenProperties DEF IInv, TypeOK
<1>3. m - waited \in Nat
  BY <1>2
<1>4. BuildsLeft = Cardinality(R) + (m - waited) + 1
  BY DEF BuildsLeft
<1>5. BuildsLeft \in Nat /\ BuildsLeft >= 1
  <2> HIDE DEF R, m
  <2> QED BY <1>1, <1>3, <1>4
<1>6. ASSUME Once PROVE m <= ItemCount
  <2> DEFINE f == [k \in 1..m |-> ITEMS_TO_BUILD[k]]
  <2>1. f \in [1..m -> Items]
    BY <1>2, ElementOfSeq
  <2>2. f \in Injection(1..m, Items)
    BY <1>6, <2>1 DEF Once, Injection, IsInjective
  <2>3. Cardinality(1..m) <= Cardinality(Items)
    BY <2>2, FS_Injection
  <2>4. Cardinality(1..m) = m
    <3> HIDE DEF m
    <3> QED BY <1>2, IntervalCount
  <2> QED BY <2>3, <2>4 DEF ItemCount
<1> QED BY <1>1, <1>3, <1>5, <1>6

LEMMA StepsLeftNat ==
  ASSUME IsFiniteSet(Items), IInv
  PROVE  /\ LoopLeft \in Nat /\ CallsLeft \in Nat /\ LoopLeft >= BuildSteps
         /\ PerItem * Cardinality(Items \ handled) \in Nat
         /\ StepsLeft \in Nat /\ JobSteps >= 2 /\ BuildSteps >= 2 /\ BuildsLeft >= 1
<1>1. /\ CallsLeft \in Nat /\ PerItem \in Nat /\ BuildSteps \in Nat /\ JobSteps \in Nat
      /\ ItemCount \in Nat
  BY CallsLeftNat
<1>2. PerItem * Cardinality(Items \ handled) \in Nat
  BY <1>1, ItemSets, Weighed
<1>3. LoopLeft \in Nat /\ LoopLeft >= BuildSteps
  BY <1>1, <1>2 DEF LoopLeft
<1>4. JobSteps >= 2 /\ BuildSteps >= 2
  <2> DEFINE p == PerItem * ItemCount
             q == PerAccept * ItemCount
  <2>1. PerItem \in Nat /\ PerAccept \in Nat /\ ItemCount \in Nat
    BY CallsLeftNat
  <2>2. p \in Nat /\ q \in Nat
    BY <2>1, Weighed
  <2>3. JobSteps = p + q + BuildSteps + 2 /\ BuildSteps = 2 * ItemCount + 2
    BY DEF JobSteps, BuildSteps
  <2> HIDE DEF p, q
  <2> QED BY <1>1, <2>2, <2>3
<1> QED BY <1>1, <1>2, <1>3, <1>4, BuildsBounded DEF StepsLeft

\* The calls are for items that are not accepted yet.
LEMMA CallIsNewKept ==
  ASSUME IInv, CallIsNew, [Next]_vars
  PROVE  CallIsNew'
<1>1. ASSUME UNCHANGED <<stack, ACCEPTED_WIS>> PROVE CallIsNew'
  BY <1>1 DEF CallIsNew, Top, InList
<1>2. CASE UNCHANGED vars
  BY <1>1, <1>2 DEF vars, recursion
<1>3. ASSUME NEW i \in Items,
             \/ NothingToAccept \/ AcceptFails \/ AcceptAgain \/ AcceptCompletes \/ AcceptMissing
             \/ LoopEnds \/ AcceptDependant(i)
      PROVE  CallIsNew'
  <2>1. /\ stack \in Seq(Frames) /\ stack # <<>> /\ Top \in Frames /\ Pop \in Seq(Frames)
        /\ \A k \in 1..Len(Pop) : Pop[k].at # "accept"
    BY <1>3, RecursionIsAcceptStep, PopOfStack, CallReturns DEF AcceptStep, IInv, TypeOK
  <2>2. CASE stack' = Pop \/ stack' = <<>>
    <3>1. CASE stack' = Pop /\ Pop # <<>>
      <4>1. Len(Pop) \in 1..Len(Pop)
        BY <2>1, <3>1, EmptySeq, LenProperties
      <4> QED BY <2>1, <3>1, <4>1 DEF CallIsNew, Top
    <3> QED BY <2>2, <3>1 DEF CallIsNew
  <2>3. CASE AcceptMissing /\ stack' # <<>>
    <3> DEFINE f == [Top EXCEPT !.at = "loop", !.todo = DEPENDS_ON_WI_LIST']
    <3>1. /\ stack' = Append(Pop, f) /\ DEPENDS_ON_WI_LIST' \subseteq Items
      BY <1>3, <2>3, RecursionKeeps DEF AcceptMissing, ReturnError, IInv, TypeOK
    <3>2. f \in Frames /\ f.at = "loop"
      BY <2>1, <3>1 DEF Frames
    <3> HIDE DEF f
    <3>3. stack'[Len(stack')] = f
      BY <2>1, <3>1, <3>2, PutOnTop
    <3> QED BY <3>2, <3>3 DEF CallIsNew, Top
  <2>4. CASE AcceptDependant(i)
    <3> DEFINE f == [Top EXCEPT !.todo = @ \ {i}]
               st == Append(Pop, f)
    <3>1. /\ stack' = Append(st, Frame(i)) /\ ~InList(i, ACCEPTED_WIS)
          /\ UNCHANGED ACCEPTED_WIS
      BY <2>4 DEF AcceptDependant, Looping, Dependants
    <3>2. f \in Frames /\ Frame(i) \in Frames /\ Frame(i).item = i
      BY <2>1 DEF Frames, Frame
    <3> HIDE DEF f
    <3>3. st \in Seq(Frames)
      BY <2>1, <3>2, PutOnTop
    <3> HIDE DEF st
    <3>4. stack'[Len(stack')] = Frame(i)
      BY <3>1, <3>2, <3>3, PutOnTop
    <3> QED BY <3>1, <3>2, <3>4 DEF CallIsNew, Top, InList
  <2> QED
    BY <1>3, <2>2, <2>3, <2>4
    DEF NothingToAccept, AcceptFails, AcceptAgain, AcceptCompletes, AcceptMissing, LoopEnds,
        ReturnToStack, ReturnError
<1>4. ASSUME NEW i \in Items, CreateWorkspace(i) \/ ReplaceComponents(i) \/ LoadFails(i) \/ AbortLoading(i)
      PROVE  CallIsNew'
  <2>1. ACCEPTED_WIS' = {}
    BY <1>4 DEF CreateWorkspace, ReplaceComponents, LoadFails, AbortLoading, StartItem
  <2> QED BY <2>1 DEF CallIsNew, InList
<1>5. CASE Compare
  BY <1>5 DEF Compare, CallIsNew
<1>6. ASSUME \/ \E c \in ChangeSets : Deliver(c)
             \/ AcceptAll \/ AcceptAllFails \/ ListWorkspaces \/ Abort \/ StartBuilds \/ Wait \/ End
             \/ \E i \in Items, result \in Results : CompileEnds(i, result)
      PROVE  UNCHANGED <<stack, ACCEPTED_WIS>>
  BY <1>6 DEF Deliver, AcceptAll, AcceptAllFails, ListWorkspaces, Abort, StartBuilds, Wait, End,
              CompileEnds, recursion
<1> QED
  BY <1>1, <1>2, <1>3, <1>4, <1>5, <1>6, RecursionSteps

-----------------------------------------------------------------------------
\* One lemma for each part of the job.
LEMMA RecursionLeavesLess ==
  ASSUME IsFiniteSet(Items), IInv, CallIsNew, NEW i \in Items,
         \/ NothingToAccept \/ AcceptFails \/ AcceptAgain \/ AcceptCompletes \/ AcceptMissing
         \/ LoopEnds \/ AcceptDependant(i)
  PROVE  StepsLeft' < StepsLeft
<1>1. CallsLeft' < CallsLeft
  BY RecursionShrinks
<1>2. phase = "items" /\ UNCHANGED <<phase, handled>> /\ IInv'
  BY RecursionIsAcceptStep, RecursionKeeps DEF AcceptStep
<1>3. StepsLeft = LoopLeft /\ StepsLeft' = LoopLeft'
  BY <1>2 DEF StepsLeft
<1> DEFINE p == PerItem * Cardinality(Items \ handled)
<1>4. LoopLeft = p + CallsLeft + BuildSteps /\ LoopLeft' = p + CallsLeft' + BuildSteps
  BY <1>2 DEF LoopLeft, PerItem, PerAccept, BuildSteps, ItemCount
<1>5. p \in Nat /\ CallsLeft \in Nat /\ BuildSteps \in Nat
  BY StepsLeftNat, CallsLeftNat
<1>6. CallsLeft' \in Nat
  BY RecursionShrinks
<1> DEFINE x == CallsLeft
           y == CallsLeft'
           b == BuildSteps
<1>7. /\ p \in Nat /\ x \in Nat /\ y \in Nat /\ b \in Nat /\ y < x
      /\ StepsLeft = p + x + b /\ StepsLeft' = p + y + b
  BY <1>1, <1>3, <1>4, <1>5, <1>6
<1> HIDE DEF p, x, y, b
<1> QED BY <1>7

\* The next item has the round it starts taken off.
LEMMA StartItemLeavesLess ==
  ASSUME IsFiniteSet(Items), IInv, NEW i \in Items,
         CreateWorkspace(i) \/ ReplaceComponents(i) \/ LoadFails(i) \/ AbortLoading(i)
  PROVE  StepsLeft' < StepsLeft
<1>1. /\ phase = "items" /\ i \notin handled /\ handled' = handled \union {i}
      /\ ACCEPTED_WIS' = {}
  BY DEF CreateWorkspace, ReplaceComponents, LoadFails, AbortLoading, StartItem
<1>2. /\ StepsLeft = LoopLeft /\ LoopLeft \in Nat /\ LoopLeft >= 2
      /\ CallsLeft \in Nat /\ BuildSteps \in Nat
  <2>1. StepsLeft = LoopLeft
    BY <1>1 DEF StepsLeft
  <2>2. BuildSteps \in Nat
    BY CallsLeftNat
  <2> QED BY <2>1, <2>2, StepsLeftNat
<1>3. CASE LoadFails(i) \/ AbortLoading(i)
  <2>1. StepsLeft' = 0
    BY <1>3 DEF LoadFails, AbortLoading, StepsLeft
  <2> QED BY <1>2, <2>1
<1>4. CASE CreateWorkspace(i) \/ ReplaceComponents(i)
  <2>1. phase' = "items" /\ stack' = <<Frame(i)>>
    BY <1>1, <1>4 DEF CreateWorkspace, ReplaceComponents
  <2>2. StepsLeft' = LoopLeft'
    BY <2>1 DEF StepsLeft
  <2>3. Len(stack') = 1 /\ stack'[1].todo = {}
    BY <2>1 DEF Frame
  <2>4. Todos' = {}
    BY <2>3 DEF Todos
  <2>5. Cardinality(Todos)' = 0
    BY <2>4, FS_EmptySet
  <2> DEFINE q == PerAccept * ItemCount
             h == Cardinality(Items \ handled)
             g == Cardinality(Items \ handled')
             p == PerItem * h
  <2>6. CallsLeft' = q + 1
    <3>1. CallsLeft' = PerAccept * Cardinality(Items \ {}) + 2 * 0 + 1
      BY <1>1, <2>3, <2>5 DEF CallsLeft, PerAccept, ItemCount
    <3>2. Items \ {} = Items
      OBVIOUS
    <3>3. q \in Nat
      BY CallsLeftNat, Weighed
    <3>4. CallsLeft' = q + 2 * 0 + 1
      BY <3>1, <3>2 DEF ItemCount
    <3> HIDE DEF q
    <3> QED BY <3>3, <3>4
  <2>7. h \in Nat /\ g = h - 1 /\ g \in Nat
    <3>1. IsFiniteSet(Items \ handled) /\ h \in Nat /\ i \in Items \ handled
      BY <1>1, ItemSets
    <3>2. Items \ handled' = (Items \ handled) \ {i}
      BY <1>1
    <3>3. g = h - 1
      BY <3>1, <3>2, FS_RemoveElement
    <3>4. g \in Nat
      BY ItemSets
    <3> QED BY <3>1, <3>3, <3>4
  <2>8. PerItem \in Nat /\ PerItem = q + 2 /\ q \in Nat
    <3>1. q \in Nat
      BY CallsLeftNat, Weighed
    <3> QED BY <3>1, CallsLeftNat DEF PerItem
  <2>9. p \in Nat /\ PerItem * g <= p - PerItem /\ PerItem * g \in Nat
    <3>1. g < h
      <4> HIDE DEF g, h
      <4> QED BY <2>7
    <3> HIDE DEF g, h
    <3> QED BY <2>7, <2>8, <3>1, Weighed
  <2>10. /\ LoopLeft = p + CallsLeft + BuildSteps
         /\ LoopLeft' = PerItem * g + (q + 1) + BuildSteps
    BY <1>1, <2>6 DEF LoopLeft, PerItem, PerAccept, BuildSteps, ItemCount
  <2> DEFINE r == PerItem * g
  <2>11. r \in Nat /\ r <= p - PerItem /\ LoopLeft' = r + (q + 1) + BuildSteps
    BY <2>9, <2>10
  <2>12. p \in Nat /\ LoopLeft = p + CallsLeft + BuildSteps
    BY <2>9, <2>10
  <2> HIDE DEF p, q, r
  <2> QED BY <1>2, <2>2, <2>8, <2>11, <2>12
<1> QED BY <1>3, <1>4

\* The commands before the loop are one step each.
LEMMA BeginningLeavesLess ==
  ASSUME IsFiniteSet(Items), IInv, AcceptAll \/ AcceptAllFails \/ ListWorkspaces
  PROVE  StepsLeft' < StepsLeft
<1>1. JobSteps \in Nat /\ JobSteps' = JobSteps
  BY CallsLeftNat DEF JobSteps, PerItem, PerAccept, BuildSteps, ItemCount
<1>2. CASE AcceptAll \/ AcceptAllFails
  <2>1. StepsLeft = JobSteps /\ StepsLeft' = JobSteps - 1
    BY <1>1, <1>2 DEF AcceptAll, AcceptAllFails, StepsLeft
  <2> QED BY <1>1, <2>1
<1>3. CASE ListWorkspaces
  <2>1. /\ StepsLeft = JobSteps - 1 /\ StepsLeft' = LoopLeft' /\ LoopLeft' = LoopLeft
        /\ stack = <<>>
    BY <1>3 DEF ListWorkspaces, StepsLeft, IInv, Tracked, recursion, LoopLeft, CallsLeft, Todos,
                PerItem, PerAccept, BuildSteps, ItemCount
  <2> DEFINE p == PerItem * Cardinality(Items \ handled)
             q == PerItem * ItemCount
             r == PerAccept * ItemCount
  <2>2. /\ CallsLeft \in Nat /\ CallsLeft <= r /\ BuildSteps \in Nat /\ PerItem \in Nat
        /\ PerAccept \in Nat /\ ItemCount \in Nat
    BY <2>1, CallsLeftNat
  <2>3. p \in Nat /\ q \in Nat /\ p <= q /\ r \in Nat
    BY <2>2, ItemSets, Weighed
  <2>4. LoopLeft = p + CallsLeft + BuildSteps /\ JobSteps = q + r + BuildSteps + 2
    BY DEF LoopLeft, JobSteps
  <2> HIDE DEF p, q, r
  <2> QED BY <2>1, <2>2, <2>3, <2>4
<1> QED BY <1>2, <1>3

\* The builds: two steps for each item at most, and the end.
LEMMA BuildsLeaveLess ==
  ASSUME IsFiniteSet(Items), IInv, BuildInv, StartBuilds \/ Wait \/ Compiler \/ End
  PROVE  StepsLeft' < StepsLeft
<1> DEFINE R == {j \in Items : compile[j] = "running"}
           m == Len(ITEMS_TO_BUILD)
<1>1. /\ IsFiniteSet(R) /\ Cardinality(R) \in Nat /\ Cardinality(R') \in Nat
      /\ Cardinality(R') <= ItemCount /\ ItemCount \in Nat
  BY ItemSets
<1>2. m \in Nat /\ waited \in Nat /\ m - waited \in Nat /\ (Once => m <= ItemCount)
  BY LenProperties, BuildsBounded DEF IInv, TypeOK
<1>3. BuildsLeft = Cardinality(R) + (m - waited) + 1 /\ BuildsLeft' = Cardinality(R') + (m' - waited') + 1
  BY DEF BuildsLeft
<1>4. CASE StartBuilds
  <2>1. /\ StepsLeft = LoopLeft /\ StepsLeft' = BuildsLeft' /\ m' = m /\ waited' = waited
        /\ Once
    BY <1>4 DEF StartBuilds, StepsLeft, BuildInv, Handling
  <2>2. LoopLeft \in Nat /\ LoopLeft >= 2 * ItemCount + 2
    BY StepsLeftNat DEF BuildSteps
  <2> HIDE DEF R, m
  <2> QED BY <1>1, <1>2, <1>3, <2>1, <2>2
<1>5. CASE Wait
  <2>1. /\ StepsLeft = BuildsLeft /\ StepsLeft' = BuildsLeft' /\ m' = m /\ R' = R
        /\ waited' = waited + 1
    BY <1>5 DEF Wait, StepsLeft
  <2> HIDE DEF R, m
  <2> QED BY <1>1, <1>2, <1>3, <2>1
<1>6. CASE Compiler
  <2> PICK i \in Items, result \in Results : CompileEnds(i, result)
    BY <1>6 DEF Compiler
  <2>1. /\ StepsLeft = BuildsLeft /\ StepsLeft' = BuildsLeft' /\ m' = m /\ waited' = waited
        /\ i \in R /\ compile' = [compile EXCEPT ![i] = result]
    BY DEF CompileEnds, StepsLeft, builds
  <2>2. R' = R \ {i}
    BY <2>1 DEF Results, IInv, TypeOK
  <2>3. Cardinality(R') = Cardinality(R) - 1
    BY <1>1, <2>1, <2>2, FS_RemoveElement
  <2> HIDE DEF R, m
  <2> QED BY <1>1, <1>2, <1>3, <2>1, <2>3
<1>7. CASE End
  <2>1. StepsLeft = BuildsLeft /\ StepsLeft' = 0
    BY <1>7 DEF End, StepsLeft
  <2> QED BY <2>1, BuildsBounded
<1> QED BY <1>4, <1>5, <1>6, <1>7

\* A failure ends it at once.
LEMMA AbortLeavesNothing ==
  ASSUME IsFiniteSet(Items), IInv, Abort
  PROVE  StepsLeft' < StepsLeft
<1>1. StepsLeft' = 0 /\ phase \in {"compared", "accepted", "items"}
  BY DEF Abort, StepsLeft
<1>2. JobSteps \in Nat /\ BuildSteps \in Nat
  BY CallsLeftNat
<1>3. JobSteps >= 2 /\ LoopLeft \in Nat /\ LoopLeft >= BuildSteps /\ BuildSteps >= 2
  BY StepsLeftNat
<1>4. StepsLeft \in {JobSteps, JobSteps - 1, LoopLeft}
  BY <1>1 DEF StepsLeft
<1> QED BY <1>1, <1>2, <1>3, <1>4

\* The commands that fail.
Failure ==
  Abort \/ AcceptAllFails \/ AcceptFails \/ \E i \in Items : AbortLoading(i)

\* A run of the job is bounded: the comparison gives it so many steps, which
\* only the numbers of items determine, every step of it and of the compilations
\* takes one away, and the deliveries of developers give it none back. So the
\* recursion of recursive_accept and the waits end, whatever depends on what.
THEOREM JobIsBounded ==
  ASSUME IsFiniteSet(Items)
  PROVE  Spec =>
           /\ [](StepsLeft \in Nat)
           /\ [][/\ Compare => StepsLeft' <= JobSteps
                 /\ Job \/ Compiler \/ Failure => StepsLeft' < StepsLeft
                 /\ (\E c \in ChangeSets : Deliver(c)) => StepsLeft' = StepsLeft]_vars
<1>1. Init => BuildInv /\ CallIsNew
  BY DEF Init, BuildInv, Preparing, NoBuilds, Handling, Waiting, ExitTellsAll, CallIsNew
<1>2. ASSUME IInv, BuildInv, CallIsNew, [Next]_vars PROVE BuildInv' /\ CallIsNew'
  <2>1. BuildInv'
    BY <1>2, RecursionSteps, RecursionKeepsBuilds, StartItemKeepsBuilds, WaitKeepsBuilds,
       CompileEndsKeepsBuilds, StartBuildsKeeps, EndKeepsBuilds, CompareKeepsBuilds,
       OthersKeepBuilds
  <2> QED BY <1>2, <2>1, CallIsNewKept
<1>3. ASSUME IInv PROVE StepsLeft \in Nat
  BY <1>3, StepsLeftNat
<1>4. ASSUME IInv, Compare PROVE StepsLeft' <= JobSteps
  <2>1. JobSteps \in Nat /\ JobSteps' = JobSteps
    BY <1>4, CallsLeftNat DEF JobSteps, PerItem, PerAccept, BuildSteps, ItemCount
  <2>2. phase' \in {"ended", "compared"}
    BY <1>4 DEF Compare
  <2>3. StepsLeft' \in {0, JobSteps}
    BY <2>1, <2>2 DEF StepsLeft
  <2> QED BY <2>1, <2>3
<1>5. ASSUME IInv, BuildInv, CallIsNew, Job \/ Compiler \/ Failure
      PROVE  StepsLeft' < StepsLeft
  <2>1. CASE \/ NothingToAccept \/ AcceptFails \/ AcceptAgain \/ AcceptCompletes \/ AcceptMissing
             \/ LoopEnds
    <3>1. stack # <<>>
      BY <2>1 DEF NothingToAccept, AcceptFails, AcceptAgain, AcceptCompletes, AcceptMissing,
                  LoopEnds, Looping, Accepting, AcceptNew
    <3>2. PICK i \in Items : TRUE
      BY <1>5, <3>1, SameRoot DEF IInv, TypeOK
    <3> QED BY <1>5, <2>1, <3>2, RecursionLeavesLess
  <2>2. ASSUME NEW i \in Items, AcceptDependant(i) PROVE StepsLeft' < StepsLeft
    BY <1>5, <2>2, RecursionLeavesLess
  <2>3. ASSUME NEW i \in Items, CreateWorkspace(i) \/ ReplaceComponents(i) \/ LoadFails(i) \/ AbortLoading(i)
        PROVE  StepsLeft' < StepsLeft
    BY <1>5, <2>3, StartItemLeavesLess
  <2>4. CASE AcceptAll \/ AcceptAllFails \/ ListWorkspaces
    BY <1>5, <2>4, BeginningLeavesLess
  <2>5. CASE StartBuilds \/ Wait \/ Compiler \/ End
    BY <1>5, <2>5, BuildsLeaveLess
  <2>6. CASE Abort
    BY <1>5, <2>6, AbortLeavesNothing
  <2> QED BY <1>5, <2>1, <2>2, <2>3, <2>4, <2>5, <2>6 DEF Job, Failure
<1>6. ASSUME \E c \in ChangeSets : Deliver(c) PROVE StepsLeft' = StepsLeft
  BY <1>6 DEF Deliver, recursion, builds, StepsLeft, JobSteps, LoopLeft, CallsLeft, Todos,
              BuildsLeft, PerItem, PerAccept, BuildSteps, ItemCount
<1>7. QED  BY <1>1, <1>2, <1>3, <1>4, <1>5, <1>6, AlwaysIInv, PTL DEF Spec
=============================================================================
