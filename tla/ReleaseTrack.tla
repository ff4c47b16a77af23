---------------------------- MODULE ReleaseTrack ----------------------------
(***************************************************************************)
(* The release history of the BDC database: the triggers on the table       *)
(* version and the two stored procedures that write the table releaseTrack, *)
(* in their version 2 (database/mysql/bdc_update_releaseTrack_...). Every    *)
(* statement on version is one action: MySQL runs the trigger inside the    *)
(* statement, and statements of two sessions are taken one after the other. *)
(*                                                                         *)
(* The variables @releaseHotfixSpecific and @nextRelease belong to the      *)
(* session and outlive the statement: SELECT ... INTO leaves them as they   *)
(* are when no row matches. All other session variables are assigned before *)
(* they are read and are LETs here. Dates are left out.                     *)
(***************************************************************************)
EXTENDS Integers

CONSTANTS
  Sessions,      \* connections of the users of the database
  Projects,
  Versions,      \* version numbers that occur
  EMPTY,         \* 'EMPTY'
  Null,
  Deployments,   \* bound: the <<project, type, version>> that are written
  Installed,     \* table version at the start
  Populated,     \* table releaseTrack at the start
  Transactional  \* whether a failed statement is undone (InnoDB) or not (MyISAM)

\* versionType: 8 is Next Release (REF), 11 Production, 13 HotFix, 6 Specific
\* Release, 14 Integration.
Ref == 8
Prod == 11
HotFixes == {13, 6}
Types == {Ref, Prod, 14} \union HotFixes

Keys == Projects \X Types \X Versions
Rows == Projects \X Types

(***************************************************************************)
(* Release identifiers: year and month in one number, 1812 for December.    *)
(* LEFT and RIGHT take them apart, CONCAT puts them together.               *)
(***************************************************************************)
IsRelease(r) == r \in Nat /\ r % 100 \in 1..12

YearEndForgotten(r) == r + 1  \* mutant of NextRelease

NextRelease(r) ==
  IF r % 100 = 12 THEN 100 * (r \div 100 + 1) + 1 ELSE r + 1

PreviousRelease(r) ==
  IF r % 100 = 1 THEN 100 * (r \div 100 - 1) + 12 ELSE r - 1

HasGreatest(S) == S = {} \/ \E r \in S : \A q \in S : q <= r

\* SELECT MAX(release_id): NULL when no row matches.
Latest(S) == IF S = {} THEN Null ELSE CHOOSE r \in S : \A q \in S : q <= r

(***************************************************************************)
(* The table releaseTrack, tr: release_id by primary key.                   *)
(***************************************************************************)
ProdReleases(tr) == {tr[k] : k \in {k \in DOMAIN tr : k[2] = Prod}}
ProdReleasesOf(tr, p) ==
  {tr[k] : k \in {k \in DOMAIN tr : k[1] = p /\ k[2] = Prod}}

releaseID(tr) == Latest(ProdReleases(tr))
lastProdRelease(tr, p) == Latest(ProdReleasesOf(tr, p))
generatedRelease(tr) == NextRelease(releaseID(tr))

AllOfProject(tr, p) ==  \* mutant of Waiting: release_id > @lastProdRelease dropped
  {k \in DOMAIN tr : k[1] = p /\ k[2] = Ref /\ lastProdRelease(tr, p) # Null}

\* The rows of p that sp_check_previous_versions moves.
Waiting(tr, p) ==
  {k \in DOMAIN tr : /\ k[1] = p
                     /\ k[2] = Ref
                     /\ lastProdRelease(tr, p) # Null
                     /\ tr[k] > lastProdRelease(tr, p)}

BehindByTwo(tr, p) ==  \* mutant of IsBehind: one month too many
  /\ lastProdRelease(tr, p) # Null
  /\ lastProdRelease(tr, p) < PreviousRelease(PreviousRelease(generatedRelease(tr)))

IsBehind(tr, p) ==
  /\ lastProdRelease(tr, p) # Null
  /\ lastProdRelease(tr, p) < PreviousRelease(generatedRelease(tr))

EachByAMonth(tr, p) ==  \* mutant of the procedure: each row moved by one month
  [k \in DOMAIN tr |-> IF k \in Waiting(tr, p) THEN NextRelease(tr[k]) ELSE tr[k]]

MonthAddedTwice(tr, p) ==  \* mutant of the procedure: it increments its argument again
  [k \in DOMAIN tr |->
     IF IsBehind(tr, p) /\ k \in Waiting(tr, p)
       THEN NextRelease(generatedRelease(tr))
       ELSE tr[k]]

sp_check_previous_versions(tr, p) ==
  IF IsBehind(tr, p)
    THEN [k \in DOMAIN tr |->
            IF k \in Waiting(tr, p) THEN generatedRelease(tr) ELSE tr[k]]
    ELSE tr

AcceptsNull(tr, r, k) == k \notin DOMAIN tr  \* mutant of Accepts: NOT NULL forgotten

\* release_id is NOT NULL, and the key must be new.
Accepts(tr, r, k) == r # Null /\ k \notin DOMAIN tr

sp_common_triggers_track(tr, r, k) ==
  [x \in DOMAIN tr \union {k} |-> IF x = k THEN r ELSE tr[x]]

(***************************************************************************)
(* The table is populated with what is in production, and nothing later     *)
(* (populating_track_PROD_versions.txt).                                    *)
(***************************************************************************)
ASSUME NullAssumption == Null \notin Nat
ASSUME InstalledAssumption ==
  /\ DOMAIN Installed \subseteq Rows
  /\ Installed \in [DOMAIN Installed -> Versions \union {EMPTY}]
ASSUME PopulatedAssumption ==
  /\ DOMAIN Populated \subseteq Keys
  /\ Populated \in [DOMAIN Populated -> Nat]
  /\ \A k \in DOMAIN Populated : IsRelease(Populated[k])
  /\ ProdReleases(Populated) # {}
  /\ HasGreatest(ProdReleases(Populated))
  /\ \A p \in Projects : HasGreatest(ProdReleasesOf(Populated, p))
  /\ \A k \in DOMAIN Populated : Populated[k] <= releaseID(Populated)

-----------------------------------------------------------------------------
VARIABLES
  version,   \* version[<<p, t>>]: the version of project p of type t
  track,     \* releaseTrack
  session    \* session[s]: the two variables of session s that survive

vars == <<version, track, session>>

Variables == [releaseHotfixSpecific : Nat \union {Null}, nextRelease : Nat \union {Null}]
NewSession == [releaseHotfixSpecific |-> Null, nextRelease |-> Null]

Init ==
  /\ version = Installed
  /\ track = Populated
  /\ session = [s \in Sessions |-> NewSession]

WithVersion(p, t, v) ==
  [x \in DOMAIN version \union {<<p, t>>} |->
     IF x = <<p, t>> THEN v ELSE version[x]]

(***************************************************************************)
(* The end of a trigger: moved is releaseTrack after                        *)
(* sp_check_previous_versions, r the release the new row gets.              *)
(***************************************************************************)
Track(p, t, v, moved, r) ==
  \/ /\ Accepts(moved, r, <<p, t, v>>)
     /\ version' = WithVersion(p, t, v)
     /\ track' = sp_common_triggers_track(moved, r, <<p, t, v>>)
  \/ /\ ~Accepts(moved, r, <<p, t, v>>)
     /\ IF Transactional
          THEN UNCHANGED <<version, track>>
          ELSE version' = WithVersion(p, t, v) /\ track' = moved

\* SELECT release_id ... env_type IN (13,6) AND version = NEW.version
HotFixRows(p, v) == {k \in DOMAIN track : k[1] = p /\ k[2] \in HotFixes /\ k[3] = v}

NoLookUp(s, p, v) ==  \* mutant of HotFixRelease: the SELECT is missing
  session[s].releaseHotfixSpecific

\* @releaseHotfixSpecific after that SELECT.
HotFixRelease(s, p, v) ==
  IF HotFixRows(p, v) = {}
    THEN session[s].releaseHotfixSpecific
    ELSE track[CHOOSE k \in HotFixRows(p, v) : TRUE]

Exists(p, t) == <<p, t>> \in DOMAIN version
Written(p, t, v) == <<p, t, v>> \in Deployments

-----------------------------------------------------------------------------
(* INSERT INTO version *)

InsertRef(p, v) ==
  /\ ~Exists(p, Ref) /\ v # EMPTY /\ Written(p, Ref, v)
  /\ Track(p, Ref, v, track, generatedRelease(track))
  /\ UNCHANGED session

InsertProd(p, v) ==
  /\ ~Exists(p, Prod) /\ v # EMPTY /\ Written(p, Prod, v)
  /\ Track(p, Prod, v, track, releaseID(track))
  /\ UNCHANGED session

\* The other types are not tracked by the insert trigger.
InsertOther(p, t, v) ==
  /\ ~Exists(p, t) /\ Written(p, t, v)
  /\ t \notin {Ref, Prod} \/ v = EMPTY
  /\ version' = WithVersion(p, t, v)
  /\ UNCHANGED <<track, session>>

-----------------------------------------------------------------------------
(* UPDATE version *)

\* Common to REF and PROD: the look-up of a hotfix with at most one row.
LookUp(s, p, t, v) ==
  /\ Exists(p, t) /\ v # EMPTY /\ Written(p, t, v)
  /\ \A k, l \in HotFixRows(p, v) : k = l

UpdateRef(s, p, v) ==
  /\ LookUp(s, p, Ref, v)
  /\ HotFixRelease(s, p, v) = Null
  /\ Track(p, Ref, v, sp_check_previous_versions(track, p), generatedRelease(track))
  /\ UNCHANGED session

UpdateProd(s, p, v) ==
  LET moved == sp_check_previous_versions(track, p)
      next == IF <<p, Ref, v>> \in DOMAIN moved
                THEN moved[<<p, Ref, v>>]
                ELSE session[s].nextRelease
  IN /\ LookUp(s, p, Prod, v)
     /\ HotFixRelease(s, p, v) = Null
     /\ Track(p, Prod, v, moved, next)
     /\ session' = [session EXCEPT ![s].nextRelease = next]

UpdateFixed(s, p, t, v) ==
  /\ t \in {Ref, Prod}
  /\ LookUp(s, p, t, v)
  /\ HotFixRelease(s, p, v) # Null
  /\ Track(p, t, v, track, releaseID(track))
  /\ session' =
       [session EXCEPT ![s].releaseHotfixSpecific = HotFixRelease(s, p, v)]

UpdateHotFix(p, t, v) ==
  /\ t \in HotFixes /\ Exists(p, t) /\ v # EMPTY /\ Written(p, t, v)
  /\ Track(p, t, v, track, releaseID(track))
  /\ UNCHANGED session

\* A version that is both a hotfix and specific: the SELECT returns two rows,
\* an error, after the first was assigned.
TooManyRows(s, p, t, v) ==
  /\ t \in {Ref, Prod} /\ Exists(p, t) /\ v # EMPTY /\ Written(p, t, v)
  /\ \E k, l \in HotFixRows(p, v) :
       /\ k # l
       /\ session' = [session EXCEPT ![s].releaseHotfixSpecific = track[k]]
  /\ version' = IF Transactional THEN version ELSE WithVersion(p, t, v)
  /\ UNCHANGED track

UpdateOther(p, t, v) ==
  /\ Exists(p, t) /\ Written(p, t, v)
  /\ t = 14 \/ v = EMPTY
  /\ version' = WithVersion(p, t, v)
  /\ UNCHANGED <<track, session>>

Connect(s) ==
  /\ session[s] # NewSession
  /\ session' = [session EXCEPT ![s] = NewSession]
  /\ UNCHANGED <<version, track>>

Next ==
  \/ \E p \in Projects, v \in Versions : InsertRef(p, v) \/ InsertProd(p, v)
  \/ \E p \in Projects, t \in Types, v \in Versions \union {EMPTY} :
       InsertOther(p, t, v) \/ UpdateOther(p, t, v)
  \/ \E p \in Projects, t \in HotFixes, v \in Versions : UpdateHotFix(p, t, v)
  \/ \E s \in Sessions, p \in Projects, v \in Versions :
       \/ UpdateRef(s, p, v)
       \/ UpdateProd(s, p, v)
       \/ \E t \in {Ref, Prod} : UpdateFixed(s, p, t, v) \/ TooManyRows(s, p, t, v)
  \/ \E s \in Sessions : Connect(s)

Spec == Init /\ [][Next]_vars

-----------------------------------------------------------------------------
(* Properties *)

TypeOK ==
  /\ DOMAIN version \subseteq Rows
  /\ version \in [DOMAIN version -> Versions \union {EMPTY}]
  /\ DOMAIN track \subseteq Keys
  /\ track \in [DOMAIN track -> Nat]
  /\ session \in [Sessions -> Variables]

\* Every release_id is a year and a month of it, across the end of the year
\* too (the IF of the triggers), for rows written directly, moved by the
\* procedure, and taken from a session variable.
ReleasesAreMonths == \A k \in DOMAIN track : IsRelease(track[k])

\* Nothing is planned further ahead than the month after the last production
\* release, although the look-ups read releases left over from earlier
\* statements of the session.
NothingBeyondNext ==
  \A k \in DOMAIN track : track[k] <= generatedRelease(track)

\* MAX(release_id) in production, from which every other release is derived,
\* never goes back and never skips a month, whatever is written by whom.
ProductionAdvancesByMonths ==
  [][releaseID(track') \in {releaseID(track), generatedRelease(track)}]_vars

\* History is kept: a row stays, never goes back to an earlier release, and does
\* not move at all when it is no REF row or not later than what its project
\* has in production.
HistoryKept ==
  [][\A k \in DOMAIN track :
       /\ k \in DOMAIN track'
       /\ track'[k] >= track[k]
       /\ \/ track'[k] = track[k]
          \/ /\ k[2] = Ref
             /\ lastProdRelease(track, k[1]) # Null
             /\ track[k] > lastProdRelease(track, k[1])]_vars

\* A step that plans version v of project p for the next release takes along
\* all its REF versions that did not reach production: the comparison of
\* @lastProdRelease with @previousRelease never leaves one behind.
WaitingJoinNext ==
  [][\A p \in Projects, v \in Versions :
       /\ <<p, Ref, v>> \in DOMAIN track' \ DOMAIN track
       /\ track'[<<p, Ref, v>>] = generatedRelease(track)
       /\ Exists(p, Ref)
       => \A k \in Waiting(track, p) : track'[k] = generatedRelease(track)]_vars

\* What is in REF or production is in the history: no statement changes the
\* version and loses the record, with tables that undo a failed statement
\* (proved, and checked by no run: the runs' tables do not undo).
DeployedIsTracked ==
  \A p \in Projects, t \in {Ref, Prod} :
    Exists(p, t) /\ version[<<p, t>>] # EMPTY
      => <<p, t, version[<<p, t>>]>> \in DOMAIN track

\* A hotfix that is put in production, or that replaces another version in
\* REF, is recorded under the current release, whatever the session remembers
\* (what version 2 of the update trigger was written for). The insert trigger
\* looks no hotfix up (create_trigger_insert_v2.txt:16-32): the first version
\* a project ever has in REF gets the next release, hotfix or not.
HotFixInCurrent ==
  [][\A p \in Projects, t \in {Ref, Prod}, v \in Versions :
       /\ <<p, t, v>> \in DOMAIN track' \ DOMAIN track
       /\ t = Prod \/ Exists(p, t)
       /\ HotFixRows(p, v) # {}
       => track'[<<p, t, v>>] = releaseID(track)]_vars

-----------------------------------------------------------------------------
(* Promises of the documentation that the code does not keep *)

\* A version that is in REF under the month after the last production release
\* of its project goes to production under that month
\* (create_table.txt:54-57). Violated.
ProductionAsPlanned ==
  [][\A p \in Projects, v \in Versions :
       /\ <<p, Prod, v>> \in DOMAIN track' \ DOMAIN track
       /\ <<p, Ref, v>> \in DOMAIN track
       /\ lastProdRelease(track, p) # Null
       /\ track[<<p, Ref, v>>] = NextRelease(lastProdRelease(track, p))
       /\ HotFixRows(p, v) = {}
       => track'[<<p, Prod, v>>] = track[<<p, Ref, v>>]]_vars
=============================================================================
