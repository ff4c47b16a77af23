------------------------- MODULE ReleaseTrack_proofs -------------------------
(***************************************************************************)
(* Theorems about ReleaseTrack: for any projects, versions and sessions, any *)
(* history of statements, with tables that undo a failed statement or not.  *)
(***************************************************************************)
EXTENDS ReleaseTrack, TLAPS

-----------------------------------------------------------------------------
(* Release identifiers *)

\* A release is a year and a month of it, which puts the % and \div of the
\* triggers into linear form.
LEMMA YearAndMonth ==
  ASSUME NEW r, IsRelease(r)
  PROVE  \E y \in Nat, m \in 1..12 :
           /\ r = 100 * y + m
           /\ NextRelease(r) = IF m = 12 THEN 100 * y + 101 ELSE 100 * y + m + 1
<1> DEFINE y == r \div 100
           m == r % 100
<1>1. y \in Nat /\ m \in 1..12 /\ r = 100 * y + m  BY DEF IsRelease
<1>2. NextRelease(r) = IF m = 12 THEN 100 * y + 101 ELSE 100 * y + m + 1
  BY <1>1 DEF NextRelease
<1>3. QED  BY <1>1, <1>2

\* The number made of a year and a month has that year and that month.
LEMMA TakenApart ==
  ASSUME NEW y \in Nat, NEW m \in 1..12
  PROVE  (100 * y + m) % 100 = m /\ (100 * y + m) \div 100 = y
OBVIOUS

\* The month after a release is a release, and later (the IF of the triggers).
LEMMA NextIsRelease ==
  ASSUME NEW r, IsRelease(r)
  PROVE  IsRelease(NextRelease(r)) /\ NextRelease(r) > r
<1>1. PICK y \in Nat, m \in 1..12 :
        /\ r = 100 * y + m
        /\ NextRelease(r) = IF m = 12 THEN 100 * y + 101 ELSE 100 * y + m + 1
  BY YearAndMonth
<1>2. CASE m = 12
  <2>1. NextRelease(r) = 100 * (y + 1) + 1  BY <1>1, <1>2
  <2>2. QED  BY <1>1, <1>2, <2>1, TakenApart DEF IsRelease
<1>3. CASE m # 12
  <2>1. NextRelease(r) = 100 * y + (m + 1) /\ m + 1 \in 1..12  BY <1>1, <1>3
  <2>2. QED  BY <1>1, <2>1, TakenApart DEF IsRelease
<1>4. QED  BY <1>2, <1>3

\* There is no release between a release and the next one.
LEMMA NoneBetween ==
  ASSUME NEW r, NEW q, IsRelease(r), IsRelease(q), q > r
  PROVE  q >= NextRelease(r)
<1>1. PICK y \in Nat, m \in 1..12 :
        /\ r = 100 * y + m
        /\ NextRelease(r) = IF m = 12 THEN 100 * y + 101 ELSE 100 * y + m + 1
  BY YearAndMonth
<1>2. PICK z \in Nat, n \in 1..12 : q = 100 * z + n  BY YearAndMonth
<1>3. QED  BY <1>1, <1>2

\* The month before the next one is this one (sp_check_previous_versions).
LEMMA PreviousOfNext ==
  ASSUME NEW r, IsRelease(r)
  PROVE  PreviousRelease(NextRelease(r)) = r
<1>1. PICK y \in Nat, m \in 1..12 :
        /\ r = 100 * y + m
        /\ NextRelease(r) = IF m = 12 THEN 100 * y + 101 ELSE 100 * y + m + 1
  BY YearAndMonth
<1>2. CASE m = 12
  <2>1. NextRelease(r) = 100 * (y + 1) + 1  BY <1>1, <1>2
  <2>2. NextRelease(r) % 100 = 1 /\ NextRelease(r) \div 100 = y + 1
    BY <2>1, TakenApart
  <2>3. QED  BY <1>1, <1>2, <2>2 DEF PreviousRelease
<1>3. CASE m # 12
  <2>1. NextRelease(r) = 100 * y + (m + 1) /\ m + 1 \in 2..12  BY <1>1, <1>3
  <2>2. NextRelease(r) % 100 = m + 1  BY <2>1, TakenApart
  <2>3. QED  BY <1>1, <2>1, <2>2 DEF PreviousRelease
<1>4. QED  BY <1>2, <1>3

\* SELECT MAX returns the greatest of the rows, when there is one.
LEMMA LatestIsGreatest ==
  ASSUME NEW S, S # {}, HasGreatest(S)
  PROVE  Latest(S) \in S /\ \A q \in S : q <= Latest(S)
<1>1. \E r \in S : \A q \in S : q <= r  BY DEF HasGreatest
<1>2. QED  BY <1>1 DEF Latest

\* A greatest row is what SELECT MAX returns.
LEMMA GreatestIsLatest ==
  ASSUME NEW S \in SUBSET Nat, NEW m \in S, \A q \in S : q <= m
  PROVE  S # {} /\ HasGreatest(S) /\ Latest(S) = m
<1>1. S # {} /\ HasGreatest(S)  BY DEF HasGreatest
<1>2. PICK n \in S : n = Latest(S) /\ \A q \in S : q <= n
  BY <1>1, LatestIsGreatest
<1>3. m <= n /\ n <= m /\ m \in Nat /\ n \in Nat  BY <1>2
<1>4. m = n  BY <1>3
<1>5. QED  BY <1>1, <1>2, <1>4

\* A new row is the greatest, or the greatest stays.
LEMMA GreatestWithNew ==
  ASSUME NEW S \in SUBSET Nat, HasGreatest(S), NEW r \in Nat
  PROVE  /\ HasGreatest(S \union {r})
         /\ S # {} /\ r <= Latest(S) => Latest(S \union {r}) = Latest(S)
         /\ S # {} /\ r > Latest(S) => Latest(S \union {r}) = r
<1> DEFINE T == S \union {r}
<1>1. CASE S = {}
  <2>1. HasGreatest(T)  BY <1>1 DEF HasGreatest
  <2>2. QED  BY <1>1, <2>1
<1>2. CASE S # {}
  <2>1. PICK m \in S : m = Latest(S) /\ \A q \in S : q <= m
    BY <1>2, LatestIsGreatest
  <2>2. CASE r <= m
    <3>1. m \in T /\ \A q \in T : q <= m  BY <2>1, <2>2
    <3>2. HasGreatest(T) /\ Latest(T) = m  BY <3>1, GreatestIsLatest
    <3>3. QED  BY <2>1, <2>2, <3>2
  <2>3. CASE r > m
    <3>1. r \in T /\ \A q \in T : q <= r  BY <2>1, <2>3
    <3>2. HasGreatest(T) /\ Latest(T) = r  BY <3>1, GreatestIsLatest
    <3>3. QED  BY <2>1, <2>3, <3>2
  <2>4. QED  BY <2>1, <2>2, <2>3
<1>3. QED  BY <1>1, <1>2

-----------------------------------------------------------------------------
(* The table releaseTrack under one statement *)

\* The table's part of the inductive invariant: its rows are typed, MAX is
\* defined for production and for every project that is in production, and
\* nothing is beyond the month after the former.
History(tr) ==
  /\ DOMAIN tr \subseteq Keys
  /\ tr \in [DOMAIN tr -> Nat]
  /\ \A k \in DOMAIN tr : IsRelease(tr[k])
  /\ ProdReleases(tr) # {}
  /\ HasGreatest(ProdReleases(tr))
  /\ \A p \in Projects : HasGreatest(ProdReleasesOf(tr, p))
  /\ \A k \in DOMAIN tr : tr[k] <= generatedRelease(tr)

\* MAX(release_id) in production is a release, and the generated one is the
\* release after it.
LEMMA CurrentRelease ==
  ASSUME NEW tr, History(tr)
  PROVE  /\ IsRelease(releaseID(tr)) /\ IsRelease(generatedRelease(tr))
         /\ generatedRelease(tr) > releaseID(tr)
         /\ \A q \in ProdReleases(tr) : q <= releaseID(tr)
<1>1. /\ releaseID(tr) \in ProdReleases(tr)
      /\ \A q \in ProdReleases(tr) : q <= releaseID(tr)
  BY LatestIsGreatest DEF History, releaseID
<1>2. IsRelease(releaseID(tr))  BY <1>1 DEF History, ProdReleases
<1>3. QED  BY <1>1, <1>2, NextIsRelease DEF generatedRelease

\* The last production release of a project is one of its production rows.
LEMMA LastOfProject ==
  ASSUME NEW tr, History(tr), NEW p \in Projects, lastProdRelease(tr, p) # Null
  PROVE  /\ IsRelease(lastProdRelease(tr, p))
         /\ lastProdRelease(tr, p) <= releaseID(tr)
<1>1. ProdReleasesOf(tr, p) # {}  BY DEF lastProdRelease, Latest
<1>2. lastProdRelease(tr, p) \in ProdReleasesOf(tr, p)
  BY <1>1, LatestIsGreatest DEF History, lastProdRelease
<1>3. ProdReleasesOf(tr, p) \subseteq ProdReleases(tr)
  BY DEF ProdReleasesOf, ProdReleases
<1>4. IsRelease(lastProdRelease(tr, p))
  BY <1>2 DEF History, ProdReleasesOf
<1>5. QED  BY <1>2, <1>3, <1>4, CurrentRelease

\* sp_check_previous_versions only moves waiting rows, to the next release.
LEMMA ProcedureMoves ==
  ASSUME NEW tr, History(tr), NEW p \in Projects,
         NEW moved, moved = sp_check_previous_versions(tr, p)
  PROVE  /\ DOMAIN moved = DOMAIN tr
         /\ \A k \in DOMAIN tr :
              \/ moved[k] = tr[k]
              \/ k \in Waiting(tr, p) /\ moved[k] = generatedRelease(tr)
         /\ ProdReleases(moved) = ProdReleases(tr)
         /\ \A q \in Projects : ProdReleasesOf(moved, q) = ProdReleasesOf(tr, q)
         /\ History(moved)
         /\ generatedRelease(moved) = generatedRelease(tr)
<1>1. DOMAIN moved = DOMAIN tr  BY DEF sp_check_previous_versions
<1>2. ASSUME NEW k \in DOMAIN tr
      PROVE  \/ moved[k] = tr[k]
             \/ k \in Waiting(tr, p) /\ moved[k] = generatedRelease(tr)
  BY DEF sp_check_previous_versions
<1>3. \A k \in DOMAIN tr : k[2] = Prod => moved[k] = tr[k]
  BY <1>2 DEF Waiting, Ref, Prod
<1>4. ProdReleases(moved) = ProdReleases(tr)
  BY <1>1, <1>3 DEF ProdReleases
<1>5. \A q \in Projects : ProdReleasesOf(moved, q) = ProdReleasesOf(tr, q)
  BY <1>1, <1>3 DEF ProdReleasesOf
<1>6. generatedRelease(moved) = generatedRelease(tr)
  BY <1>4 DEF generatedRelease, releaseID
<1>7. IsRelease(generatedRelease(tr))  BY CurrentRelease
<1>8. /\ moved \in [DOMAIN moved -> Nat]
      /\ \A k \in DOMAIN moved : IsRelease(moved[k])
      /\ \A k \in DOMAIN moved : moved[k] <= generatedRelease(tr)
  <2>1. ASSUME NEW k \in DOMAIN tr
        PROVE  IsRelease(moved[k]) /\ moved[k] <= generatedRelease(tr)
    BY <1>2, <1>7 DEF History, IsRelease
  <2>2. moved = [k \in DOMAIN moved |-> moved[k]]
    BY DEF sp_check_previous_versions, History
  <2>3. QED  BY <1>1, <2>1, <2>2 DEF IsRelease
<1>9. History(moved)  BY <1>1, <1>4, <1>5, <1>6, <1>8 DEF History
<1>10. QED  BY <1>1, <1>2, <1>4, <1>5, <1>6, <1>9

\* A new row, under no release later than the next one, moves the production
\* at most to that release.
LEMMA RowAdded ==
  ASSUME NEW tr, History(tr), NEW k \in Keys \ DOMAIN tr,
         NEW r \in Nat, IsRelease(r), r <= generatedRelease(tr)
  PROVE  LET new == sp_common_triggers_track(tr, r, k)
         IN /\ History(new)
            /\ releaseID(new) \in {releaseID(tr), generatedRelease(tr)}
            /\ DOMAIN new = DOMAIN tr \union {k}
            /\ new[k] = r
            /\ \A x \in DOMAIN tr : new[x] = tr[x]
<1> DEFINE new == sp_common_triggers_track(tr, r, k)
<1>1. /\ DOMAIN new = DOMAIN tr \union {k} /\ new[k] = r
      /\ \A x \in DOMAIN tr : new[x] = tr[x]
      /\ new = [x \in DOMAIN new |-> new[x]]
  BY DEF sp_common_triggers_track
<1>2. \A x \in DOMAIN new : IsRelease(new[x])  BY <1>1 DEF History
<1>3. DOMAIN new \subseteq Keys /\ new \in [DOMAIN new -> Nat]
  BY <1>1, <1>2 DEF History, IsRelease
<1>4. \A p \in Projects :
        ProdReleasesOf(new, p) =
          IF k[1] = p /\ k[2] = Prod THEN ProdReleasesOf(tr, p) \union {r}
                                     ELSE ProdReleasesOf(tr, p)
  BY <1>1 DEF ProdReleasesOf
<1>5. ProdReleases(new) =
        IF k[2] = Prod THEN ProdReleases(tr) \union {r} ELSE ProdReleases(tr)
  BY <1>1 DEF ProdReleases
<1>6. r \in Nat /\ ProdReleases(tr) \in SUBSET Nat
      /\ \A p \in Projects : ProdReleasesOf(tr, p) \in SUBSET Nat
  BY DEF History, IsRelease, ProdReleases, ProdReleasesOf
<1>7. \A p \in Projects : HasGreatest(ProdReleasesOf(new, p))
  BY <1>4, <1>6, GreatestWithNew DEF History
<1>8. /\ ProdReleases(new) # {} /\ HasGreatest(ProdReleases(new))
      /\ releaseID(new) \in {releaseID(tr), generatedRelease(tr)}
  <2>1. CASE k[2] # Prod  BY <1>5, <2>1 DEF History, releaseID
  <2>2. CASE k[2] = Prod
    <3>1. /\ ProdReleases(new) = ProdReleases(tr) \union {r}
          /\ HasGreatest(ProdReleases(new))
          /\ r <= releaseID(tr) => releaseID(new) = releaseID(tr)
          /\ r > releaseID(tr) => releaseID(new) = r
      BY <1>5, <1>6, <2>2, GreatestWithNew DEF History, releaseID
    <3>2. IsRelease(releaseID(tr)) /\ IsRelease(generatedRelease(tr))
      BY CurrentRelease
    <3>3. r > releaseID(tr) => r >= generatedRelease(tr)
      BY <3>2, NoneBetween DEF generatedRelease
    <3>4. r > releaseID(tr) => r = generatedRelease(tr)
      BY <3>2, <3>3 DEF IsRelease
    <3>5. r <= releaseID(tr) \/ r > releaseID(tr)
      BY <1>6, <3>2 DEF IsRelease
    <3>6. QED  BY <3>1, <3>4, <3>5
  <2>3. QED  BY <2>1, <2>2
<1>9. generatedRelease(new) >= generatedRelease(tr)
  <2>1. IsRelease(generatedRelease(tr))  BY CurrentRelease
  <2>2. NextRelease(generatedRelease(tr)) > generatedRelease(tr)
        /\ IsRelease(NextRelease(generatedRelease(tr)))
    BY <2>1, NextIsRelease
  <2>3. CASE releaseID(new) = releaseID(tr)
    BY <2>1, <2>3 DEF generatedRelease, IsRelease
  <2>4. CASE releaseID(new) = generatedRelease(tr)
    BY <2>1, <2>2, <2>4 DEF generatedRelease, IsRelease
  <2>5. QED  BY <1>8, <2>3, <2>4
<1>10. \A x \in DOMAIN new : new[x] <= generatedRelease(new)
  <2>1. IsRelease(generatedRelease(tr)) /\ generatedRelease(new) \in Nat
    <3>1. IsRelease(generatedRelease(tr)) /\ IsRelease(releaseID(tr))
      BY CurrentRelease
    <3>2. IsRelease(releaseID(new))  BY <1>8, <3>1
    <3>3. QED  BY <3>1, <3>2, NextIsRelease DEF generatedRelease, IsRelease
  <2>2. \A x \in DOMAIN new : new[x] <= generatedRelease(tr) /\ new[x] \in Nat
    BY <1>1, <1>3 DEF History
  <2>3. QED  BY <1>9, <2>1, <2>2 DEF IsRelease
<1>11. QED  BY <1>1, <1>2, <1>3, <1>7, <1>8, <1>10 DEF History

\* What one statement does to the table: the procedure runs for a project or it
\* does not, and a row of that project is added or the statement has failed.
Statement(tr, new) ==
  \E p \in Projects : \E moved \in {tr, sp_check_previous_versions(tr, p)} :
    \/ new = moved
    \/ \E k \in Keys \ DOMAIN tr, r \in Nat :
         /\ IsRelease(r) /\ r <= generatedRelease(tr)
         /\ new = sp_common_triggers_track(moved, r, k)

\* A statement keeps the invariant and the history, and production advances by
\* a month at most.
LEMMA StatementKeepsHistory ==
  ASSUME NEW tr, History(tr), NEW new, Statement(tr, new)
  PROVE  /\ History(new)
         /\ releaseID(new) \in {releaseID(tr), generatedRelease(tr)}
         /\ \A k \in DOMAIN tr :
              /\ k \in DOMAIN new
              /\ new[k] >= tr[k]
              /\ new[k] = tr[k] \/ \E p \in Projects : k \in Waiting(tr, p)
<1>0. PICK p \in Projects : \E moved \in {tr, sp_check_previous_versions(tr, p)} :
        \/ new = moved
        \/ \E k \in Keys \ DOMAIN tr, r \in Nat :
             /\ IsRelease(r) /\ r <= generatedRelease(tr)
             /\ new = sp_common_triggers_track(moved, r, k)
  BY DEF Statement
<1>1. PICK moved \in {tr, sp_check_previous_versions(tr, p)} :
        \/ new = moved
        \/ \E k \in Keys \ DOMAIN tr, r \in Nat :
             /\ IsRelease(r) /\ r <= generatedRelease(tr)
             /\ new = sp_common_triggers_track(moved, r, k)
  BY <1>0
<1>2. /\ History(moved) /\ DOMAIN moved = DOMAIN tr
      /\ generatedRelease(moved) = generatedRelease(tr)
      /\ ProdReleases(moved) = ProdReleases(tr)
      /\ \A k \in DOMAIN tr :
           \/ moved[k] = tr[k]
           \/ k \in Waiting(tr, p) /\ moved[k] = generatedRelease(tr)
  <2>1. CASE moved = tr  BY <2>1
  <2>2. CASE moved = sp_check_previous_versions(tr, p)
    BY <2>2, ProcedureMoves
  <2>3. QED  BY <2>1, <2>2
<1>3. releaseID(moved) = releaseID(tr)  BY <1>2 DEF releaseID
<1>4. /\ History(new)
      /\ releaseID(new) \in {releaseID(tr), generatedRelease(tr)}
      /\ \A k \in DOMAIN tr : k \in DOMAIN new /\ new[k] = moved[k]
  <2>1. CASE new = moved  BY <1>2, <1>3, <2>1
  <2>2. CASE \E k \in Keys \ DOMAIN tr, r \in Nat :
               /\ IsRelease(r) /\ r <= generatedRelease(tr)
               /\ new = sp_common_triggers_track(moved, r, k)
    <3>1. PICK k \in Keys \ DOMAIN tr, r \in Nat :
            /\ IsRelease(r) /\ r <= generatedRelease(tr)
            /\ new = sp_common_triggers_track(moved, r, k)
      BY <2>2
    <3>2. /\ History(moved) /\ k \in Keys \ DOMAIN moved
          /\ IsRelease(r) /\ r <= generatedRelease(moved)
          /\ new = sp_common_triggers_track(moved, r, k)
      BY <1>2, <3>1
    <3>3. /\ History(new)
          /\ releaseID(new) \in {releaseID(moved), generatedRelease(moved)}
          /\ DOMAIN new = DOMAIN moved \union {k}
          /\ \A x \in DOMAIN moved : new[x] = moved[x]
      BY <3>2, RowAdded
    <3>4. QED  BY <1>2, <1>3, <3>3
  <2>3. QED  BY <1>1, <2>1, <2>2
<1>5. \A k \in DOMAIN tr : moved[k] >= tr[k]
  <2>1. \A k \in DOMAIN tr : tr[k] \in Nat /\ tr[k] <= generatedRelease(tr)
    BY DEF History
  <2>2. generatedRelease(tr) \in Nat  BY CurrentRelease DEF IsRelease
  <2>3. QED  BY <1>2, <2>1, <2>2
<1>6. QED  BY <1>2, <1>4, <1>5

-----------------------------------------------------------------------------
(* The inductive invariant *)

\* @nextRelease, which may be left over, was a release of the table once.
SessionsBehind ==
  \A s \in Sessions :
    session[s].nextRelease # Null =>
      /\ IsRelease(session[s].nextRelease)
      /\ session[s].nextRelease <= generatedRelease(track)

IInv == TypeOK /\ History(track) /\ SessionsBehind

\* The table as it is populated satisfies the invariant.
LEMMA InitiallyIInv == Init => IInv
<1> SUFFICES ASSUME Init PROVE IInv  OBVIOUS
<1>1. /\ IsRelease(releaseID(Populated))
      /\ \A k \in DOMAIN Populated : Populated[k] <= releaseID(Populated)
  <2>1. releaseID(Populated) \in ProdReleases(Populated)
    BY PopulatedAssumption, LatestIsGreatest DEF releaseID
  <2>2. QED  BY <2>1, PopulatedAssumption DEF ProdReleases
<1>2. /\ generatedRelease(Populated) > releaseID(Populated)
      /\ IsRelease(generatedRelease(Populated))
  BY <1>1, NextIsRelease DEF generatedRelease
<1>3. \A k \in DOMAIN Populated : Populated[k] <= generatedRelease(Populated)
  BY <1>1, <1>2, PopulatedAssumption DEF IsRelease
<1>4. History(track)  BY <1>3, PopulatedAssumption DEF Init, History
<1>5. TypeOK
  BY <1>4, InstalledAssumption
  DEF Init, TypeOK, History, Variables, NewSession
<1>6. SessionsBehind  BY DEF Init, SessionsBehind, NewSession
<1>7. QED  BY <1>4, <1>5, <1>6 DEF IInv

\* A row of version that is written keeps the type of the table.
LEMMA WithVersionTyped ==
  ASSUME TypeOK, NEW p \in Projects, NEW t \in Types,
         NEW v \in Versions \union {EMPTY}
  PROVE  /\ DOMAIN WithVersion(p, t, v) \subseteq Rows
         /\ WithVersion(p, t, v) \in
              [DOMAIN WithVersion(p, t, v) -> Versions \union {EMPTY}]
  BY DEF TypeOK, WithVersion, Rows

\* The end of every trigger is a statement of the kind above, when the release
\* it passes on is NULL or no later than the next one.
LEMMA TrackIsStatement ==
  ASSUME IInv, NEW p \in Projects, NEW t \in Types, NEW v \in Versions,
         NEW moved \in {track, sp_check_previous_versions(track, p)},
         NEW r, r # Null => IsRelease(r) /\ r <= generatedRelease(track),
         Track(p, t, v, moved, r)
  PROVE  /\ Statement(track, track')
         /\ DOMAIN version' \subseteq Rows
         /\ version' \in [DOMAIN version' -> Versions \union {EMPTY}]
<1>1. DOMAIN moved = DOMAIN track  BY ProcedureMoves DEF IInv
<1>2. <<p, t, v>> \in Keys  BY DEF Keys
<1>3. /\ DOMAIN version' \subseteq Rows
      /\ version' \in [DOMAIN version' -> Versions \union {EMPTY}]
  <2>1. version' = version \/ version' = WithVersion(p, t, v)  BY DEF Track
  <2>2. QED  BY <2>1, WithVersionTyped DEF IInv, TypeOK
<1>4. Statement(track, track')
  <2>1. CASE Accepts(moved, r, <<p, t, v>>)
    <3>1. track' = sp_common_triggers_track(moved, r, <<p, t, v>>)
      BY <2>1 DEF Track
    <3>2. <<p, t, v>> \in Keys \ DOMAIN track /\ r \in Nat
      BY <1>1, <1>2, <2>1 DEF Accepts, IsRelease
    <3>3. IsRelease(r) /\ r <= generatedRelease(track)  BY <2>1 DEF Accepts
    <3>4. QED  BY <3>1, <3>2, <3>3 DEF Statement
  <2>2. CASE ~Accepts(moved, r, <<p, t, v>>)
    <3>1. track' \in {track, moved}  BY <2>2 DEF Track
    <3>2. QED  BY <3>1 DEF Statement
  <2>3. QED  BY <2>1, <2>2
<1>5. QED  BY <1>3, <1>4

\* The hotfix look-up gives NULL or a release.
LEMMA HotFixReleaseTyped ==
  ASSUME IInv, NEW s \in Sessions, NEW p \in Projects, NEW v \in Versions
  PROVE  HotFixRelease(s, p, v) \in Nat \union {Null}
<1>1. HotFixRows(p, v) \subseteq DOMAIN track  BY DEF HotFixRows
<1>2. CASE HotFixRows(p, v) = {}
  BY <1>2 DEF HotFixRelease, IInv, TypeOK, Variables
<1>3. CASE HotFixRows(p, v) # {}
  BY <1>1, <1>3 DEF HotFixRelease, IInv, TypeOK
<1>4. QED  BY <1>2, <1>3

\* What a step may do: one statement (or none) on the table, and the session
\* variables get releases that are in the table then.
StepOK ==
  /\ Statement(track, track')
  /\ DOMAIN version' \subseteq Rows
  /\ version' \in [DOMAIN version' -> Versions \union {EMPTY}]
  /\ session' \in [Sessions -> Variables]
  /\ \A s \in Sessions :
       session'[s].nextRelease # Null =>
         /\ IsRelease(session'[s].nextRelease)
         /\ session'[s].nextRelease <= generatedRelease(track)

\* A statement that the trigger does not track, or no statement at all.
LEMMA Untouched ==
  ASSUME NEW p \in Projects, track' = track
  PROVE  Statement(track, track')
BY DEF Statement

\* Every action is such a step.
LEMMA EveryStep ==
  ASSUME IInv, [Next]_vars, Projects # {}
  PROVE  StepOK
<1> PICK p0 \in Projects : TRUE  OBVIOUS
<1> USE DEF IInv
<1>1. /\ IsRelease(releaseID(track)) /\ releaseID(track) <= generatedRelease(track)
      /\ IsRelease(generatedRelease(track))
      /\ generatedRelease(track) <= generatedRelease(track)
      /\ releaseID(track) # Null /\ generatedRelease(track) # Null
  BY CurrentRelease, NullAssumption DEF IsRelease
<1>2. /\ session \in [Sessions -> Variables]
      /\ \A s \in Sessions :
           session[s].nextRelease # Null =>
             /\ IsRelease(session[s].nextRelease)
             /\ session[s].nextRelease <= generatedRelease(track)
  BY DEF TypeOK, SessionsBehind
<1>3. ASSUME NEW p \in Projects, NEW v \in Versions, InsertRef(p, v)
      PROVE  StepOK
  BY <1>1, <1>2, <1>3, TrackIsStatement DEF InsertRef, StepOK, Types
<1>4. ASSUME NEW p \in Projects, NEW v \in Versions, InsertProd(p, v)
      PROVE  StepOK
  BY <1>1, <1>2, <1>4, TrackIsStatement DEF InsertProd, StepOK, Types
<1>5. ASSUME NEW p \in Projects, NEW t \in Types, NEW v \in Versions \union {EMPTY},
             InsertOther(p, t, v) \/ UpdateOther(p, t, v)
      PROVE  StepOK
  BY <1>2, <1>5, WithVersionTyped, Untouched
  DEF InsertOther, UpdateOther, StepOK
<1>6. ASSUME NEW p \in Projects, NEW t \in HotFixes, NEW v \in Versions,
             UpdateHotFix(p, t, v)
      PROVE  StepOK
  BY <1>1, <1>2, <1>6, TrackIsStatement DEF UpdateHotFix, StepOK, Types
<1>7. ASSUME NEW s \in Sessions, NEW p \in Projects, NEW v \in Versions,
             UpdateRef(s, p, v)
      PROVE  StepOK
  BY <1>1, <1>2, <1>7, TrackIsStatement DEF UpdateRef, StepOK, Types
<1>8. ASSUME NEW s \in Sessions, NEW p \in Projects, NEW v \in Versions,
             UpdateProd(s, p, v)
      PROVE  StepOK
  <2> DEFINE moved == sp_check_previous_versions(track, p)
             next == IF <<p, Ref, v>> \in DOMAIN moved
                       THEN moved[<<p, Ref, v>>]
                       ELSE session[s].nextRelease
  <2>1. Track(p, Prod, v, moved, next)
        /\ session' = [session EXCEPT ![s].nextRelease = next]
    BY <1>8 DEF UpdateProd
  <2>2. History(moved) /\ generatedRelease(moved) = generatedRelease(track)
    BY ProcedureMoves
  <2>3. next # Null => IsRelease(next) /\ next <= generatedRelease(track)
    BY <1>2, <2>2 DEF History
  <2>4. next \in Nat \union {Null}  BY <2>3 DEF IsRelease
  <2>5. Prod \in Types  BY DEF Types
  <2>6. /\ Statement(track, track')
        /\ DOMAIN version' \subseteq Rows
        /\ version' \in [DOMAIN version' -> Versions \union {EMPTY}]
    BY <2>1, <2>3, <2>5, TrackIsStatement
  <2>7. /\ session' \in [Sessions -> Variables]
        /\ \A q \in Sessions :
             session'[q].nextRelease =
               IF q = s THEN next ELSE session[q].nextRelease
    BY <1>2, <2>1, <2>4 DEF Variables
  <2>8. QED  BY <1>2, <2>3, <2>6, <2>7 DEF StepOK
<1>9. ASSUME NEW s \in Sessions, NEW p \in Projects, NEW t \in {Ref, Prod},
             NEW v \in Versions, UpdateFixed(s, p, t, v)
      PROVE  StepOK
  <2>1. t \in Types  BY DEF Types
  <2>2. HotFixRelease(s, p, v) \in Nat \union {Null}  BY HotFixReleaseTyped
  <2>3. /\ session' \in [Sessions -> Variables]
        /\ \A q \in Sessions : session'[q].nextRelease = session[q].nextRelease
    BY <1>2, <1>9, <2>2 DEF UpdateFixed, Variables
  <2>4. /\ Statement(track, track')
        /\ DOMAIN version' \subseteq Rows
        /\ version' \in [DOMAIN version' -> Versions \union {EMPTY}]
    BY <1>1, <1>9, <2>1, TrackIsStatement DEF UpdateFixed
  <2>5. QED  BY <1>2, <2>3, <2>4 DEF StepOK
<1>10. ASSUME NEW s \in Sessions, NEW p \in Projects, NEW t \in {Ref, Prod},
              NEW v \in Versions, TooManyRows(s, p, t, v)
       PROVE  StepOK
  <2>1. PICK k \in HotFixRows(p, v) :
          session' = [session EXCEPT ![s].releaseHotfixSpecific = track[k]]
    BY <1>10 DEF TooManyRows
  <2>2. track[k] \in Nat  BY <2>1 DEF HotFixRows, TypeOK
  <2>3. /\ session' \in [Sessions -> Variables]
        /\ \A q \in Sessions : session'[q].nextRelease = session[q].nextRelease
    BY <1>2, <2>1, <2>2 DEF Variables
  <2>4. /\ DOMAIN version' \subseteq Rows
        /\ version' \in [DOMAIN version' -> Versions \union {EMPTY}]
    <3>1. version' = version \/ version' = WithVersion(p, t, v)
      BY <1>10 DEF TooManyRows
    <3>2. t \in Types  BY DEF Types
    <3>3. QED  BY <3>1, <3>2, WithVersionTyped DEF TypeOK
  <2>5. Statement(track, track')  BY <1>10, Untouched DEF TooManyRows
  <2>6. QED  BY <1>2, <2>3, <2>4, <2>5 DEF StepOK
<1>11. ASSUME NEW s \in Sessions, Connect(s)
       PROVE  StepOK
  <2>1. /\ session' \in [Sessions -> Variables]
        /\ \A q \in Sessions :
             session'[q].nextRelease \in {Null, session[q].nextRelease}
    BY <1>2, <1>11 DEF Connect, NewSession, Variables
  <2>2. QED  BY <1>2, <1>11, <2>1, Untouched DEF Connect, StepOK, TypeOK
<1>12. CASE UNCHANGED vars
  BY <1>2, <1>12, Untouched DEF vars, StepOK, TypeOK
<1>13. QED
  BY <1>3, <1>4, <1>5, <1>6, <1>7, <1>8, <1>9, <1>10, <1>11, <1>12 DEF Next

\* The table is populated, so there is a project.
LEMMA SomeProject == Projects # {}
<1>1. \E k \in DOMAIN Populated : TRUE
  BY PopulatedAssumption DEF ProdReleases
<1>2. QED  BY <1>1, PopulatedAssumption DEF Keys

\* The invariant is inductive.
LEMMA NextKeepsIInv == IInv /\ [Next]_vars => IInv'
<1> SUFFICES ASSUME IInv, [Next]_vars PROVE IInv'  OBVIOUS
<1>1. StepOK  BY EveryStep, SomeProject
<1>2. /\ History(track')
      /\ releaseID(track') \in {releaseID(track), generatedRelease(track)}
  BY <1>1, StatementKeepsHistory DEF IInv, StepOK
<1>3. TypeOK'  BY <1>1, <1>2 DEF StepOK, TypeOK, History
<1>4. generatedRelease(track') >= generatedRelease(track)
  <2>1. /\ IsRelease(generatedRelease(track))
        /\ generatedRelease(track) \in Nat
    BY CurrentRelease DEF IInv, IsRelease
  <2>2. /\ IsRelease(NextRelease(generatedRelease(track)))
        /\ NextRelease(generatedRelease(track)) > generatedRelease(track)
    BY <2>1, NextIsRelease
  <2>3. CASE releaseID(track') = releaseID(track)
    BY <2>1, <2>3 DEF generatedRelease
  <2>4. CASE releaseID(track') = generatedRelease(track)
    BY <2>1, <2>2, <2>4 DEF generatedRelease, IsRelease
  <2>5. QED  BY <1>2, <2>3, <2>4
<1>5. generatedRelease(track) \in Nat /\ generatedRelease(track') \in Nat
  BY <1>2, CurrentRelease DEF IInv, IsRelease
<1>6. SessionsBehind'
  BY <1>1, <1>4, <1>5 DEF StepOK, SessionsBehind, IsRelease
<1>7. QED  BY <1>2, <1>3, <1>6 DEF IInv

\* Every state satisfies the invariant.
LEMMA AlwaysIInv == Spec => []IInv
<1>1. Init => IInv  BY InitiallyIInv
<1>2. IInv /\ [Next]_vars => IInv'  BY NextKeepsIInv
<1>3. QED  BY <1>1, <1>2, PTL DEF Spec

-----------------------------------------------------------------------------
(* Theorems *)

\* The two tables and the session variables keep their types: no row of
\* releaseTrack without a release or under a foreign key.
THEOREM TypeCorrect == Spec => []TypeOK
<1>1. IInv => TypeOK  BY DEF IInv
<1>2. QED  BY <1>1, AlwaysIInv, PTL

\* Every release_id is a month of a year, from the population of the table on,
\* across every end of a year.
THEOREM MonthsOfYears == Spec => []ReleasesAreMonths
<1>1. IInv => ReleasesAreMonths  BY DEF IInv, History, ReleasesAreMonths
<1>2. QED  BY <1>1, AlwaysIInv, PTL

\* Nothing is planned beyond the month after the last production release, left
\* over session variables included.
THEOREM NothingPlannedAhead == Spec => []NothingBeyondNext
<1>1. IInv => NothingBeyondNext  BY DEF IInv, History, NothingBeyondNext
<1>2. QED  BY <1>1, AlwaysIInv, PTL

\* MAX(release_id) in production stays or advances by one month, at every
\* statement of any session.
THEOREM MonthByMonth == Spec => ProductionAdvancesByMonths
<1>1. IInv /\ [Next]_vars
        => [releaseID(track') \in {releaseID(track), generatedRelease(track)}]_vars
  BY EveryStep, SomeProject, StatementKeepsHistory DEF IInv, StepOK
<1>2. QED  BY <1>1, AlwaysIInv, PTL DEF Spec, ProductionAdvancesByMonths

\* No row is lost, none goes back to an earlier release, and only REF rows later
\* than what their project has in production move.
THEOREM HistoryIsKept == Spec => HistoryKept
<1> DEFINE Kept ==
      \A k \in DOMAIN track :
        /\ k \in DOMAIN track'
        /\ track'[k] >= track[k]
        /\ \/ track'[k] = track[k]
           \/ /\ k[2] = Ref
              /\ lastProdRelease(track, k[1]) # Null
              /\ track[k] > lastProdRelease(track, k[1])
<1>1. ASSUME IInv, [Next]_vars PROVE Kept
  <2>1. \A k \in DOMAIN track :
          /\ k \in DOMAIN track'
          /\ track'[k] >= track[k]
          /\ track'[k] = track[k] \/ \E p \in Projects : k \in Waiting(track, p)
    BY <1>1, EveryStep, SomeProject, StatementKeepsHistory DEF IInv, StepOK
  <2>2. QED  BY <2>1 DEF Waiting
<1>2. IInv /\ [Next]_vars => [Kept]_vars  BY <1>1
<1>3. QED  BY <1>2, AlwaysIInv, PTL DEF Spec, HistoryKept

\* The row a trigger adds is the one of its statement, under the release it
\* passes on.
LEMMA AddedRow ==
  ASSUME NEW p, NEW t, NEW v, NEW moved, DOMAIN moved = DOMAIN track, NEW r,
         Track(p, t, v, moved, r),
         NEW k \in DOMAIN track' \ DOMAIN track
  PROVE  /\ k = <<p, t, v>> /\ track'[k] = r
         /\ \A x \in DOMAIN track : track'[x] = moved[x]
<1>1. CASE Accepts(moved, r, <<p, t, v>>)
  <2>1. track' = sp_common_triggers_track(moved, r, <<p, t, v>>)
    BY <1>1 DEF Track
  <2>2. QED  BY <1>1, <2>1 DEF sp_common_triggers_track, Accepts
<1>2. CASE ~Accepts(moved, r, <<p, t, v>>)
  BY <1>2 DEF Track
<1>3. QED  BY <1>1, <1>2

\* The comparison in sp_check_previous_versions: when the project is not behind,
\* what waits is already under the next release.
LEMMA NoneLeftBehind ==
  ASSUME IInv, NEW p \in Projects, NEW k \in Waiting(track, p)
  PROVE  sp_check_previous_versions(track, p)[k] = generatedRelease(track)
<1>1. /\ k \in DOMAIN track /\ lastProdRelease(track, p) # Null
      /\ track[k] > lastProdRelease(track, p)
  BY DEF Waiting
<1>2. CASE IsBehind(track, p)
  BY <1>1, <1>2 DEF sp_check_previous_versions
<1>3. CASE ~IsBehind(track, p)
  <2>1. IsRelease(releaseID(track)) /\ IsRelease(generatedRelease(track))
    BY CurrentRelease DEF IInv
  <2>2. PreviousRelease(generatedRelease(track)) = releaseID(track)
    BY <2>1, PreviousOfNext DEF generatedRelease
  <2>3. IsRelease(lastProdRelease(track, p))
    BY <1>1, LastOfProject DEF IInv
  <2>4. lastProdRelease(track, p) >= releaseID(track)
    BY <1>1, <1>3, <2>1, <2>2, <2>3 DEF IsBehind, IsRelease
  <2>5. IsRelease(track[k]) /\ track[k] <= generatedRelease(track)
    BY <1>1 DEF IInv, History
  <2>6. track[k] > releaseID(track)
    BY <1>1, <2>1, <2>3, <2>4, <2>5 DEF IsRelease
  <2>7. track[k] >= generatedRelease(track)
    BY <2>1, <2>5, <2>6, NoneBetween DEF generatedRelease
  <2>8. track[k] = generatedRelease(track)
    BY <2>1, <2>5, <2>7 DEF IsRelease
  <2>9. QED  BY <1>1, <1>3, <2>8 DEF sp_check_previous_versions
<1>4. QED  BY <1>2, <1>3

\* A version planned for the next release takes along all REF versions of its
\* project that did not reach production.
THEOREM WaitingVersionsJoin == Spec => WaitingJoinNext
<1> DEFINE Joined(p, v) ==
      /\ <<p, Ref, v>> \in DOMAIN track' \ DOMAIN track
      /\ track'[<<p, Ref, v>>] = generatedRelease(track)
      /\ Exists(p, Ref)
      => \A k \in Waiting(track, p) : track'[k] = generatedRelease(track)
<1>1. ASSUME IInv, [Next]_vars, NEW p \in Projects, NEW v \in Versions
      PROVE  Joined(p, v)
  <2> SUFFICES ASSUME <<p, Ref, v>> \in DOMAIN track' \ DOMAIN track,
                      track'[<<p, Ref, v>>] = generatedRelease(track),
                      Exists(p, Ref),
                      NEW k \in Waiting(track, p)
               PROVE  track'[k] = generatedRelease(track)
    OBVIOUS
  <2>1. ASSUME NEW q \in Projects, NEW w \in Versions,
               InsertRef(q, w) \/ InsertProd(q, w)
        PROVE  FALSE
    BY <2>1, AddedRow DEF InsertRef, InsertProd, Exists, Ref, Prod
  <2>2. ASSUME NEW q \in Projects, NEW t \in HotFixes, NEW w \in Versions,
               UpdateHotFix(q, t, w)
        PROVE  FALSE
    BY <2>2, AddedRow DEF UpdateHotFix, Ref, HotFixes
  <2>3. ASSUME NEW s \in Sessions, NEW q \in Projects, NEW w \in Versions,
               UpdateRef(s, q, w)
        PROVE  track'[k] = generatedRelease(track)
    <3> DEFINE moved == sp_check_previous_versions(track, q)
    <3>1. DOMAIN moved = DOMAIN track  BY <1>1, ProcedureMoves DEF IInv
    <3>2. Track(q, Ref, w, moved, generatedRelease(track))
      BY <2>3 DEF UpdateRef
    <3>3. /\ <<p, Ref, v>> = <<q, Ref, w>>
          /\ \A x \in DOMAIN track : track'[x] = moved[x]
      <4> HIDE DEF moved
      <4> QED  BY <3>1, <3>2, AddedRow
    <3>4. p = q  BY <3>3
    <3>5. moved[k] = generatedRelease(track)
      BY <1>1, <3>4, NoneLeftBehind
    <3>6. QED  BY <3>3, <3>5 DEF Waiting
  <2>4. ASSUME NEW s \in Sessions, NEW q \in Projects, NEW w \in Versions,
               UpdateProd(s, q, w)
        PROVE  FALSE
    <3> DEFINE moved == sp_check_previous_versions(track, q)
               next == IF <<q, Ref, w>> \in DOMAIN moved
                         THEN moved[<<q, Ref, w>>]
                         ELSE session[s].nextRelease
    <3>1. DOMAIN moved = DOMAIN track  BY <1>1, ProcedureMoves DEF IInv
    <3>2. Track(q, Prod, w, moved, next)  BY <2>4 DEF UpdateProd
    <3>3. <<p, Ref, v>> = <<q, Prod, w>>  BY <3>1, <3>2, AddedRow
    <3>4. QED  BY <3>3 DEF Ref, Prod
  <2>5. ASSUME NEW s \in Sessions, NEW q \in Projects, NEW t \in {Ref, Prod},
               NEW w \in Versions, UpdateFixed(s, q, t, w)
        PROVE  FALSE
    <3>1. track'[<<p, Ref, v>>] = releaseID(track)
      BY <2>5, AddedRow DEF UpdateFixed
    <3>2. /\ releaseID(track) \in Nat
          /\ generatedRelease(track) > releaseID(track)
      BY <1>1, CurrentRelease DEF IInv, IsRelease
    <3>3. QED  BY <3>1, <3>2
  <2>6. ASSUME track' = track
        PROVE  FALSE
    BY <2>6
  <2>7. QED
    BY <1>1, <2>1, <2>2, <2>3, <2>4, <2>5, <2>6
    DEF Next, vars, InsertOther, UpdateOther, TooManyRows, Connect
<1>2. IInv /\ [Next]_vars
        => [\A p \in Projects, v \in Versions : Joined(p, v)]_vars
  BY <1>1
<1>3. QED  BY <1>2, AlwaysIInv, PTL DEF Spec, WaitingJoinNext

\* A hotfix that is put in production, or that replaces another version in REF,
\* gets the current release: the statements of the update trigger that pass on
\* another one need the look-up to have found no hotfix, and the insert trigger,
\* which looks none up, gives another one to the first version in REF only.
THEOREM HotFixesAreCurrent == Spec => HotFixInCurrent
<1> DEFINE Current(p, t, v) ==
      /\ <<p, t, v>> \in DOMAIN track' \ DOMAIN track
      /\ t = Prod \/ Exists(p, t)
      /\ HotFixRows(p, v) # {}
      => track'[<<p, t, v>>] = releaseID(track)
<1>1. ASSUME IInv, [Next]_vars, NEW p \in Projects, NEW t \in {Ref, Prod},
             NEW v \in Versions
      PROVE  Current(p, t, v)
  <2> SUFFICES ASSUME <<p, t, v>> \in DOMAIN track' \ DOMAIN track,
                      t = Prod \/ Exists(p, t), HotFixRows(p, v) # {}
               PROVE  track'[<<p, t, v>>] = releaseID(track)
    OBVIOUS
  <2>1. ASSUME NEW s \in Sessions PROVE HotFixRelease(s, p, v) # Null
    <3>1. \A k \in HotFixRows(p, v) : track[k] \in Nat
      BY <1>1 DEF HotFixRows, IInv, TypeOK
    <3>2. HotFixRelease(s, p, v) \in Nat  BY <3>1 DEF HotFixRelease
    <3>3. QED  BY <3>2, NullAssumption
  <2>2. ASSUME NEW q \in Projects, NEW w \in Versions,
               InsertRef(q, w) \/ InsertProd(q, w)
        PROVE  track'[<<p, t, v>>] = releaseID(track)
    <3>1. CASE InsertRef(q, w)
      BY <3>1, AddedRow DEF InsertRef, Exists, Ref, Prod
    <3>2. CASE InsertProd(q, w)
      BY <3>2, AddedRow DEF InsertProd
    <3>3. QED  BY <2>2, <3>1, <3>2
  <2>3. ASSUME NEW q \in Projects, NEW u \in HotFixes, NEW w \in Versions,
               UpdateHotFix(q, u, w)
        PROVE  track'[<<p, t, v>>] = releaseID(track)
    BY <2>3, AddedRow DEF UpdateHotFix
  <2>4. ASSUME NEW s \in Sessions, NEW q \in Projects, NEW w \in Versions,
               UpdateRef(s, q, w)
        PROVE  FALSE
    <3> DEFINE moved == sp_check_previous_versions(track, q)
    <3>1. DOMAIN moved = DOMAIN track  BY <1>1, ProcedureMoves DEF IInv
    <3>2. Track(q, Ref, w, moved, generatedRelease(track))
      BY <2>4 DEF UpdateRef
    <3>3. <<p, t, v>> = <<q, Ref, w>>
      <4> HIDE DEF moved
      <4> QED  BY <3>1, <3>2, AddedRow
    <3>4. HotFixRelease(s, p, v) = Null  BY <2>4, <3>3 DEF UpdateRef
    <3>5. QED  BY <2>1, <3>4
  <2>5. ASSUME NEW s \in Sessions, NEW q \in Projects, NEW w \in Versions,
               UpdateProd(s, q, w)
        PROVE  FALSE
    <3> DEFINE moved == sp_check_previous_versions(track, q)
               next == IF <<q, Ref, w>> \in DOMAIN moved
                         THEN moved[<<q, Ref, w>>]
                         ELSE session[s].nextRelease
    <3>1. DOMAIN moved = DOMAIN track  BY <1>1, ProcedureMoves DEF IInv
    <3>2. Track(q, Prod, w, moved, next)  BY <2>5 DEF UpdateProd
    <3>3. <<p, t, v>> = <<q, Prod, w>>
      <4> HIDE DEF moved, next
      <4> QED  BY <3>1, <3>2, AddedRow
    <3>4. HotFixRelease(s, p, v) = Null  BY <2>5, <3>3 DEF UpdateProd
    <3>5. QED  BY <2>1, <3>4
  <2>6. ASSUME NEW s \in Sessions, NEW q \in Projects, NEW u \in {Ref, Prod},
               NEW w \in Versions, UpdateFixed(s, q, u, w)
        PROVE  track'[<<p, t, v>>] = releaseID(track)
    BY <2>6, AddedRow DEF UpdateFixed
  <2>7. ASSUME track' = track
        PROVE  FALSE
    BY <2>7
  <2>8. QED
    BY <1>1, <2>2, <2>3, <2>4, <2>5, <2>6, <2>7
    DEF Next, vars, InsertOther, UpdateOther, TooManyRows, Connect
<1>2. IInv /\ [Next]_vars
        => [\A p \in Projects, t \in {Ref, Prod}, v \in Versions :
              Current(p, t, v)]_vars
  BY <1>1
<1>3. QED  BY <1>2, AlwaysIInv, PTL DEF Spec, HotFixInCurrent

\* No session remembers a hotfix from an earlier statement.
NoneRemembers == \A s \in Sessions : session[s].releaseHotfixSpecific = Null

\* The row version v of project p gets for production is that of its REF row,
\* as the statement leaves it.
ReleasedWithRef(p, v) ==
  /\ <<p, Prod, v>> \in DOMAIN track' \ DOMAIN track
  /\ <<p, Ref, v>> \in DOMAIN track
  /\ Exists(p, Prod)
  /\ HotFixRows(p, v) = {}
  /\ NoneRemembers
  => /\ track'[<<p, Prod, v>>] = track'[<<p, Ref, v>>]
     /\ ~IsBehind(track, p) => track'[<<p, Prod, v>>] = track[<<p, Ref, v>>]

\* What ProductionAsPlanned lacks: while no session remembers a hotfix, a
\* version that replaces one in production is released under the month of its
\* REF row, which is the month it was planned for unless the project was behind
\* and the procedure has just moved the row.
THEOREM ReleasedAsPlanned ==
  Spec => [][\A p \in Projects, v \in Versions : ReleasedWithRef(p, v)]_vars
<1>1. ASSUME IInv, [Next]_vars, NEW p \in Projects, NEW v \in Versions
      PROVE  ReleasedWithRef(p, v)
  <2> SUFFICES ASSUME <<p, Prod, v>> \in DOMAIN track' \ DOMAIN track,
                      <<p, Ref, v>> \in DOMAIN track,
                      Exists(p, Prod), HotFixRows(p, v) = {}, NoneRemembers
               PROVE  /\ track'[<<p, Prod, v>>] = track'[<<p, Ref, v>>]
                      /\ ~IsBehind(track, p)
                           => track'[<<p, Prod, v>>] = track[<<p, Ref, v>>]
    BY DEF ReleasedWithRef
  <2>1. ASSUME NEW s \in Sessions PROVE HotFixRelease(s, p, v) = Null
    BY DEF HotFixRelease, NoneRemembers
  <2>2. ASSUME NEW q \in Projects, NEW w \in Versions,
               InsertRef(q, w) \/ InsertProd(q, w)
        PROVE  FALSE
    BY <2>2, AddedRow DEF InsertRef, InsertProd, Exists, Ref, Prod
  <2>3. ASSUME NEW q \in Projects, NEW u \in HotFixes, NEW w \in Versions,
               UpdateHotFix(q, u, w)
        PROVE  FALSE
    BY <2>3, AddedRow DEF UpdateHotFix, Prod, HotFixes
  <2>4. ASSUME NEW s \in Sessions, NEW q \in Projects, NEW w \in Versions,
               UpdateRef(s, q, w)
        PROVE  FALSE
    <3> DEFINE moved == sp_check_previous_versions(track, q)
    <3>1. DOMAIN moved = DOMAIN track  BY <1>1, ProcedureMoves DEF IInv
    <3>2. Track(q, Ref, w, moved, generatedRelease(track))
      BY <2>4 DEF UpdateRef
    <3>3. <<p, Prod, v>> = <<q, Ref, w>>
      <4> HIDE DEF moved
      <4> QED  BY <3>1, <3>2, AddedRow
    <3>4. QED  BY <3>3 DEF Ref, Prod
  <2>5. ASSUME NEW s \in Sessions, NEW q \in Projects, NEW w \in Versions,
               UpdateProd(s, q, w)
        PROVE  /\ track'[<<p, Prod, v>>] = track'[<<p, Ref, v>>]
               /\ ~IsBehind(track, p)
                    => track'[<<p, Prod, v>>] = track[<<p, Ref, v>>]
    <3> DEFINE moved == sp_check_previous_versions(track, q)
               next == IF <<q, Ref, w>> \in DOMAIN moved
                         THEN moved[<<q, Ref, w>>]
                         ELSE session[s].nextRelease
    <3>1. DOMAIN moved = DOMAIN track  BY <1>1, ProcedureMoves DEF IInv
    <3>2. Track(q, Prod, w, moved, next)  BY <2>5 DEF UpdateProd
    <3>3. /\ <<p, Prod, v>> = <<q, Prod, w>>
          /\ track'[<<p, Prod, v>>] = next
          /\ \A x \in DOMAIN track : track'[x] = moved[x]
      <4> HIDE DEF moved, next
      <4> QED  BY <3>1, <3>2, AddedRow
    <3>4. p = q /\ v = w  BY <3>3
    <3>5. next = moved[<<p, Ref, v>>]  BY <3>1, <3>4
    <3>6. ~IsBehind(track, p) => moved = track
      BY <3>4 DEF sp_check_previous_versions
    <3>7. QED  BY <3>3, <3>5, <3>6
  <2>6. ASSUME NEW s \in Sessions, NEW q \in Projects, NEW u \in {Ref, Prod},
               NEW w \in Versions, UpdateFixed(s, q, u, w)
        PROVE  FALSE
    <3>1. <<p, Prod, v>> = <<q, u, w>>  BY <2>6, AddedRow DEF UpdateFixed
    <3>2. HotFixRelease(s, p, v) # Null  BY <2>6, <3>1 DEF UpdateFixed
    <3>3. QED  BY <2>1, <3>2
  <2>7. ASSUME track' = track
        PROVE  FALSE
    BY <2>7
  <2>8. QED
    BY <1>1, <2>2, <2>3, <2>4, <2>5, <2>6, <2>7
    DEF Next, vars, InsertOther, UpdateOther, TooManyRows, Connect
<1>2. IInv /\ [Next]_vars
        => [\A p \in Projects, v \in Versions : ReleasedWithRef(p, v)]_vars
  BY <1>1
<1>3. QED  BY <1>2, AlwaysIInv, PTL DEF Spec

\* The history the tables start with has what is deployed in REF and production.
InstalledIsTracked ==
  \A p \in Projects, t \in {Ref, Prod} :
    /\ <<p, t>> \in DOMAIN Installed
    /\ Installed[<<p, t>>] # EMPTY
    => <<p, t, Installed[<<p, t>>]>> \in DOMAIN Populated

\* A trigger that is undone when its INSERT fails writes both tables or none.
LEMMA TrackRecords ==
  ASSUME Transactional, DeployedIsTracked,
         NEW p, NEW t, NEW v, NEW moved, NEW r,
         DOMAIN moved = DOMAIN track,
         Track(p, t, v, moved, r)
  PROVE  DeployedIsTracked'
<1>1. CASE Accepts(moved, r, <<p, t, v>>)
  <2>1. /\ DOMAIN track' = DOMAIN track \union {<<p, t, v>>}
        /\ DOMAIN version' = DOMAIN version \union {<<p, t>>}
        /\ \A x \in DOMAIN version' :
             version'[x] = IF x = <<p, t>> THEN v ELSE version[x]
    BY <1>1 DEF Track, sp_common_triggers_track, WithVersion
  <2>2. QED  BY <2>1 DEF DeployedIsTracked, Exists
<1>2. CASE ~Accepts(moved, r, <<p, t, v>>)
  BY <1>2 DEF Track, DeployedIsTracked, Exists
<1>3. QED  BY <1>1, <1>2

\* A statement the triggers do not track writes no version to REF or production.
LEMMA UntrackedRecords ==
  ASSUME DeployedIsTracked, NEW p, NEW t, NEW v,
         t \notin {Ref, Prod} \/ v = EMPTY,
         version' = WithVersion(p, t, v), track' = track
  PROVE  DeployedIsTracked'
<1>1. /\ DOMAIN version' = DOMAIN version \union {<<p, t>>}
      /\ \A x \in DOMAIN version' :
           version'[x] = IF x = <<p, t>> THEN v ELSE version[x]
  BY DEF WithVersion
<1>2. QED  BY <1>1 DEF DeployedIsTracked, Exists

\* With tables that undo a failed statement and a history that starts complete,
\* whatever is in REF or production is in the history.
THEOREM DeployedAreTracked ==
  ASSUME Transactional, InstalledIsTracked
  PROVE  Spec => []DeployedIsTracked
<1>1. Init => DeployedIsTracked
  BY DEF Init, InstalledIsTracked, DeployedIsTracked, Exists
<1>2. ASSUME IInv, DeployedIsTracked, [Next]_vars
      PROVE  DeployedIsTracked'
  <2>1. \A q \in Projects :
          DOMAIN sp_check_previous_versions(track, q) = DOMAIN track
    BY <1>2, ProcedureMoves DEF IInv
  <2>2. ASSUME NEW q \in Projects, NEW w \in Versions,
               InsertRef(q, w) \/ InsertProd(q, w)
        PROVE  DeployedIsTracked'
    BY <1>2, <2>2, TrackRecords DEF InsertRef, InsertProd
  <2>3. ASSUME NEW q \in Projects, NEW u \in Types,
               NEW w \in Versions \union {EMPTY},
               InsertOther(q, u, w) \/ UpdateOther(q, u, w)
        PROVE  DeployedIsTracked'
    BY <1>2, <2>3, UntrackedRecords DEF InsertOther, UpdateOther, Ref, Prod
  <2>4. ASSUME NEW q \in Projects, NEW u \in HotFixes, NEW w \in Versions,
               UpdateHotFix(q, u, w)
        PROVE  DeployedIsTracked'
    BY <1>2, <2>4, TrackRecords DEF UpdateHotFix
  <2>5. ASSUME NEW s \in Sessions, NEW q \in Projects, NEW w \in Versions,
               UpdateRef(s, q, w)
        PROVE  DeployedIsTracked'
    BY <1>2, <2>1, <2>5, TrackRecords DEF UpdateRef
  <2>6. ASSUME NEW s \in Sessions, NEW q \in Projects, NEW w \in Versions,
               UpdateProd(s, q, w)
        PROVE  DeployedIsTracked'
    BY <1>2, <2>1, <2>6, TrackRecords DEF UpdateProd
  <2>7. ASSUME NEW s \in Sessions, NEW q \in Projects, NEW u \in {Ref, Prod},
               NEW w \in Versions, UpdateFixed(s, q, u, w)
        PROVE  DeployedIsTracked'
    BY <1>2, <2>7, TrackRecords DEF UpdateFixed
  <2>8. ASSUME version' = version, track' = track
        PROVE  DeployedIsTracked'
    BY <1>2, <2>8 DEF DeployedIsTracked, Exists
  <2>9. QED
    BY <1>2, <2>2, <2>3, <2>4, <2>5, <2>6, <2>7, <2>8
    DEF Next, vars, TooManyRows, Connect
<1>3. QED  BY <1>1, <1>2, AlwaysIInv, PTL DEF Spec
=============================================================================
