-------------------------- MODULE Commands_proofs ---------------------------
(***************************************************************************)
(* What is proved of the backup and restore commands.                      *)
(***************************************************************************)
EXTENDS Backups, Restore, FiniteSetTheorems, TLAPS

-----------------------------------------------------------------------------
(***************************************************************************)
(* Backups: what is published is whole, and the last verified backup is    *)
(* pruned only where undrilled ones stand, for any runs, blobs and         *)
(* retention.                                                              *)
(***************************************************************************)

BackupsSpec == BackupsInit /\ [][BackupsNext]_backupVars

Places == {"local", "offsite"}
Failures == {"", "verify", "offsite"}
Dir == [state : {"none", "published", "removing", "bare"}, db : SUBSET BlobKeys, blobs : SUBSET BlobKeys,
        drill : {"none", "passed", "failed", "left"}]
Waiting == [at : {"idle", "discard", "done"}]
Copying == [at : {"copying", "published", "offsite"}, db : SUBSET BlobKeys, blobs : SUBSET BlobKeys]
Listing == [at : {"prune"}, place : Places, failed : Failures]
Pruning == [at : {"pruning"}, place : Places, failed : Failures, doomed : SUBSET BackupRuns]
Run == Waiting \cup Copying \cup Listing \cup Pruning

BackupsType ==
    /\ referenced \subseteq BlobKeys
    /\ dirs \in [Places -> [BackupRuns -> Dir]]
    /\ runs \in [BackupRuns -> Run]

Local(n) == dirs["local"][n]
Passed(n) == Local(n).state = "published" /\ Local(n).drill = "passed"
Newer(n) == {m \in Counted("local") : n < m}

\* Runs come one after the other.
InTurn ==
    /\ \A r, q \in UnderWay : r = q
    /\ \A r \in UnderWay, m \in BackupRuns : r < m => runs[m].at = "idle"
    /\ \A n, m \in BackupRuns : runs[n].at = "idle" /\ n < m => runs[m].at = "idle"

\* Where a run is agrees with what its directory is: one that failed its drill
\* is there only while its run removes it.
Drills ==
    \A n \in BackupRuns :
        /\ runs[n].at \in {"idle", "copying"} => Local(n).state = "none"
        /\ runs[n].at = "published" => Local(n).drill = "none"
        /\ runs[n].at = "discard" => Local(n).drill = "failed"
        /\ Local(n).state # "none" /\ Local(n).drill = "failed" => runs[n].at = "discard"

\* What a prune that did not finish left of a verified backup is older than
\* every verified one.
Remains ==
    \A n, p \in BackupRuns : Local(n).state = "removing" /\ Local(n).drill = "passed" /\ Passed(p) => n < p

\* Of each directory listed to go, enough newer ones stay, and among the
\* verified ones only newer ones.
Listed(run) ==
    run.at = "pruning" /\ run.place = "local" =>
        \A n \in run.doomed :
            /\ Cardinality(Newer(n)) >= KeepCount
            /\ \A p \in BackupRuns \ run.doomed : Passed(p) => n < p

Orderly == InTurn /\ Drills /\ Remains /\ \A r \in BackupRuns : Listed(runs[r])

BackupsInv ==
    /\ BackupsType
    /\ PublishedIsWhole
    /\ ~overlapped => Orderly

\* What a step of runs that do not overlap may do to the verified backups.
Kept == Verified # {} => Verified' # {} \/ Cardinality(Undrilled') >= KeepCount

BackupsStep ==
    /\ BackupsType' /\ PublishedIsWhole'
    /\ ~overlapped' => Orderly' /\ Kept

\* The names of backups are integers, and there are finitely many.
LEMMA Names == BackupRuns \subseteq Int /\ IsFiniteSet(BackupRuns) /\ KeepCount \in Nat
<1>1. PICK top \in Nat : BackupRuns \subseteq 1..top
  BY Zenon, BackupsAssumption
<1>2. IsFiniteSet(1..top)
  BY <1>1, FS_Interval
<1>3. IsFiniteSet(BackupRuns)
  BY Zenon, <1>1, <1>2, FS_Subset
<1>4. BackupRuns \subseteq Int /\ KeepCount \in Nat
  BY <1>1, BackupsAssumption
<1>5. QED
  BY Zenon, <1>3, <1>4

\* They are ordered.
LEMMA Order ==
    /\ \A a, b \in BackupRuns : /\ a < b => a # b /\ ~(b < a)
                                /\ a <= b /\ a # b => a < b
                                /\ ~(b < a) /\ a # b => a < b
    /\ \A a, b, c \in BackupRuns : a <= b /\ b < c => a # c
BY Names

\* The kinds of run, told apart by the step they are at.
LEMMA RunKinds ==
    ASSUME NEW run \in Run
    PROVE  /\ run.at \in {"copying", "published", "offsite"} => run \in Copying
           /\ run.at = "prune" => run \in Listing
           /\ run.at = "pruning" => run \in Pruning
           /\ run.at \notin {"copying", "published", "offsite", "discard", "prune", "pruning"} => run.at \in {"idle", "done"}
BY Zenon DEF Run, Waiting, Copying, Listing, Pruning

\* A run that has not begun, one that discards its backup, one that has ended,
\* and no directory.
LEMMA Blanks ==
    /\ NoDir \in Dir /\ NoDir.state = "none" /\ NoDir.drill = "none"
    /\ Idle \in Run /\ Idle.at = "idle"
    /\ [at |-> "done"] \in Run /\ [at |-> "done"].at = "done"
    /\ [at |-> "discard"] \in Run /\ [at |-> "discard"].at = "discard"
<1>1. NoDir \in Dir /\ NoDir.state = "none" /\ NoDir.drill = "none"
  BY Zenon DEF NoDir, Dir
<1>2. Idle \in Run /\ Idle.at = "idle"
  BY Zenon DEF Idle, Run, Waiting
<1>3. /\ [at |-> "done"] \in Run /\ [at |-> "done"].at = "done"
      /\ [at |-> "discard"] \in Run /\ [at |-> "discard"].at = "discard"
  BY Zenon DEF Run, Waiting
<1>4. QED
  BY Zenon, <1>1, <1>2, <1>3

\* One directory changes.
LEMMA DirChanged ==
    ASSUME BackupsType, NEW p \in Places, NEW n \in BackupRuns, NEW d \in Dir, dirs' = [dirs EXCEPT ![p][n] = d]
    PROVE  /\ dirs' \in [Places -> [BackupRuns -> Dir]]
           /\ dirs'[p][n] = d
           /\ \A q \in Places, m \in BackupRuns : q # p \/ m # n => dirs'[q][m] = dirs[q][m]
BY Zenon DEF BackupsType

\* One run changes.
LEMMA RunChanged ==
    ASSUME BackupsType, NEW r \in BackupRuns, NEW w \in Run, runs' = [runs EXCEPT ![r] = w]
    PROVE  /\ runs' \in [BackupRuns -> Run]
           /\ runs'[r] = w
           /\ \A q \in BackupRuns \ {r} : runs'[q] = runs[q]
BY Zenon DEF BackupsType

\* The initial state satisfies the invariant.
LEMMA BackupsInitInv == BackupsInit => BackupsInv
<1> SUFFICES ASSUME BackupsInit PROVE BackupsInv
  BY Zenon
<1>1. /\ referenced = {} /\ dirs = [place \in Places |-> [n \in BackupRuns |-> NoDir]]
      /\ runs = [r \in BackupRuns |-> Idle]
  BY Zenon DEF BackupsInit, Places
<1>2. BackupsType
  BY Zenon, <1>1, Blanks DEF BackupsType
<1>3. PublishedIsWhole
  BY Zenon, <1>1, Blanks DEF PublishedIsWhole, Published, Places
<1>4. \A n \in BackupRuns : Local(n).state = "none" /\ runs[n].at = "idle"
  BY Zenon, <1>1, Blanks DEF Local, Places
<1>5. InTurn /\ Drills /\ Remains /\ \A r \in BackupRuns : Listed(runs[r])
  BY Zenon, <1>4 DEF InTurn, UnderWay, Drills, Remains, Listed
<1>6. QED
  BY Zenon, <1>2, <1>3, <1>5 DEF BackupsInv, Orderly

\* How a step of run r changes the directories and the runs, at most one of
\* each: what every action of a run has in common.
StepOf(r, w, p, n, d) ==
    /\ runs' = [runs EXCEPT ![r] = w]
    /\ dirs' = dirs \/ dirs' = [dirs EXCEPT ![p][n] = d]

\* A step that publishes only what is whole keeps the types and PublishedIsWhole.
LEMMA WholeStep ==
    ASSUME BackupsType, PublishedIsWhole, UNCHANGED referenced,
           NEW r \in BackupRuns, NEW w \in Run, NEW p \in Places, NEW n \in BackupRuns, NEW d \in Dir,
           StepOf(r, w, p, n, d), d.state = "published" => d.blobs = d.db
    PROVE  BackupsType' /\ PublishedIsWhole'
<1>1. BackupsType'
  BY Zenon, DirChanged, RunChanged DEF StepOf, BackupsType
<1>2. CASE dirs' = dirs
  BY Zenon, <1>1, <1>2 DEF PublishedIsWhole, Published, WholeDir
<1>3. CASE dirs' = [dirs EXCEPT ![p][n] = d]
  <2>1. \A q \in Places, m \in BackupRuns : dirs'[q][m] = IF q = p /\ m = n THEN d ELSE dirs[q][m]
    BY ZenonT(60), <1>3, DirChanged
  <2>2. ASSUME NEW q \in Places, NEW m \in BackupRuns, dirs'[q][m].state = "published"
        PROVE  dirs'[q][m].blobs = dirs'[q][m].db
    BY <2>1, <2>2 DEF PublishedIsWhole, Published, WholeDir, Places
  <2>3. QED
    BY <1>1, <2>2, Zenon DEF PublishedIsWhole, Published, WholeDir, Places
<1>4. QED
  BY Zenon, <1>1, <1>2, <1>3 DEF StepOf

\* When one run at most is under way, the others have ended or not begun.
LEMMA Others ==
    ASSUME BackupsType, NEW r \in BackupRuns, NEW w \in Run, UnderWay \subseteq {r}, runs' = [runs EXCEPT ![r] = w]
    PROVE  /\ runs'[r] = w
           /\ \A q \in BackupRuns \ {r} : runs'[q] = runs[q] /\ runs[q].at \in {"idle", "done"}
           /\ UnderWay' \subseteq {r}
<1>1. runs'[r] = w /\ \A q \in BackupRuns \ {r} : runs'[q] = runs[q]
  BY Zenon, RunChanged
<1>2. \A q \in BackupRuns \ {r} : runs[q].at \in {"idle", "done"}
  BY Zenon DEF UnderWay
<1>3. QED
  BY Zenon, <1>1, <1>2 DEF UnderWay

\* Runs stay in turn when one goes on, or the next one starts.
LEMMA TurnStep ==
    ASSUME BackupsType, InTurn, NEW r \in BackupRuns, NEW w \in Run, UnderWay \subseteq {r},
           runs' = [runs EXCEPT ![r] = w], runs[r].at # "done", w.at # "idle",
           runs[r].at = "idle" => \A m \in BackupRuns : m < r => runs[m].at # "idle"
    PROVE  InTurn'
<1>1. \A a, b \in BackupRuns : a < b => a # b
  BY Zenon, Order
<1>2. /\ runs'[r] = w /\ UnderWay' \subseteq {r}
      /\ \A q \in BackupRuns \ {r} : runs'[q] = runs[q] /\ runs[q].at \in {"idle", "done"}
  BY Zenon, Others
<1>3. \A a, b \in UnderWay' : a = b
  BY Zenon, <1>2
<1>4. ASSUME NEW a \in UnderWay', NEW m \in BackupRuns, a < m PROVE runs'[m].at = "idle"
  <2>1. a = r /\ m # r
    BY Zenon, <1>1, <1>2, <1>4
  <2>2. runs[m].at = "idle"
    BY Zenon, <1>4, <2>1 DEF InTurn, UnderWay
  <2>3. QED
    BY Zenon, <1>2, <2>1, <2>2
<1>5. ASSUME NEW n \in BackupRuns, NEW m \in BackupRuns, runs'[n].at = "idle", n < m PROVE runs'[m].at = "idle"
  <2>1. n # r /\ runs[n].at = "idle"
    BY Zenon, <1>2, <1>5
  <2>2. runs[m].at = "idle"
    BY Zenon, <1>5, <2>1 DEF InTurn
  <2>3. m # r
    BY Zenon, <1>5, <2>1, <2>2
  <2>4. QED
    BY Zenon, <1>2, <2>2, <2>3
<1>6. QED
  BY Zenon, <1>3, <1>4, <1>5 DEF InTurn

\* With every published backup whole, the verified ones are those that passed.
LEMMA VerifiedPassed ==
    /\ PublishedIsWhole => Verified = {n \in BackupRuns : Passed(n)}
    /\ PublishedIsWhole' => Verified' = {n \in BackupRuns : Passed(n)'}
<1>1. PublishedIsWhole => Verified = {n \in BackupRuns : Passed(n)}
  BY Zenon DEF Verified, PublishedIsWhole, Published, WholeDir, Passed, Local
<1>2. PublishedIsWhole' => Verified' = {n \in BackupRuns : Passed(n)'}
  BY Zenon DEF Verified, PublishedIsWhole, Published, WholeDir, Passed, Local
<1>3. QED
  BY Zenon, <1>1, <1>2

\* A step of the only run that changes no local directory but its own keeps
\* the order of things, and a verified backup with it.
LEMMA OwnDirStep ==
    ASSUME BackupsType, PublishedIsWhole, PublishedIsWhole', Orderly,
           NEW r \in BackupRuns, NEW w \in Run, NEW d \in Dir, UnderWay \subseteq {r},
           runs' = [runs EXCEPT ![r] = w], runs[r].at # "done", w.at # "idle",
           runs[r].at = "idle" => \A m \in BackupRuns : m < r => runs[m].at # "idle",
           Local(r)' = d, \A m \in BackupRuns \ {r} : Local(m)' = Local(m),
           w.at = "copying" => d.state = "none",
           w.at = "published" => d.drill = "none",
           w.at = "discard" => d.drill = "failed",
           d.state # "none" /\ d.drill = "failed" => w.at = "discard",
           d.state = "removing" /\ d.drill = "passed" => d = Local(r),
           d.state = "published" /\ d.drill = "passed" => d = Local(r) \/ runs[r].at = "published",
           Passed(r) => d = Local(r),
           Listed(w)'
    PROVE  Orderly' /\ Kept
<1>1. InTurn'
  BY Zenon, TurnStep DEF Orderly
<1>2. /\ runs'[r] = w
      /\ \A q \in BackupRuns \ {r} : runs'[q] = runs[q] /\ runs[q].at \in {"idle", "done"}
  BY Zenon, Others
<1>3. Drills'
  <2> SUFFICES ASSUME NEW n \in BackupRuns
               PROVE  /\ runs'[n].at \in {"idle", "copying"} => Local(n)'.state = "none"
                      /\ runs'[n].at = "published" => Local(n)'.drill = "none"
                      /\ runs'[n].at = "discard" => Local(n)'.drill = "failed"
                      /\ Local(n)'.state # "none" /\ Local(n)'.drill = "failed" => runs'[n].at = "discard"
    BY Zenon DEF Drills
  <2>1. CASE n = r
    BY Zenon, <1>2, <2>1
  <2>2. CASE n # r
    BY Zenon, <1>2, <2>2 DEF Orderly, Drills
  <2>3. QED
    BY Zenon, <2>1, <2>2
<1>4. Remains'
  <2> SUFFICES ASSUME NEW n \in BackupRuns, NEW p \in BackupRuns,
                      Local(n)'.state = "removing", Local(n)'.drill = "passed", Passed(p)'
               PROVE  n < p
    BY Zenon DEF Remains
  <2>1. Local(n)' = Local(n)
    BY Zenon
  <2>2. CASE Local(p)' = Local(p)
    BY Zenon, <2>1, <2>2 DEF Orderly, Remains, Passed
  <2>3. CASE Local(p)' # Local(p)
    <3>1. p = r /\ runs[r].at = "published" /\ r \in UnderWay
      BY Zenon, <2>3 DEF Passed, UnderWay
    <3>2. n # r
      BY Zenon, <3>1 DEF Passed
    <3>3. ~(r < n)
      BY Zenon, <2>1, <3>1 DEF Orderly, InTurn, Drills
    <3>4. QED
      BY Zenon, <3>1, <3>2, <3>3, Order
  <2>4. QED
    BY Zenon, <2>2, <2>3
<1>5. ASSUME NEW q \in BackupRuns PROVE Listed(runs[q])'
  <2>1. CASE q = r
    BY Zenon, <1>2, <2>1 DEF Listed
  <2>2. CASE q # r
    BY Zenon, <1>2, <2>2 DEF Listed
  <2>3. QED
    BY Zenon, <2>1, <2>2
<1>6. Kept
  <2>1. \A n \in BackupRuns : Passed(n) => Passed(n)'
    BY Zenon DEF Passed
  <2>2. Verified = {n \in BackupRuns : Passed(n)} /\ Verified' = {n \in BackupRuns : Passed(n)'}
    BY Zenon, VerifiedPassed
  <2>3. QED
    BY Zenon, <2>1, <2>2 DEF Kept
<1>7. QED
  BY Zenon, <1>1, <1>3, <1>4, <1>5, <1>6 DEF Orderly

\* A step of the only run that changes no local directory at all.
LEMMA OtherStep ==
    ASSUME BackupsType, PublishedIsWhole, PublishedIsWhole', Orderly,
           NEW r \in BackupRuns, NEW w \in Run, UnderWay \subseteq {r},
           runs' = [runs EXCEPT ![r] = w], runs[r].at \notin {"discard", "done"},
           runs[r].at = "idle" => \A m \in BackupRuns : m < r => runs[m].at # "idle",
           \A m \in BackupRuns : dirs'["local"][m] = dirs["local"][m],
           \/ w.at \in {"done", "offsite", "prune"} \/ (w.at = "pruning" /\ w.place = "offsite")
           \/ w.at = "copying" /\ runs[r].at \in {"idle", "copying"}
    PROVE  Orderly' /\ Kept
<1>1. Local(r) \in Dir /\ \A m \in BackupRuns : Local(m)' = Local(m)
  BY Zenon DEF BackupsType, Places, Local
<1>2. /\ w.at = "copying" => Local(r).state = "none"
      /\ Local(r).state # "none" /\ Local(r).drill = "failed" => w.at = "discard"
  BY Zenon DEF Orderly, Drills
<1>3. w.at \notin {"idle", "published", "discard"} /\ Listed(w)'
  BY Zenon DEF Listed
<1>4. QED
  BY Zenon, <1>1, <1>2, <1>3, OwnDirStep

\* What is listed to go: the oldest ones, each with KeepCount newer ones.
LEMMA SurplusIsOld ==
    ASSUME NEW n \in Surplus("local")
    PROVE  /\ Cardinality(Newer(n)) >= KeepCount
           /\ \A p \in BackupRuns \ Surplus("local") : Passed(p) => n < p
<1> DEFINE since(m) == {k \in Counted("local") : k >= m}
<1>1. Counted("local") \subseteq BackupRuns /\ n \in Counted("local") /\ n \in BackupRuns
  BY Zenon DEF Counted, Surplus
<1>2. \A m : IsFiniteSet(since(m)) /\ Cardinality(since(m)) \in Nat
  <2> SUFFICES ASSUME NEW m PROVE IsFiniteSet(since(m)) /\ Cardinality(since(m)) \in Nat
    BY Zenon
  <2>1. since(m) \subseteq BackupRuns
    BY Zenon, <1>1
  <2> HIDE DEF since
  <2>2. IsFiniteSet(since(m))
    BY Zenon, <2>1, Names, FS_Subset
  <2>3. QED
    BY Zenon, <2>2, FS_CardinalityType
<1>3. Cardinality(since(n)) > KeepCount
  BY Zenon DEF Surplus
<1>4. Newer(n) = since(n) \ {n} /\ n \in since(n)
  <2>1. \A k \in BackupRuns : n < k <=> (k >= n /\ k # n)
    BY <1>1, Names
  <2>2. n >= n
    BY <1>1, Names
  <2>3. QED
    BY Zenon, <1>1, <2>1, <2>2 DEF Newer
<1>5. ASSUME NEW p \in BackupRuns \ Surplus("local"), Passed(p) PROVE n < p
  <2>1. p \in Counted("local") /\ ~(Cardinality(since(p)) > KeepCount)
    BY Zenon, <1>5 DEF Passed, Local, Counted, Surplus
  <2>2. p <= n => since(n) \subseteq since(p)
    <3>1. \A k \in BackupRuns : p <= n /\ k >= n => k >= p
      BY <1>1, Names
    <3>2. QED
      BY Zenon, <1>1, <3>1
  <2> HIDE DEF since
  <2>3. p <= n => Cardinality(since(n)) <= Cardinality(since(p))
    BY Zenon, <1>2, <2>2, FS_Subset
  <2>4. p \in Int /\ n \in Int /\ KeepCount \in Nat /\ Cardinality(since(n)) \in Nat /\ Cardinality(since(p)) \in Nat
    BY Zenon, <1>1, <1>2, Names
  <2>5. QED
    BY <1>3, <2>1, <2>3, <2>4
<1> HIDE DEF since
<1>6. Cardinality(since(n) \ {n}) = Cardinality(since(n)) - 1
  BY Zenon, <1>2, <1>4, FS_RemoveElement
<1>7. Cardinality(Newer(n)) >= KeepCount
  BY <1>2, <1>3, <1>4, <1>6, Names
<1>8. QED
  BY Zenon, <1>5, <1>7

\* Listing what to prune.
LEMMA ListedStep ==
    ASSUME BackupsType, PublishedIsWhole, Orderly, NEW r \in BackupRuns, UnderWay \subseteq {r}, ListBackups(r)
    PROVE  Orderly' /\ Kept
<1>1. runs[r] \in Listing /\ runs[r].at = "prune"
  BY Zenon, RunKinds DEF ListBackups, BackupsType
<1>2. Surplus(runs[r].place) \subseteq BackupRuns
  BY Zenon DEF Surplus, Counted
<1>3. [at |-> "pruning", place |-> runs[r].place, failed |-> runs[r].failed, doomed |-> Surplus(runs[r].place)] \in Run
  BY Zenon, <1>1, <1>2 DEF Run, Pruning, Listing
<1>4. PICK w \in Run : /\ w.at = "pruning" /\ w.place = runs[r].place /\ w.doomed = Surplus(runs[r].place)
                       /\ runs' = [runs EXCEPT ![r] = w] /\ dirs' = dirs
  BY Zenon, <1>3 DEF ListBackups, BackupsType
<1>5. Local(r) \in Dir /\ \A m \in BackupRuns : Local(m)' = Local(m)
  BY Zenon, <1>4 DEF BackupsType, Places, Local
<1>6. PublishedIsWhole'
  BY Zenon, <1>4 DEF PublishedIsWhole, Published
<1>7. Listed(w)'
  <2> SUFFICES ASSUME w.place = "local", NEW n \in w.doomed
               PROVE  /\ Cardinality(Newer(n)') >= KeepCount
                      /\ \A p \in BackupRuns \ w.doomed : Passed(p)' => n < p
    BY Zenon DEF Listed
  <2>1. Newer(n)' = Newer(n) /\ \A p \in BackupRuns : Passed(p)' = Passed(p)
    BY Zenon, <1>4 DEF Newer, Counted, Passed, Local
  <2>2. w.doomed = Surplus("local")
    BY Zenon, <1>4
  <2>3. QED
    BY Zenon, <2>1, <2>2, SurplusIsOld
<1>8. Local(r).state # "none" => Local(r).drill # "failed"
  BY Zenon, <1>1 DEF Orderly, Drills
<1>9. w.at \notin {"idle", "copying", "published", "discard"} /\ runs[r].at \notin {"idle", "done"}
  BY Zenon, <1>1, <1>4
<1>10. QED
  BY Zenon, <1>4, <1>5, <1>6, <1>7, <1>8, <1>9, OwnDirStep

\* What a removal changes: the oldest directory listed, and the list when the
\* directory is gone.
LEMMA RemovedShape ==
    ASSUME BackupsType, NEW r \in BackupRuns, RemoveOldest(r)
    PROVE  /\ runs[r].at = "pruning" /\ runs[r].place \in Places /\ runs[r].doomed \subseteq BackupRuns
           /\ \E n \in BackupRuns, d \in Dir, w \in Run :
                 /\ n \in runs[r].doomed /\ \A m \in runs[r].doomed : n <= m
                 /\ dirs' = [dirs EXCEPT ![runs[r].place][n] = d]
                 /\ runs' = [runs EXCEPT ![r] = w] /\ w.at = "pruning" /\ w.place = runs[r].place
                 /\ \/ /\ d.state \in {"removing", "bare"} /\ d.drill = dirs[runs[r].place][n].drill
                       /\ dirs[runs[r].place][n].state = "published" /\ w.doomed = runs[r].doomed
                    \/ /\ d.state = "none" /\ w.doomed = runs[r].doomed \ {n}
                       /\ dirs[runs[r].place][n].state # "published"
<1>1. runs[r] \in Pruning /\ runs[r].at = "pruning" /\ runs[r].place \in Places /\ runs[r].doomed \subseteq BackupRuns
  <2>1. runs[r].at = "pruning" /\ runs[r] \in Pruning
    BY Zenon, RunKinds DEF RemoveOldest, BackupsType
  <2>2. QED
    BY Zenon, <2>1 DEF Pruning
<1>2. PICK n \in runs[r].doomed :
          /\ \A m \in runs[r].doomed : n <= m
          /\ \/ BeginRemoval(runs[r].place, n) /\ UNCHANGED runs
             \/ EndRemoval(runs[r].place, n) /\ runs' = [runs EXCEPT ![r].doomed = @ \ {n}]
  BY Zenon DEF RemoveOldest
<1> DEFINE old == dirs[runs[r].place][n]
<1>3. n \in BackupRuns /\ old \in Dir
  BY Zenon, <1>1, <1>2 DEF BackupsType
<1>4. CASE BeginRemoval(runs[r].place, n) /\ UNCHANGED runs
  <2>1. PICK state \in {"removing", "bare"} :
           old.state = "published" /\ dirs' = [dirs EXCEPT ![runs[r].place][n] = [old EXCEPT !.state = state, !.blobs = {}]]
    BY Zenon, <1>4 DEF BeginRemoval
  <2> HIDE DEF old
  <2>2. /\ [old EXCEPT !.state = state, !.blobs = {}] \in Dir
        /\ [old EXCEPT !.state = state, !.blobs = {}].state = state
        /\ [old EXCEPT !.state = state, !.blobs = {}].drill = old.drill
    BY Zenon, <1>3 DEF Dir
  <2>3. PICK d \in Dir : dirs' = [dirs EXCEPT ![runs[r].place][n] = d] /\ d.state = state /\ d.drill = old.drill
    BY Zenon, <2>1, <2>2
  <2>4. runs[r] \in Run /\ runs' = [runs EXCEPT ![r] = runs[r]]
    BY Zenon, <1>4 DEF BackupsType
  <2>5. QED
    BY Zenon, <1>1, <1>2, <1>3, <2>1, <2>3, <2>4 DEF old
<1>5. CASE EndRemoval(runs[r].place, n) /\ runs' = [runs EXCEPT ![r].doomed = @ \ {n}]
  <2>1. dirs' = [dirs EXCEPT ![runs[r].place][n] = NoDir] /\ dirs[runs[r].place][n].state # "published"
    BY Zenon, <1>5 DEF EndRemoval
  <2> DEFINE w == [runs[r] EXCEPT !.doomed = @ \ {n}]
  <2>2. w \in Pruning /\ w.at = "pruning" /\ w.place = runs[r].place /\ w.doomed = runs[r].doomed \ {n}
    BY Zenon, <1>1 DEF Pruning
  <2>3. w \in Run /\ runs' = [runs EXCEPT ![r] = w]
    BY Zenon, <1>5, <2>2 DEF Run, BackupsType
  <2> HIDE DEF w
  <2>4. QED
    BY Zenon, <1>1, <1>2, <1>3, <2>1, <2>2, <2>3, Blanks
<1>6. QED
  BY Zenon, <1>2, <1>4, <1>5

\* Removing a local directory: the last verified one goes only when every one
\* of the KeepCount newer ones is undrilled.
LEMMA RemovedLocal ==
    ASSUME BackupsType, PublishedIsWhole, PublishedIsWhole', Orderly, NEW r \in BackupRuns, UnderWay \subseteq {r},
           NEW n \in BackupRuns, NEW d \in Dir, NEW w \in Run,
           runs[r].at = "pruning", runs[r].place = "local", runs[r].doomed \subseteq BackupRuns,
           n \in runs[r].doomed, \A m \in runs[r].doomed : n <= m,
           Local(n)' = d, \A m \in BackupRuns \ {n} : Local(m)' = Local(m),
           runs' = [runs EXCEPT ![r] = w], w.at = "pruning", w.place = "local",
           \/ /\ d.state \in {"removing", "bare"} /\ d.drill = Local(n).drill
              /\ Local(n).state = "published" /\ w.doomed = runs[r].doomed
           \/ d.state = "none" /\ w.doomed = runs[r].doomed \ {n} /\ Local(n).state # "published"
    PROVE  Orderly' /\ Kept
<1>1. InTurn'
  BY Zenon, TurnStep DEF Orderly
<1>2. /\ runs'[r] = w
      /\ \A q \in BackupRuns \ {r} : runs'[q] = runs[q] /\ runs[q].at \in {"idle", "done"}
  BY Zenon, Others
<1>3. \A q \in BackupRuns : runs[q].at \notin {"published", "discard"} /\ runs'[q].at = runs[q].at
  BY Zenon, <1>2
<1>4. \A m \in BackupRuns : Local(m).state # "none" => Local(m).drill # "failed"
  BY Zenon, <1>3 DEF Orderly, Drills
<1>5. \A m \in BackupRuns : Local(m)'.state # "none" => Local(m).state # "none" /\ Local(m)'.drill = Local(m).drill
  BY Zenon
<1>6. Drills'
  BY Zenon, <1>3, <1>4, <1>5 DEF Orderly, Drills
<1>7. ~Passed(n)' /\ \A p \in BackupRuns \ {n} : Passed(p)' <=> Passed(p)
  BY Zenon DEF Passed
<1>8. Cardinality(Newer(n)) >= KeepCount /\ \A p \in BackupRuns \ runs[r].doomed : Passed(p) => n < p
  BY Zenon DEF Orderly, Listed
<1>9. \A p \in BackupRuns : Passed(p)' => Passed(p) /\ n < p
  <2>1. \A p \in BackupRuns : n <= p /\ p # n => n < p
    BY Zenon, Order
  <2>2. QED
    BY Zenon, <1>7, <1>8, <2>1
<1>10. Remains'
  <2>1. ASSUME NEW m \in BackupRuns, NEW p \in BackupRuns,
               Local(m)'.state = "removing", Local(m)'.drill = "passed", Passed(p)'
        PROVE  m < p
    BY Zenon, <1>9, <2>1 DEF Orderly, Remains
  <2>2. QED
    BY Zenon, <2>1 DEF Remains
<1>11. ASSUME NEW q \in BackupRuns PROVE Listed(runs[q])'
  <2>1. CASE q # r
    BY Zenon, <1>2, <2>1 DEF Listed
  <2>2. CASE q = r
    <3>1. ASSUME NEW m \in w.doomed
          PROVE  /\ Cardinality(Newer(m)') >= KeepCount
                 /\ \A p \in BackupRuns \ w.doomed : Passed(p)' => m < p
      <4>1. m \in runs[r].doomed /\ m \in BackupRuns /\ n <= m /\ (n \in w.doomed \/ w.doomed = runs[r].doomed \ {n})
        BY Zenon
      <4>2. \A k \in BackupRuns : m < k => k # n
        BY Zenon, <4>1, Order
      <4>3. Newer(m)' = Newer(m)
        BY Zenon, <4>2 DEF Newer, Counted, Local
      <4>4. \A p \in BackupRuns \ w.doomed : Passed(p)' => p \notin runs[r].doomed
        BY Zenon, <1>7
      <4>5. QED
        BY Zenon, <1>9, <4>1, <4>3, <4>4 DEF Orderly, Listed
    <3>2. QED
      BY Zenon, <1>2, <2>2, <3>1 DEF Listed
  <2>3. QED
    BY Zenon, <2>1, <2>2
<1>12. Kept
  <2>1. Verified = {p \in BackupRuns : Passed(p)} /\ Verified' = {p \in BackupRuns : Passed(p)'}
    BY Zenon, VerifiedPassed
  <2> SUFFICES ASSUME Verified # {}, Verified' = {} PROVE Cardinality(Undrilled') >= KeepCount
    BY Zenon DEF Kept
  <2>2. Passed(n) /\ \A p \in BackupRuns : ~Passed(p)'
    BY Zenon, <1>7, <2>1
  <2>3. ASSUME NEW m \in Newer(n) PROVE m \in Undrilled'
    <3>1. m \in BackupRuns /\ n < m /\ Local(m).state \in {"published", "removing"}
      BY Zenon DEF Newer, Counted, Local
    <3>2. m # n /\ ~(m < n)
      BY Zenon, <3>1, Order
    <3>3. Local(m)' = Local(m) /\ Local(m).drill \in {"none", "passed", "failed", "left"}
      BY Zenon, <3>1, <3>2 DEF BackupsType, Dir, Places, Local
    <3>4. Local(m).drill # "failed"
      BY Zenon, <1>4, <3>1
    <3>5. Local(m).drill # "passed"
      BY Zenon, <2>2, <3>1, <3>2, <3>3 DEF Orderly, Remains, Passed
    <3>6. QED
      BY Zenon, <3>1, <3>3, <3>4, <3>5 DEF Undrilled, Counted, Local
  <2>4. Undrilled' \subseteq BackupRuns
    BY Zenon DEF Undrilled, Counted
  <2> DEFINE few == Newer(n) many == Undrilled'
  <2>5. few \subseteq many /\ many \subseteq BackupRuns /\ Cardinality(few) >= KeepCount
    BY Zenon, <1>8, <2>3, <2>4
  <2> HIDE DEF few, many
  <2>6. IsFiniteSet(many)
    BY Zenon, <2>5, Names, FS_Subset
  <2>7. Cardinality(few) <= Cardinality(many) /\ IsFiniteSet(few)
    BY Zenon, <2>5, <2>6, FS_Subset
  <2>8. Cardinality(few) \in Nat /\ Cardinality(many) \in Nat
    BY Zenon, <2>6, <2>7, FS_CardinalityType
  <2>9. Cardinality(many) >= KeepCount
    BY <2>5, <2>7, <2>8, Names
  <2>10. QED
    BY Zenon, <2>9 DEF many
<1>13. QED
  BY Zenon, <1>1, <1>6, <1>10, <1>11, <1>12 DEF Orderly

\* Removing, in either place.
LEMMA RemovedStep ==
    ASSUME BackupsType, PublishedIsWhole, PublishedIsWhole', Orderly, NEW r \in BackupRuns, UnderWay \subseteq {r},
           RemoveOldest(r)
    PROVE  Orderly' /\ Kept
<1>1. runs[r].at = "pruning" /\ runs[r].place \in Places /\ runs[r].doomed \subseteq BackupRuns
  BY Zenon, RemovedShape
<1>2. PICK n \in BackupRuns, d \in Dir, w \in Run :
          /\ n \in runs[r].doomed /\ \A m \in runs[r].doomed : n <= m
          /\ dirs' = [dirs EXCEPT ![runs[r].place][n] = d]
          /\ runs' = [runs EXCEPT ![r] = w] /\ w.at = "pruning" /\ w.place = runs[r].place
          /\ \/ /\ d.state \in {"removing", "bare"} /\ d.drill = dirs[runs[r].place][n].drill
                /\ dirs[runs[r].place][n].state = "published" /\ w.doomed = runs[r].doomed
             \/ /\ d.state = "none" /\ w.doomed = runs[r].doomed \ {n}
                /\ dirs[runs[r].place][n].state # "published"
  BY Zenon, RemovedShape
<1>3. CASE runs[r].place = "offsite"
  <2>1. \A m \in BackupRuns : dirs'["local"][m] = dirs["local"][m]
    BY Zenon, <1>2, <1>3, DirChanged DEF Places
  <2>2. QED
    BY Zenon, <1>1, <1>2, <1>3, <2>1, OtherStep
<1>4. CASE runs[r].place = "local"
  <2>1. Local(n)' = d /\ \A m \in BackupRuns \ {n} : Local(m)' = Local(m)
    BY ZenonT(60), <1>2, <1>4, DirChanged DEF Places, Local
  <2>2. \/ /\ d.state \in {"removing", "bare"} /\ d.drill = Local(n).drill
           /\ Local(n).state = "published" /\ w.doomed = runs[r].doomed
        \/ d.state = "none" /\ w.doomed = runs[r].doomed \ {n} /\ Local(n).state # "published"
    BY Zenon, <1>2, <1>4 DEF Local
  <2>3. QED
    BY Zenon, <1>1, <1>2, <1>4, <2>1, <2>2, RemovedLocal
<1>5. QED
  BY Zenon, <1>1, <1>3, <1>4 DEF Places

\* A run that is under way is the only one, as long as none has overlapped.
LEMMA RunAlone ==
    ASSUME BackupsInv, ~overlapped, NEW r \in BackupRuns, runs[r].at \notin {"idle", "done"}
    PROVE  Orderly /\ UnderWay \subseteq {r} /\ runs[r].at # "idle"
BY Zenon DEF BackupsInv, Orderly, InTurn, UnderWay

\* Steps that change the run alone, and list nothing.
LEMMA RunOnly ==
    ASSUME BackupsInv, NEW r \in BackupRuns, NEW w \in Run, runs' = [runs EXCEPT ![r] = w],
           UNCHANGED <<referenced, dirs, overlapped>>, runs[r].at \notin {"idle", "discard", "done"},
           w.at \in {"done", "offsite", "prune"} \/ (w.at = "copying" /\ runs[r].at = "copying")
    PROVE  BackupsStep
<1>1. BackupsType' /\ PublishedIsWhole'
  BY Zenon, WholeStep, Blanks DEF BackupsInv, StepOf, Places
<1>2. ASSUME ~overlapped' PROVE Orderly' /\ Kept
  <2>1. Orderly /\ UnderWay \subseteq {r}
    BY Zenon, <1>2, RunAlone
  <2>2. QED
    BY Zenon, <1>1, <2>1, OtherStep DEF BackupsInv
<1>3. QED
  BY Zenon, <1>1, <1>2 DEF BackupsStep

\* Up to the publication of the backup.
LEMMA CopyInv ==
    ASSUME BackupsInv, NEW r \in BackupRuns, BackupFails(r) \/ \E k \in BlobKeys : CopyBlob(r, k)
    PROVE  BackupsStep
<1>1. runs[r].at = "copying" /\ runs[r] \in Copying /\ UNCHANGED <<referenced, dirs, overlapped>>
  BY Zenon, RunKinds DEF BackupFails, CopyBlob, BackupsInv, BackupsType
<1>2. CASE runs' = [runs EXCEPT ![r] = [at |-> "done"]]
  BY Zenon, <1>1, <1>2, RunOnly, Blanks
<1>3. ASSUME NEW k \in BlobKeys, runs' = [runs EXCEPT ![r].blobs = @ \cup {k}] PROVE BackupsStep
  <2> DEFINE w == [runs[r] EXCEPT !.blobs = @ \cup {k}]
  <2>1. w \in Copying /\ w.at = "copying"
    BY Zenon, <1>1 DEF Copying
  <2>2. runs' = [runs EXCEPT ![r] = w]
    BY Zenon, <1>3 DEF BackupsInv, BackupsType
  <2> HIDE DEF w
  <2>3. QED
    BY Zenon, <1>1, <2>1, <2>2, RunOnly DEF Run
<1>4. QED
  BY Zenon, <1>2, <1>3 DEF BackupFails, CopyBlob, Finish

\* A run starts, after the others or beside one.
LEMMA StartInv == ASSUME BackupsInv, NEW r \in BackupRuns, StartBackup(r) PROVE BackupsStep
<1>1. Snapshot \in Run /\ Snapshot.at = "copying"
  BY Zenon DEF Snapshot, Run, Copying, BackupsInv, BackupsType
<1>2. runs' = [runs EXCEPT ![r] = Snapshot] /\ UNCHANGED <<referenced, dirs>> /\ runs[r].at = "idle"
  BY Zenon, Blanks DEF StartBackup
<1>3. BackupsType' /\ PublishedIsWhole'
  BY Zenon, <1>1, <1>2, WholeStep, Blanks DEF BackupsInv, StepOf, Places
<1>4. ~overlapped' => ~overlapped /\ UnderWay = {}
  BY Zenon DEF StartBackup
<1>5. \A m \in BackupRuns : m < r => runs[m].at # "idle"
  <2>1. \A m \in BackupRuns : runs[m] \in Run /\ (runs[m].at = "idle" => runs[m] = Idle)
    BY Zenon DEF BackupsInv, BackupsType, Run, Waiting, Copying, Listing, Pruning, Idle
  <2>2. QED
    BY Zenon, <2>1 DEF StartBackup
<1>6. ASSUME ~overlapped' PROVE Orderly' /\ Kept
  <2>1. Orderly /\ UnderWay \subseteq {r}
    BY Zenon, <1>4, <1>6 DEF BackupsInv
  <2>2. \A m \in BackupRuns : dirs'["local"][m] = dirs["local"][m]
    BY Zenon, <1>2
  <2>3. QED
    BY Zenon, <1>1, <1>2, <1>3, <1>5, <2>1, <2>2, OtherStep DEF BackupsInv
<1>7. QED
  BY Zenon, <1>3, <1>6 DEF BackupsStep

\* A step that changes the run and its own local directory.
LEMMA OwnDirInv ==
    ASSUME BackupsInv, NEW r \in BackupRuns, NEW w \in Run, NEW d \in Dir,
           runs[r].at \in {"copying", "published", "discard"}, w.at \notin {"idle", "copying", "pruning"},
           runs' = [runs EXCEPT ![r] = w], dirs' = [dirs EXCEPT !["local"][r] = d], UNCHANGED <<referenced, overlapped>>,
           d.state = "published" => d.blobs = d.db,
           ~overlapped => /\ w.at = "published" => d.drill = "none"
                          /\ w.at = "discard" <=> d.drill = "failed"
                          /\ d.drill = "passed" => d.state = "published" /\ runs[r].at = "published"
    PROVE  BackupsStep
<1>1. BackupsType' /\ PublishedIsWhole'
  BY Zenon, WholeStep DEF BackupsInv, StepOf, Places
<1>2. Local(r)' = d /\ \A m \in BackupRuns \ {r} : Local(m)' = Local(m)
  <2>1. BackupsType /\ "local" \in Places
    BY Zenon DEF BackupsInv, Places
  <2>2. dirs["local"] \in [BackupRuns -> Dir] /\ dirs'["local"] = [dirs["local"] EXCEPT ![r] = d]
    BY Zenon, <2>1 DEF BackupsType
  <2>3. QED
    BY <2>2 DEF Local
<1>3. ASSUME ~overlapped' PROVE Orderly' /\ Kept
  <2>1. ~overlapped /\ Orderly /\ UnderWay \subseteq {r}
    BY Zenon, <1>3, RunAlone
  <2>2. ~Passed(r)
    BY Zenon, <2>1 DEF Orderly, Drills, Passed
  <2>3. Listed(w)'
    BY Zenon DEF Listed
  <2>4. runs[r].at # "done" /\ runs[r].at # "idle" /\ w.at # "idle" /\ w.at # "copying"
    BY Zenon
  <2>5. ~(d.state = "removing" /\ d.drill = "passed") /\ (d.drill = "passed" => runs[r].at = "published")
    BY Zenon, <2>1
  <2>6. QED
    BY Zenon, <1>1, <1>2, <2>1, <2>2, <2>3, <2>4, <2>5, OwnDirStep DEF BackupsInv
<1>4. QED
  BY Zenon, <1>1, <1>3 DEF BackupsStep

\* Publication, whether the run goes on or ends there.
LEMMA PublishInv == ASSUME BackupsInv, NEW r \in BackupRuns, PublishBackup(r) PROVE BackupsStep
<1> DEFINE d == [state |-> "published", db |-> runs[r].db, blobs |-> runs[r].blobs, drill |-> "none"]
<1>1. runs[r].at = "copying" /\ runs[r] \in Copying /\ runs[r].blobs = runs[r].db
  BY Zenon, RunKinds DEF PublishBackup, BackupsInv, BackupsType
<1>2. runs[r].db \in SUBSET BlobKeys /\ runs[r].blobs \in SUBSET BlobKeys
  BY Zenon, <1>1 DEF Copying
<1>3. d \in Dir /\ d.state = "published" /\ d.blobs = d.db /\ d.drill = "none"
  BY <1>1, <1>2, Zenon DEF Dir
<1>4. dirs' = [dirs EXCEPT !["local"][r] = d] /\ UNCHANGED <<referenced, overlapped>>
  BY Zenon DEF PublishBackup, NewDir
<1> HIDE DEF d
<1>5. CASE runs' = [runs EXCEPT ![r].at = "published"]
  <2> DEFINE w == [runs[r] EXCEPT !.at = "published"]
  <2>1. w \in Run /\ w.at = "published"
    BY Zenon, <1>1 DEF Copying, Run
  <2>2. runs' = [runs EXCEPT ![r] = w]
    BY Zenon, <1>5 DEF BackupsInv, BackupsType
  <2> HIDE DEF w
  <2>3. QED
    BY Zenon, <1>1, <1>3, <1>4, <2>1, <2>2, OwnDirInv
<1>6. CASE Finish(r)
  BY Zenon, <1>1, <1>3, <1>4, <1>6, Blanks, OwnDirInv DEF Finish
<1>7. QED
  BY Zenon, <1>5, <1>6 DEF PublishBackup

\* A run that failed after its backup goes on to prune.
LEMMA FailedRun ==
    ASSUME NEW step \in Failures
    PROVE  /\ [at |-> "prune", place |-> "local", failed |-> step] \in Run
           /\ [at |-> "prune", place |-> "local", failed |-> step].at = "prune"
BY Zenon DEF Run, Listing, Places

\* A directory with another drill.
LEMMA Drilled ==
    ASSUME NEW old \in Dir, NEW drill \in {"none", "passed", "failed", "left"}
    PROVE  /\ [old EXCEPT !.drill = drill] \in Dir
           /\ [old EXCEPT !.drill = drill].state = old.state /\ [old EXCEPT !.drill = drill].drill = drill
           /\ [old EXCEPT !.drill = drill].db = old.db /\ [old EXCEPT !.drill = drill].blobs = old.blobs
BY Zenon DEF Dir

\* Recording a drill, or that the directory which failed it stays, leaves what
\* the directory holds alone.
LEMMA DrillRecorded ==
    ASSUME BackupsInv, NEW r \in BackupRuns, NEW w \in Run, NEW drill \in {"none", "passed", "failed", "left"},
           runs[r].at \in {"published", "discard"}, w.at \notin {"idle", "copying", "published", "pruning"},
           runs' = [runs EXCEPT ![r] = w], dirs' = [dirs EXCEPT !["local"][r].drill = drill],
           UNCHANGED <<referenced, overlapped>>, w.at = "discard" <=> drill = "failed",
           drill = "passed" => dirs["local"][r].state = "published" /\ runs[r].at = "published"
    PROVE  BackupsStep
<1> DEFINE old == dirs["local"][r]
           d == [old EXCEPT !.drill = drill]
<1>1. old \in Dir /\ (old.state = "published" => old.blobs = old.db)
  BY Zenon DEF BackupsInv, BackupsType, Places, PublishedIsWhole, Published, WholeDir
<1>2. dirs' = [dirs EXCEPT !["local"][r] = d]
  BY Zenon
<1> HIDE DEF old
<1>3. d \in Dir /\ d.state = old.state /\ d.drill = drill /\ d.db = old.db /\ d.blobs = old.blobs
  BY Zenon, <1>1, Drilled
<1> HIDE DEF d
<1>4. d.state = "published" => d.blobs = d.db
  BY Zenon, <1>1, <1>3
<1>5. drill = "passed" => d.state = "published" /\ runs[r].at = "published"
  BY Zenon, <1>3 DEF old
<1>6. QED
  BY Zenon, <1>2, <1>3, <1>4, <1>5, OwnDirInv

\* The drill restores the copy beside the server: it passes, or the directory
\* that failed it is to go.
LEMMA DrillInv == ASSUME BackupsInv, NEW r \in BackupRuns, DrillPasses(r) \/ DrillFails(r) PROVE BackupsStep
<1>1. runs[r].at = "published" /\ dirs["local"][r] \in Dir /\ UNCHANGED <<referenced, overlapped>>
  BY Zenon DEF DrillPasses, DrillFails, BackupsInv, BackupsType, Places
<1>2. "verify" \in Failures
  BY Zenon DEF Failures
<1>3. CASE DrillPasses(r)
  <2>1. dirs["local"][r].state = "published" /\ dirs' = [dirs EXCEPT !["local"][r].drill = "passed"]
    BY <1>3, Zenon DEF DrillPasses, WholeDir
  <2>2. CASE runs' = [runs EXCEPT ![r] = [at |-> "offsite", db |-> dirs["local"][r].db, blobs |-> {}]]
    <3> DEFINE w == [at |-> "offsite", db |-> dirs["local"][r].db, blobs |-> {}]
    <3>1. w \in Run /\ w.at = "offsite"
      BY Zenon, <1>1 DEF Dir, Copying, Run
    <3> HIDE DEF w
    <3>2. QED
      BY Zenon, <1>1, <2>1, <2>2, <3>1, DrillRecorded DEF w
  <2>3. CASE FailAfterBackup(r, "verify")
    BY Zenon, <1>1, <1>2, <2>1, <2>3, FailedRun, DrillRecorded DEF FailAfterBackup
  <2>4. QED
    BY Zenon, <1>3, <2>2, <2>3 DEF DrillPasses
<1>4. CASE DrillFails(r)
  BY Zenon, <1>1, <1>4, Blanks, DrillRecorded DEF DrillFails
<1>5. QED
  BY Zenon, <1>3, <1>4

\* The directory that failed its drill goes, or stays undrilled.
LEMMA DiscardInv == ASSUME BackupsInv, NEW r \in BackupRuns, Discard(r) PROVE BackupsStep
<1>1. runs[r].at = "discard" /\ dirs["local"][r] \in Dir /\ runs[r] \in Run /\ UNCHANGED <<referenced, overlapped>>
  BY Zenon DEF Discard, BackupsInv, BackupsType, Places
<1>2. "verify" \in Failures
  BY Zenon DEF Failures
<1>3. CASE BeginRemoval("local", r) /\ UNCHANGED runs
  <2> DEFINE old == dirs["local"][r]
  <2>1. PICK state \in {"removing", "bare"} :
           dirs' = [dirs EXCEPT !["local"][r] = [old EXCEPT !.state = state, !.blobs = {}]]
    BY Zenon, <1>3 DEF BeginRemoval
  <2>2. ~overlapped => old.drill = "failed"
    BY Zenon, <1>1 DEF BackupsInv, Orderly, Drills, Local
  <2>3. old \in Dir
    BY Zenon, <1>1
  <2> HIDE DEF old
  <2>4. PICK d \in Dir : dirs' = [dirs EXCEPT !["local"][r] = d] /\ d.state = state /\ d.drill = old.drill
    <3>1. /\ [old EXCEPT !.state = state, !.blobs = {}] \in Dir
          /\ [old EXCEPT !.state = state, !.blobs = {}].state = state
          /\ [old EXCEPT !.state = state, !.blobs = {}].drill = old.drill
      BY Zenon, <2>3 DEF Dir
    <3>2. QED
      BY Zenon, <2>1, <3>1
  <2>5. runs' = [runs EXCEPT ![r] = runs[r]]
    BY Zenon, <1>3 DEF BackupsInv, BackupsType
  <2>6. QED
    BY Zenon, <1>1, <2>2, <2>4, <2>5, OwnDirInv
<1>4. CASE EndRemoval("local", r) /\ FailAfterBackup(r, "verify")
  BY Zenon, <1>1, <1>2, <1>4, Blanks, FailedRun, OwnDirInv DEF EndRemoval, FailAfterBackup
<1>5. CASE dirs' = [dirs EXCEPT !["local"][r].drill = "left"] /\ FailAfterBackup(r, "verify")
  BY Zenon, <1>1, <1>2, <1>5, FailedRun, DrillRecorded DEF FailAfterBackup
<1>6. QED
  BY Zenon, <1>3, <1>4, <1>5 DEF Discard

\* The copy off the host.
LEMMA OffsiteInv ==
    ASSUME BackupsInv, NEW r \in BackupRuns,
           PublishOffsite(r) \/ OffsiteFails(r) \/ \E k \in BlobKeys : CopyOffsite(r, k)
    PROVE  BackupsStep
<1>1. runs[r].at = "offsite" /\ runs[r] \in Copying /\ UNCHANGED <<referenced, overlapped>>
  BY Zenon, RunKinds DEF PublishOffsite, OffsiteFails, CopyOffsite, BackupsInv, BackupsType
<1>2. "offsite" \in Failures /\ "" \in Failures
  BY Zenon DEF Failures
<1>3. CASE OffsiteFails(r)
  BY Zenon, <1>1, <1>2, <1>3, FailedRun, RunOnly DEF OffsiteFails, FailAfterBackup
<1>4. ASSUME NEW k \in BlobKeys, CopyOffsite(r, k) PROVE BackupsStep
  <2> DEFINE w == [runs[r] EXCEPT !.blobs = @ \cup {k}]
  <2>1. w \in Copying /\ w.at = "offsite"
    BY Zenon, <1>1 DEF Copying
  <2>2. runs' = [runs EXCEPT ![r] = w] /\ UNCHANGED dirs
    BY Zenon, <1>4 DEF CopyOffsite, BackupsInv, BackupsType
  <2> HIDE DEF w
  <2>3. QED
    BY Zenon, <1>1, <2>1, <2>2, RunOnly DEF Run
<1>5. CASE PublishOffsite(r)
  <2> DEFINE d == [state |-> "published", db |-> runs[r].db, blobs |-> runs[r].blobs, drill |-> "passed"]
  <2>1. PICK w \in Run : w.at = "prune" /\ runs' = [runs EXCEPT ![r] = w]
    BY Zenon, <1>2, <1>5, FailedRun DEF PublishOffsite, FailAfterBackup
  <2>2. runs[r].db \in SUBSET BlobKeys /\ runs[r].blobs \in SUBSET BlobKeys
    BY Zenon, <1>1 DEF Copying
  <2>3. d \in Dir /\ d.blobs = d.db
    BY <1>5, <2>2, Zenon DEF Dir, PublishOffsite
  <2>4. dirs' = [dirs EXCEPT !["offsite"][r] = d]
    BY <1>5, Zenon DEF PublishOffsite, NewDir
  <2> HIDE DEF d
  <2>5. BackupsType' /\ PublishedIsWhole'
    BY Zenon, <1>1, <2>1, <2>3, <2>4, WholeStep DEF BackupsInv, StepOf, Places
  <2>6. \A m \in BackupRuns : dirs'["local"][m] = dirs["local"][m]
    BY Zenon, <2>3, <2>4, DirChanged DEF BackupsInv, Places
  <2>7. ASSUME ~overlapped' PROVE Orderly' /\ Kept
    <3>1. Orderly /\ UnderWay \subseteq {r}
      BY Zenon, <1>1, <2>7, RunAlone
    <3>2. QED
      BY Zenon, <1>1, <2>1, <2>5, <2>6, <3>1, OtherStep DEF BackupsInv
  <2>8. QED
    BY Zenon, <2>5, <2>7 DEF BackupsStep
<1>6. QED
  BY Zenon, <1>3, <1>4, <1>5

\* Pruning.
LEMMA PruneInv ==
    ASSUME BackupsInv, NEW r \in BackupRuns, ListBackups(r) \/ RemoveOldest(r) \/ PruneFails(r) \/ PruneEnds(r)
    PROVE  BackupsStep
<1>1. CASE ListBackups(r)
  <2> DEFINE w == [at |-> "pruning", place |-> runs[r].place, failed |-> runs[r].failed,
                   doomed |-> Surplus(runs[r].place)]
  <2>1. runs[r].at = "prune" /\ runs[r] \in Listing /\ Surplus(runs[r].place) \subseteq BackupRuns
    BY Zenon, <1>1, RunKinds DEF ListBackups, BackupsInv, BackupsType, Surplus, Counted
  <2>2. w \in Run
    BY Zenon, <2>1 DEF Run, Pruning, Listing
  <2>3. runs' = [runs EXCEPT ![r] = w] /\ UNCHANGED <<referenced, dirs, overlapped>>
    BY Zenon, <1>1 DEF ListBackups, BackupsInv, BackupsType
  <2> HIDE DEF w
  <2>4. BackupsType' /\ PublishedIsWhole'
    BY Zenon, <2>2, <2>3, WholeStep, Blanks DEF BackupsInv, StepOf, Places
  <2>5. ASSUME ~overlapped' PROVE Orderly' /\ Kept
    <3>1. Orderly /\ UnderWay \subseteq {r}
      BY Zenon, <2>1, <2>3, <2>5, RunAlone
    <3>2. QED
      BY Zenon, <1>1, <3>1, ListedStep DEF BackupsInv
  <2>6. QED
    BY Zenon, <2>4, <2>5 DEF BackupsStep
<1>2. CASE RemoveOldest(r)
  <2>1. runs[r].at = "pruning" /\ UNCHANGED <<referenced, overlapped>>
    BY Zenon, <1>2 DEF RemoveOldest
  <2>2. BackupsType
    BY Zenon DEF BackupsInv
  <2>3. BackupsType' /\ PublishedIsWhole'
    <3>1. PICK n \in BackupRuns, d \in Dir, w \in Run :
             /\ n \in runs[r].doomed /\ \A m \in runs[r].doomed : n <= m
             /\ dirs' = [dirs EXCEPT ![runs[r].place][n] = d]
             /\ runs' = [runs EXCEPT ![r] = w] /\ w.at = "pruning" /\ w.place = runs[r].place
             /\ \/ /\ d.state \in {"removing", "bare"} /\ d.drill = dirs[runs[r].place][n].drill
                   /\ dirs[runs[r].place][n].state = "published" /\ w.doomed = runs[r].doomed
                \/ /\ d.state = "none" /\ w.doomed = runs[r].doomed \ {n}
                   /\ dirs[runs[r].place][n].state # "published"
      BY Zenon, <1>2, <2>2, RemovedShape
    <3>2. runs[r].place \in Places /\ d.state # "published"
      BY Zenon, <1>2, <2>2, <3>1, RemovedShape
    <3>3. QED
      BY Zenon, <2>1, <3>1, <3>2, WholeStep DEF BackupsInv, StepOf
  <2>4. ASSUME ~overlapped' PROVE Orderly' /\ Kept
    <3>1. Orderly /\ UnderWay \subseteq {r}
      BY Zenon, <2>1, <2>4, RunAlone
    <3>2. QED
      BY Zenon, <1>2, <2>3, <3>1, RemovedStep DEF BackupsInv
  <2>5. QED
    BY Zenon, <2>3, <2>4 DEF BackupsStep
<1>3. CASE PruneFails(r)
  BY Zenon, <1>3, Blanks, RunOnly DEF PruneFails, Finish
<1>4. CASE PruneEnds(r)
  <2>1. runs[r].at = "pruning" /\ UNCHANGED <<referenced, dirs, overlapped>>
    BY Zenon, <1>4 DEF PruneEnds
  <2>2. CASE Finish(r)
    BY Zenon, <2>1, <2>2, Blanks, RunOnly DEF Finish
  <2>3. CASE runs' = [runs EXCEPT ![r] = [at |-> "prune", place |-> "offsite", failed |-> ""]]
    <3> DEFINE w == [at |-> "prune", place |-> "offsite", failed |-> ""]
    <3>1. w \in Run /\ w.at = "prune"
      BY Zenon DEF Run, Listing, Places, Failures
    <3>2. runs' = [runs EXCEPT ![r] = w]
      BY <2>3, Zenon
    <3> HIDE DEF w
    <3>3. QED
      BY Zenon, <2>1, <3>1, <3>2, RunOnly
  <2>4. QED
    BY <1>4, <2>2, <2>3, Zenon DEF PruneEnds
<1>5. QED
  BY Zenon, <1>1, <1>2, <1>3, <1>4

\* A crash at any step.
LEMMA CrashInv == ASSUME BackupsInv, NEW r \in BackupRuns, RunCrashes(r) PROVE BackupsStep
<1>1. /\ runs[r].at \notin {"idle", "done"} /\ UNCHANGED <<referenced, overlapped>>
      /\ runs' = [runs EXCEPT ![r] = [at |-> "done"]]
      /\ dirs' = IF runs[r].at = "discard" THEN [dirs EXCEPT !["local"][r].drill = "left"] ELSE dirs
  BY Zenon DEF RunCrashes, UnderWay, Finish
<1>2. CASE runs[r].at = "discard"
  BY Zenon, <1>1, <1>2, Blanks, DrillRecorded
<1>3. CASE runs[r].at # "discard"
  BY Zenon, <1>1, <1>3, Blanks, RunOnly
<1>4. QED
  BY Zenon, <1>2, <1>3

\* The server beside the runs, and the verify command, touch no backup.
LEMMA BesideInv ==
    ASSUME BackupsInv, \/ \E k \in BlobKeys : ServerStores(k) \/ ServerDeletes(k)
                       \/ \E n \in BackupRuns, passed \in BOOLEAN : VerifyBackup(n, passed)
                       \/ UNCHANGED backupVars
    PROVE  BackupsStep
<1>1. UNCHANGED <<dirs, runs, overlapped>> /\ referenced' \subseteq BlobKeys
  BY Zenon DEF ServerStores, ServerDeletes, VerifyBackup, backupVars, BackupsInv, BackupsType
<1>2. BackupsType' /\ PublishedIsWhole'
  BY Zenon, <1>1 DEF BackupsInv, BackupsType, PublishedIsWhole, Published
<1>3. /\ InTurn' <=> InTurn
      /\ Drills' <=> Drills
      /\ Remains' <=> Remains
  BY ZenonT(60), <1>1 DEF InTurn, UnderWay, Drills, Remains, Passed, Local
<1>4. (\A r \in BackupRuns : Listed(runs[r])') <=> \A r \in BackupRuns : Listed(runs[r])
  BY ZenonT(60), <1>1 DEF Listed, Newer, Counted, Passed, Local
<1>5. Kept
  BY Zenon, <1>1 DEF Kept, Verified
<1>6. QED
  BY Zenon, <1>1, <1>2, <1>3, <1>4, <1>5 DEF BackupsStep, BackupsInv, Orderly

\* Every step.
LEMMA BackupsStepInv == BackupsInv /\ [BackupsNext]_backupVars => BackupsStep
BY StartInv, CopyInv, PublishInv, DrillInv, DiscardInv, OffsiteInv, PruneInv, CrashInv, BesideInv, Zenon DEF BackupsNext

\* A published backup is whole at every step of any number of runs, which may
\* overlap, fail, crash and prune each other's directories, beside a server
\* that stores and deletes blobs (backup, copyBackupOffsite).
THEOREM PublishedAreWhole == BackupsSpec => []PublishedIsWhole
<1>1. BackupsInv /\ [BackupsNext]_backupVars => BackupsInv'
  BY Zenon, BackupsStepInv DEF BackupsStep, BackupsInv
<1>2. BackupsInv => PublishedIsWhole
  BY Zenon DEF BackupsInv
<1>3. QED
  BY BackupsInitInv, <1>1, <1>2, PTL DEF BackupsSpec

\* With any number of runs, blobs and backups to keep, runs that do not overlap
\* remove the last backup that passed its drill only where KeepCount undrilled
\* ones, published by the backup command or left by a failure or a crash, stand
\* in its place: a backup that failed its drill and was removed never counts
\* (scheduled_backup.go:81-83, pruneBackups).
THEOREM VerifiedIsKept == BackupsSpec => VerifiedKept
<1>1. BackupsInv /\ [BackupsNext]_backupVars => BackupsInv'
  BY Zenon, BackupsStepInv DEF BackupsStep, BackupsInv
<1>2. BackupsInv /\ [BackupsNext]_backupVars =>
        [~overlapped' /\ Verified # {} => Verified' # {} \/ Cardinality(Undrilled') >= KeepCount]_backupVars
  BY Zenon, BackupsStepInv DEF BackupsStep, Kept
<1>3. QED
  BY BackupsInitInv, <1>1, <1>2, PTL DEF BackupsSpec, VerifiedKept

-----------------------------------------------------------------------------
(***************************************************************************)
(* Restore: a server only ever opens a whole instance, for any companions, *)
(* restores, kills and power losses.                                       *)
(***************************************************************************)

RestoreSpec == RestoreInit /\ [][RestoreNext]_restoreVars

Generations == Nat \cup {Missing, Empty}
Journal == {j \in [state : {"activating", "activated"}, listed : SUBSET Items, blobs : BOOLEAN] :
               "blobs" \in j.listed => j.blobs}

Disk == [file : [Items -> Generations], kept : [Items -> Generations], journal : Journal \cup {NoJournal}]

RestoreType ==
    /\ file \in [Items -> Generations] /\ kept \in [Items -> Generations]
    /\ journal \in Journal \cup {NoJournal}
    /\ disk \in [file : [Items -> Generations], kept : [Items -> Generations], journal : Journal \cup {NoJournal}]
    /\ begun \in Nat /\ original \in [Items -> Generations] /\ promised \in Generations

\* An empty blob directory stands for none.
Alike(x, y) == x = y \/ {x, y} \subseteq {Missing, Empty}

\* x is what was at i when the restore began.
Original(i, x) == x = original[i] \/ (i = "blobs" /\ Alike(x, original[i]))

\* The original of an item is where the journal that a power loss cannot take
\* back says: set aside if anything is, and else in its place.
Traced(f, k, i) ==
    IF i \in disk.journal.listed THEN Original(i, IF k[i] = Missing THEN f[i] ELSE k[i])
    ELSE IF i = "blobs" /\ ~disk.journal.blobs THEN Original(i, f[i])
    ELSE original[i] = Missing

Originals(f) == \A i \in Items : Original(i, f[i])

Restored(f) ==
    /\ f["database"] = begun /\ Alike(f["blobs"], promised)
    /\ \A c \in Companions : f[c] = Missing

\* The journal on disk is the one in use, at most one write behind it.
JournalInv ==
    /\ disk.journal = NoJournal => journal = NoJournal
    /\ journal # NoJournal => journal.listed = disk.journal.listed /\ journal.blobs = disk.journal.blobs
    /\ disk.journal.state = "activated" => journal.state # "activating"
    /\ disk.journal # NoJournal =>
          /\ \A i \in Items : Traced(file, kept, i) /\ Traced(disk.file, disk.kept, i)
          /\ promised = IF disk.journal.blobs THEN begun ELSE original["blobs"]

ServerInv ==
    /\ server \in {"locked", "open", "up"} => command = "idle"
    /\ server \in {"open", "up"} => journal = NoJournal
    /\ server = "up" => disk.journal = NoJournal /\ ~reported
    /\ server \in {"locked", "open"} => file["blobs"] # Missing

SetAside == \A i \in journal.listed : kept[i] # Missing

\* What each step of the command relies on.
CommandInv ==
    /\ command \in {"idle", "stage", "sync"} \/ journal # NoJournal
    /\ command \in {"stage", "sync"} => journal = NoJournal
    /\ command \in {"preserve", "activate", "validate", "record", "rollback"} => journal.state = "activating"
    /\ command = "preserve" => \A c \in Companions : file[c] = Missing \/ (c \in journal.listed /\ kept[c] = Missing)
    /\ command \in {"activate", "validate", "record"} => SetAside
    /\ command = "activate" => \A c \in Companions : file[c] = Missing
    /\ command \in {"validate", "record"} => Restored(file) /\ Restored(disk.file)
    /\ command = "finish" => journal.state = "activated" /\ disk.journal.state = "activated"
    /\ command = "unjournal" /\ journal.state = "activating" => Originals(file) /\ Originals(disk.file)

\* Without a journal the instance is whole, now and after a power loss.
OutcomeInv ==
    /\ journal = NoJournal => \/ Originals(file) /\ Originals(disk.file)
                              \/ committed /\ Restored(file) /\ Restored(disk.file)
    /\ journal.state = "activated" \/ disk.journal.state = "activated" \/ reported =>
          committed /\ Restored(file) /\ Restored(disk.file)
    /\ reported => journal.state # "activating" /\ disk.journal.state # "activating"

RestoreInv == RestoreType /\ JournalInv /\ ServerInv /\ CommandInv /\ OutcomeInv

\* No journal is one in no state, that lists nothing.
LEMMA NoJournalFacts == NoJournal.state = "none" /\ NoJournal.listed = {} /\ NoJournal.blobs = FALSE
BY DEF NoJournal

\* What a journal can say.
LEMMA JournalFacts ==
    ASSUME NEW j \in Journal \cup {NoJournal}
    PROVE  /\ j = NoJournal <=> j.state = "none"
           /\ j.state \in {"none", "activating", "activated"}
           /\ j.listed \subseteq Items /\ j.blobs \in BOOLEAN
           /\ "blobs" \in j.listed => j.blobs
<1>1. CASE j \in Journal
  BY Zenon, <1>1, NoJournalFacts DEF Journal
<1>2. CASE j = NoJournal
  BY Zenon, <1>2, NoJournalFacts
<1>3. QED
  BY Zenon, <1>1, <1>2

\* writeJournal changes nothing of a journal but its state.
LEMMA JournalActivated ==
    ASSUME NEW j \in Journal
    PROVE  /\ [j EXCEPT !.state = "activated"] \in Journal
           /\ [j EXCEPT !.state = "activated"].state = "activated"
           /\ [j EXCEPT !.state = "activated"].listed = j.listed
           /\ [j EXCEPT !.state = "activated"].blobs = j.blobs
BY DEF Journal

\* A sync of one directory keeps what is durable of the others.
LEMMA DiskJournal ==
    ASSUME NEW d \in Disk, NEW j \in Journal \cup {NoJournal}
    PROVE  /\ [d EXCEPT !.journal = j] \in Disk
           /\ [d EXCEPT !.journal = j].file = d.file
           /\ [d EXCEPT !.journal = j].kept = d.kept
           /\ [d EXCEPT !.journal = j].journal = j
<1>1. d \in [file : {d.file}, kept : {d.kept}, journal : {d.journal}]
  BY Zenon DEF Disk
<1>2. [d EXCEPT !.journal = j] \in [file : {d.file}, kept : {d.kept}, journal : {j}]
  BY <1>1
<1>3. QED
  BY Zenon, <1>2 DEF Disk

\* A server's writes are durable.
LEMMA DiskFile ==
    ASSUME NEW d \in Disk, NEW f \in [Items -> Generations]
    PROVE  /\ [d EXCEPT !.file = f] \in Disk
           /\ [d EXCEPT !.file = f].file = f
           /\ [d EXCEPT !.file = f].kept = d.kept
           /\ [d EXCEPT !.file = f].journal = d.journal
<1>1. d \in [file : {d.file}, kept : {d.kept}, journal : {d.journal}]
  BY Zenon DEF Disk
<1>2. [d EXCEPT !.file = f] \in [file : {f}, kept : {d.kept}, journal : {d.journal}]
  BY <1>1
<1>3. QED
  BY Zenon, <1>2 DEF Disk

\* The database, the blobs and the companions are different files.
LEMMA ItemFacts ==
    /\ "database" \in Items /\ "blobs" \in Items /\ Companions \subseteq Items
    /\ \A c \in Companions : c # "database" /\ c # "blobs"
BY RestoreAssumption, Zenon DEF Items

LEMMA AlikeTransitive ==
    ASSUME NEW x, NEW y, NEW z, Alike(x, z), Alike(y, z)
    PROVE  Alike(x, y)
BY Zenon DEF Alike

\* A step that leaves the files, the journal and the command's bookkeeping
\* alone keeps what they are about.
LEMMA SameFiles ==
    ASSUME RestoreInv,
           UNCHANGED <<file, kept, journal, disk, begun, original, promised, committed, reported>>
    PROVE  RestoreType' /\ JournalInv' /\ OutcomeInv'
<1>1. RestoreType'
  BY Zenon DEF RestoreInv, RestoreType
<1>2. JournalInv'
  BY ZenonT(60) DEF RestoreInv, JournalInv, Traced, Original, Alike
<1>3. OutcomeInv'
  BY Zenon DEF RestoreInv, OutcomeInv, Originals, Original, Alike, Restored
<1>4. QED
  BY Zenon, <1>1, <1>2, <1>3

\* While an activation is under way nothing has been reported, and the journal
\* is on disk.
LEMMA Activating ==
    ASSUME RestoreInv, journal.state = "activating"
    PROVE  /\ ~reported /\ disk.journal.state = "activating"
           /\ journal \in Journal /\ disk.journal \in Journal /\ disk.journal # NoJournal
           /\ journal.listed = disk.journal.listed /\ journal.blobs = disk.journal.blobs
           /\ promised = IF journal.blobs THEN begun ELSE original["blobs"]
           /\ \A i \in Items : Traced(file, kept, i) /\ Traced(disk.file, disk.kept, i)
<1>1. journal # NoJournal /\ ~reported /\ disk.journal # NoJournal
  BY Zenon, NoJournalFacts DEF RestoreInv, OutcomeInv, JournalInv
<1>2. disk.journal \in Journal \cup {NoJournal} /\ journal \in Journal \cup {NoJournal}
  BY Zenon DEF RestoreInv, RestoreType
<1>3. disk.journal.state = "activating"
  BY Zenon, <1>1, <1>2, JournalFacts DEF RestoreInv, JournalInv
<1>4. QED
  BY Zenon, <1>1, <1>2, <1>3 DEF RestoreInv, JournalInv

\* and no outcome is promised yet.
LEMMA NoOutcome ==
    ASSUME journal'.state = "activating", disk'.journal.state = "activating", ~reported'
    PROVE  OutcomeInv'
BY Zenon, NoJournalFacts DEF OutcomeInv

\* No server holds the locks while a command runs.
LEMMA NoServer ==
    ASSUME RestoreInv, command # "idle"
    PROVE  server \notin {"locked", "open", "up"}
BY Zenon DEF RestoreInv, ServerInv

-----------------------------------------------------------------------------

\* At the start nothing has been restored.
LEMMA RestoreInitInv == RestoreInit => RestoreInv
<1> SUFFICES ASSUME RestoreInit PROVE RestoreInv
  OBVIOUS
<1>1. {Missing, 0} \subseteq Generations /\ Missing \in Generations
  BY DEF Generations, Missing
<1>2. file \in [Items -> Generations] /\ kept \in [Items -> Generations]
  BY Zenon, <1>1 DEF RestoreInit
<1>3. disk.file = file /\ disk.kept = kept /\ disk.journal = NoJournal
  BY Zenon DEF RestoreInit, Now
<1>4. disk \in Disk
  BY Zenon, <1>2 DEF RestoreInit, Now, Disk
<1>5. RestoreType
  BY <1>1, <1>2, <1>4 DEF RestoreInit, RestoreType, Disk
<1>6. JournalInv
  BY Zenon, <1>3, NoJournalFacts DEF RestoreInit, JournalInv
<1>7. ServerInv /\ CommandInv
  BY Zenon DEF RestoreInit, ServerInv, CommandInv
<1>8. OutcomeInv
  BY Zenon, <1>3, NoJournalFacts DEF RestoreInit, OutcomeInv, Originals, Original
<1>9. QED
  BY Zenon, <1>5, <1>6, <1>7, <1>8 DEF RestoreInv

\* The steps that change neither files nor journal: staging the backup,
\* validating, giving up, starting to settle, and the server's two checks.
LEMMA CommandStepInv ==
    ASSUME RestoreInv,
           \/ stageBackup \/ Validate \/ ActivationFails \/ RecoverInterruptedRestore
           \/ ServerChecks \/ RequireSettledRestore
    PROVE  RestoreInv'
<1>0. journal \in Journal \cup {NoJournal}
  BY Zenon DEF RestoreInv, RestoreType
<1>1. RestoreType' /\ JournalInv' /\ OutcomeInv'
  BY Zenon, SameFiles DEF stageBackup, Validate, ActivationFails, RecoverInterruptedRestore,
     ServerChecks, RequireSettledRestore
<1>2. CASE stageBackup
  <2>1. ServerInv'
    BY Zenon, <1>2 DEF RestoreInv, ServerInv, stageBackup, Exclusive
  <2>2. CommandInv'
    BY Zenon, <1>2 DEF CommandInv, stageBackup
  <2>3. QED
    BY Zenon, <1>1, <2>1, <2>2 DEF RestoreInv
<1>3. CASE Validate
  <2>1. ServerInv'
    BY Zenon, <1>3, NoServer DEF RestoreInv, ServerInv, Validate
  <2>2. CommandInv'
    BY Zenon, <1>3 DEF RestoreInv, CommandInv, Validate, SetAside, Restored
  <2>3. QED
    BY Zenon, <1>1, <2>1, <2>2 DEF RestoreInv
<1>4. CASE ActivationFails
  <2>1. ServerInv'
    BY Zenon, <1>4, NoServer DEF RestoreInv, ServerInv, ActivationFails
  <2>2. CommandInv'
    BY Zenon, <1>4 DEF RestoreInv, CommandInv, ActivationFails
  <2>3. QED
    BY Zenon, <1>1, <2>1, <2>2 DEF RestoreInv
<1>5. CASE RecoverInterruptedRestore
  <2>1. ServerInv'
    BY Zenon, <1>5 DEF RestoreInv, ServerInv, RecoverInterruptedRestore, Exclusive
  <2>2. journal.state \in {"activating", "activated"}
    BY Zenon, <1>0, <1>5, JournalFacts DEF RecoverInterruptedRestore
  <2>3. CommandInv'
    BY Zenon, <1>5, <2>2 DEF CommandInv, RecoverInterruptedRestore
  <2>4. QED
    BY Zenon, <1>1, <2>1, <2>3 DEF RestoreInv
<1>6. CASE ServerChecks \/ RequireSettledRestore
  <2>1. ServerInv'
    BY Zenon, <1>6 DEF RestoreInv, ServerInv, ServerChecks, RequireSettledRestore
  <2>2. CommandInv'
    BY Zenon, <1>6 DEF RestoreInv, CommandInv, ServerChecks, RequireSettledRestore, SetAside, Restored,
       Originals, Original
  <2>3. QED
    BY Zenon, <1>1, <2>1, <2>2 DEF RestoreInv
<1>7. QED
  BY Zenon, <1>2, <1>3, <1>4, <1>5, <1>6

\* The journal is written before any file moves: the originals are the files
\* as they are, and a power loss brings back none but an empty blob directory.
LEMMA BeginRestoreInv ==
    ASSUME RestoreInv, NEW b \in BOOLEAN, BeginRestore(b)
    PROVE  RestoreInv'
<1> DEFINE L == {i \in Items : file[i] # Missing /\ (i = "blobs" => b)}
<1>1. /\ command = "stage" /\ command' = "preserve" /\ file' = file /\ server' = server
      /\ original' = file /\ committed' = FALSE /\ reported' = FALSE /\ begun' = begun + 1
      /\ kept' = [i \in Items |-> Missing]
      /\ journal' = [state |-> "activating", blobs |-> b, listed |-> L]
      /\ promised' = IF b THEN begun' ELSE file["blobs"]
      /\ disk' = [file |-> [file EXCEPT !["blobs"] = disk.file["blobs"]], kept |-> kept', journal |-> journal']
  BY Zenon DEF BeginRestore
<1>2. journal = NoJournal /\ server \notin {"locked", "open", "up"}
  BY Zenon, <1>1, NoServer DEF RestoreInv, CommandInv
<1>3. journal'.state = "activating" /\ journal'.blobs = b /\ journal'.listed = L
  BY <1>1
<1>4. /\ disk'.file = [file EXCEPT !["blobs"] = disk.file["blobs"]]
      /\ disk'.kept = kept' /\ disk'.journal = journal'
  BY Zenon, <1>1
<1>5. journal' \in Journal
  <2>1. journal' \in [state : {"activating", "activated"}, listed : SUBSET Items, blobs : BOOLEAN]
    BY <1>1
  <2>2. QED
    BY Zenon, <2>1, <1>3 DEF Journal
<1>6. file \in [Items -> Generations] /\ disk.file \in [Items -> Generations] /\ begun \in Nat
  BY Zenon DEF RestoreInv, RestoreType
<1>7. journal' # NoJournal
  BY Zenon, <1>3, NoJournalFacts
<1>8. Alike(disk.file["blobs"], file["blobs"])
  <2>1. CASE Originals(file) /\ Originals(disk.file)
    BY Zenon, <2>1, ItemFacts, AlikeTransitive DEF Originals, Original, Alike
  <2>2. CASE Restored(file) /\ Restored(disk.file)
    BY Zenon, <2>2, AlikeTransitive DEF Restored
  <2>3. QED
    BY Zenon, <1>2, <2>1, <2>2 DEF RestoreInv, OutcomeInv
<1> HIDE DEF L
<1>9. RestoreType'
  <2>1. Missing \in Generations /\ begun + 1 \in Generations /\ begun + 1 \in Nat
    BY <1>6 DEF Generations, Missing
  <2>2. kept' \in [Items -> Generations]
    BY Zenon, <1>1, <2>1
  <2>3. [file EXCEPT !["blobs"] = disk.file["blobs"]] \in [Items -> Generations]
    BY Zenon, <1>6, ItemFacts
  <2>4. disk' \in [file : [Items -> Generations], kept : [Items -> Generations], journal : Journal \cup {NoJournal}]
    BY Zenon, <1>1, <1>5, <2>2, <2>3
  <2>5. promised' \in Generations
    BY Zenon, <1>1, <1>6, <2>1, ItemFacts
  <2>6. QED
    BY Zenon, <1>1, <1>5, <1>6, <2>1, <2>2, <2>4, <2>5 DEF RestoreType
<1>10. JournalInv'
  <2>1. \A i \in Items : kept'[i] = Missing
    BY Zenon, <1>1
  <2>2. \A i \in Items : disk'.file[i] = IF i = "blobs" THEN disk.file["blobs"] ELSE file[i]
    BY Zenon, <1>4, <1>6
  <2>3. ASSUME NEW i \in Items, NEW x, x = file[i] \/ (i = "blobs" /\ Alike(x, file[i]))
        PROVE  IF i \in L THEN Original(i, x)'
               ELSE IF i = "blobs" /\ ~b THEN Original(i, x)' ELSE original'[i] = Missing
    <3>1. Original(i, x)'
      BY Zenon, <1>1, <2>3 DEF Original, Alike
    <3>2. i \notin L => file[i] = Missing \/ (i = "blobs" /\ ~b)
      BY Zenon DEF L
    <3>3. QED
      BY Zenon, <1>1, <3>1, <3>2
  <2>4. ASSUME NEW i \in Items
        PROVE  Traced(file, kept, i)' /\ Traced(disk.file, disk.kept, i)'
    <3>1. /\ disk'.journal.listed = L /\ disk'.journal.blobs = b
          /\ kept'[i] = Missing /\ disk'.kept[i] = Missing
      BY Zenon, <1>3, <1>4, <2>1
    <3>2. file'[i] = file[i]
      BY Zenon, <1>1
    <3>3. disk'.file[i] = file[i] \/ (i = "blobs" /\ Alike(disk'.file[i], file[i]))
      BY Zenon, <1>8, <2>2
    <3>4. Traced(file, kept, i)'
      BY Zenon, <2>3, <3>1, <3>2 DEF Traced, Original, Alike
    <3>5. Traced(disk.file, disk.kept, i)'
      BY Zenon, <2>3, <3>1, <3>3 DEF Traced, Original, Alike
    <3>6. QED
      BY Zenon, <3>4, <3>5
  <2>5. promised' = IF disk'.journal.blobs THEN begun' ELSE original'["blobs"]
    BY Zenon, <1>1, <1>3, <1>4
  <2>6. QED
    BY Zenon, <1>3, <1>4, <1>7, <2>4, <2>5 DEF JournalInv
<1>11. ServerInv'
  BY Zenon, <1>1, <1>2 DEF ServerInv
<1>12. CommandInv'
  <2>1. \A c \in Companions : file'[c] = Missing \/ (c \in journal'.listed /\ kept'[c] = Missing)
    BY Zenon, <1>1, <1>3, ItemFacts DEF L
  <2>2. QED
    BY Zenon, <1>1, <1>3, <1>7, <2>1 DEF CommandInv
<1>13. OutcomeInv'
  BY Zenon, <1>1, <1>3, <1>4, NoOutcome
<1>14. QED
  BY Zenon, <1>9, <1>10, <1>11, <1>12, <1>13 DEF RestoreInv

\* A step of the activation or of the rollback moves one file, and leaves the
\* others and the journal alone.
MovesOne(i) ==
    /\ journal.state = "activating" /\ command # "idle"
    /\ UNCHANGED <<journal, disk, command, server, begun, original, promised, committed, reported>>
    /\ file' \in [Items -> Generations] /\ kept' \in [Items -> Generations]
    /\ \A j \in Items : j # i => file'[j] = file[j] /\ kept'[j] = kept[j]

\* It is enough to look at that file.
LEMMA MovesOneInv ==
    ASSUME RestoreInv, NEW i \in Items, MovesOne(i), Traced(file, kept, i)', CommandInv'
    PROVE  RestoreInv'
<1>1. UNCHANGED <<journal, disk, command, server, begun, original, promised, committed, reported>>
  BY Zenon DEF MovesOne
<1>2. /\ ~reported /\ disk.journal.state = "activating"
      /\ \A j \in Items : Traced(file, kept, j) /\ Traced(disk.file, disk.kept, j)
  BY Zenon, Activating DEF MovesOne
<1>3. RestoreType'
  BY Zenon, <1>1 DEF MovesOne, RestoreInv, RestoreType
<1>4. ASSUME NEW j \in Items
      PROVE  Traced(file, kept, j)'
  <2>1. CASE j = i
    BY Zenon, <2>1
  <2>2. CASE j # i
    <3>1. file'[j] = file[j] /\ kept'[j] = kept[j]
      BY Zenon, <2>2 DEF MovesOne
    <3>2. QED
      BY Zenon, <1>1, <1>2, <3>1 DEF Traced, Original, Alike
  <2>3. QED
    BY Zenon, <2>1, <2>2
<1>5. \A j \in Items : Traced(disk.file, disk.kept, j)'
  BY Zenon, <1>1, <1>2 DEF Traced, Original, Alike
<1>6. JournalInv'
  BY Zenon, <1>1, <1>4, <1>5 DEF RestoreInv, JournalInv
<1>7. ServerInv'
  BY Zenon, <1>1, NoServer DEF MovesOne, ServerInv
<1>8. OutcomeInv'
  <2>0. journal' = journal /\ disk' = disk /\ reported' = reported /\ journal.state = "activating"
    BY Zenon DEF MovesOne
  <2>1. journal'.state = "activating" /\ disk'.journal.state = "activating" /\ ~reported'
    BY Zenon, <1>2, <2>0
  <2>2. QED
    BY Zenon, <2>1, NoOutcome
<1>9. QED
  BY Zenon, <1>3, <1>6, <1>7, <1>8 DEF RestoreInv

\* Setting an original aside.
LEMMA PreserveInv ==
    ASSUME RestoreInv, NEW i \in Items, Preserve(i)
    PROVE  RestoreInv'
<1>1. /\ command = "preserve" /\ i \in journal.listed /\ kept[i] = Missing
      /\ file' = [file EXCEPT ![i] = Missing] /\ kept' = [kept EXCEPT ![i] = file[i]]
      /\ UNCHANGED <<journal, disk, command, server, begun, original, promised, committed, reported>>
  BY Zenon DEF Preserve, Move
<1>2. file \in [Items -> Generations] /\ kept \in [Items -> Generations]
  BY Zenon DEF RestoreInv, RestoreType
<1>3. file'[i] = Missing /\ kept'[i] = file[i]
  BY Zenon, <1>1, <1>2
<1>4. \A j \in Items : j # i => file'[j] = file[j] /\ kept'[j] = kept[j]
  BY Zenon, <1>1, <1>2
<1>5. file' \in [Items -> Generations] /\ kept' \in [Items -> Generations]
  <2>1. file[i] \in Generations /\ Missing \in Generations
    BY Zenon, <1>2 DEF Generations
  <2>2. QED
    BY Zenon, <1>1, <1>2, <2>1
<1>6. journal.state = "activating"
  BY Zenon, <1>1 DEF RestoreInv, CommandInv
<1>7. MovesOne(i)
  BY Zenon, <1>1, <1>4, <1>5, <1>6 DEF MovesOne
<1>8. Traced(file, kept, i)'
  BY ZenonT(60), <1>1, <1>3, <1>6, Activating DEF Traced, Original, Alike
<1>9. CommandInv'
  <2>1. \A c \in Companions : file'[c] = Missing \/ (c \in journal.listed /\ kept'[c] = Missing)
    BY Zenon, <1>1, <1>3, <1>4, ItemFacts DEF RestoreInv, CommandInv
  <2>2. QED
    BY Zenon, <1>1, <2>1 DEF RestoreInv, CommandInv
<1>10. QED
  BY Zenon, <1>7, <1>8, <1>9, MovesOneInv

\* Moving a staged file in: its original is set aside, or there was none.
LEMMA ActivateInv ==
    ASSUME RestoreInv, NEW i \in Items, Activate(i)
    PROVE  RestoreInv'
<1>1. /\ command = "activate" /\ (i = "database" \/ (i = "blobs" /\ journal.blobs))
      /\ file' = [file EXCEPT ![i] = begun]
      /\ UNCHANGED <<kept, journal, disk, command, server, begun, original, promised, committed, reported>>
  BY Zenon DEF Activate
<1>2. file \in [Items -> Generations] /\ kept \in [Items -> Generations] /\ begun \in Generations
  BY Zenon DEF RestoreInv, RestoreType, Generations
<1>3. \A j \in Items : j # i => file'[j] = file[j] /\ kept'[j] = kept[j]
  BY Zenon, <1>1, <1>2
<1>4. file' \in [Items -> Generations] /\ kept' \in [Items -> Generations]
  BY Zenon, <1>1, <1>2
<1>5. journal.state = "activating" /\ SetAside
  BY Zenon, <1>1 DEF RestoreInv, CommandInv
<1>6. MovesOne(i)
  BY Zenon, <1>1, <1>3, <1>4, <1>5 DEF MovesOne
<1>7. Traced(file, kept, i)'
  BY Zenon, <1>1, <1>5, Activating DEF Traced, Original, Alike, SetAside
<1>8. CommandInv'
  <2>1. \A c \in Companions : file'[c] = file[c]
    BY Zenon, <1>1, <1>3, ItemFacts
  <2>2. QED
    BY Zenon, <1>1, <2>1 DEF RestoreInv, CommandInv, SetAside
<1>9. QED
  BY Zenon, <1>6, <1>7, <1>8, MovesOneInv

\* A rollback that waits for an item knows where its original is.
LEMMA RollBackTurnFacts ==
    ASSUME RestoreInv, NEW i \in Items, RollBackTurn(i)
    PROVE  /\ command = "rollback" /\ journal.state = "activating"
           /\ i \in journal.listed => kept[i] # Missing
           /\ i \notin journal.listed => file[i] # Missing
           /\ i = "blobs" => journal.blobs
BY Zenon DEF RestoreInv, CommandInv, RollBackTurn, Involved, Settled

\* A restored copy moves into staging: it was never the original.
LEMMA WithdrawInv ==
    ASSUME RestoreInv, NEW i \in Items, Withdraw(i)
    PROVE  RestoreInv'
<1>1. /\ file' = [file EXCEPT ![i] = Missing]
      /\ UNCHANGED <<kept, journal, disk, command, server, begun, original, promised, committed, reported>>
  BY Zenon DEF Withdraw
<1>2. /\ command = "rollback" /\ journal.state = "activating"
      /\ i \in journal.listed => kept[i] # Missing
      /\ i = "blobs" => journal.blobs
  BY Zenon, RollBackTurnFacts DEF Withdraw
<1>3. /\ file \in [Items -> Generations] /\ kept \in [Items -> Generations] /\ Missing \in Generations
  BY Zenon DEF RestoreInv, RestoreType, Generations
<1>4. \A j \in Items : j # i => file'[j] = file[j] /\ kept'[j] = kept[j]
  BY Zenon, <1>1, <1>3
<1>5. file' \in [Items -> Generations] /\ kept' \in [Items -> Generations]
  BY Zenon, <1>1, <1>3
<1>6. MovesOne(i)
  BY Zenon, <1>1, <1>2, <1>4, <1>5 DEF MovesOne
<1>7. Traced(file, kept, i)'
  BY Zenon, <1>1, <1>2, Activating DEF Traced, Original, Alike
<1>8. CommandInv'
  BY ZenonT(60), <1>1, <1>2 DEF RestoreInv, CommandInv
<1>9. QED
  BY Zenon, <1>6, <1>7, <1>8, MovesOneInv

\* An original goes back to its place.
LEMMA PutBackInv ==
    ASSUME RestoreInv, NEW i \in Items, PutBack(i)
    PROVE  RestoreInv'
<1>1. /\ file[i] = Missing
      /\ file' = [file EXCEPT ![i] = kept[i]] /\ kept' = [kept EXCEPT ![i] = Missing]
      /\ UNCHANGED <<journal, disk, command, server, begun, original, promised, committed, reported>>
  BY Zenon DEF PutBack, Move
<1>2. /\ command = "rollback" /\ journal.state = "activating"
      /\ i \in journal.listed /\ kept[i] # Missing
  BY Zenon, <1>1, RollBackTurnFacts DEF PutBack
<1>3. /\ file \in [Items -> Generations] /\ kept \in [Items -> Generations] /\ Missing \in Generations
  BY Zenon DEF RestoreInv, RestoreType, Generations
<1>4. file'[i] = kept[i] /\ kept'[i] = Missing
  BY Zenon, <1>1, <1>3
<1>5. \A j \in Items : j # i => file'[j] = file[j] /\ kept'[j] = kept[j]
  BY Zenon, <1>1, <1>3
<1>6. file' \in [Items -> Generations] /\ kept' \in [Items -> Generations]
  <2>1. kept[i] \in Generations
    BY Zenon, <1>3
  <2>2. QED
    BY Zenon, <1>1, <1>3, <2>1
<1>7. MovesOne(i)
  BY Zenon, <1>1, <1>2, <1>5, <1>6 DEF MovesOne
<1>8. Traced(file, kept, i)'
  BY Zenon, <1>1, <1>2, <1>4, Activating DEF Traced, Original, Alike
<1>9. CommandInv'
  BY Zenon, <1>1, <1>2 DEF RestoreInv, CommandInv
<1>10. QED
  BY Zenon, <1>7, <1>8, <1>9, MovesOneInv

\* A sync in the middle of an activation or of a rollback makes the files, as
\* they are, what a power loss leaves.
LEMMA SyncInv ==
    ASSUME RestoreInv, journal.state = "activating", command # "idle", disk' = Now,
           UNCHANGED <<file, kept, journal, server, begun, original, promised, committed, reported>>,
           CommandInv'
    PROVE  RestoreInv'
<1>1. disk'.file = file /\ disk'.kept = kept /\ disk'.journal = journal
  BY Zenon DEF Now
<1>2. /\ ~reported /\ journal.listed = disk.journal.listed /\ journal.blobs = disk.journal.blobs
      /\ promised = IF journal.blobs THEN begun ELSE original["blobs"]
      /\ \A i \in Items : Traced(file, kept, i)
  BY Zenon, Activating
<1>3. RestoreType'
  <2>1. disk' \in [file : [Items -> Generations], kept : [Items -> Generations], journal : Journal \cup {NoJournal}]
    BY Zenon DEF RestoreInv, RestoreType, Now
  <2>2. QED
    BY Zenon, <2>1 DEF RestoreInv, RestoreType
<1>4. JournalInv'
  <2>1. \A i \in Items : Traced(file, kept, i)'
    BY Zenon, <1>1, <1>2 DEF Traced, Original, Alike
  <2>2. \A i \in Items : Traced(disk.file, disk.kept, i)'
    BY Zenon, <1>1, <2>1 DEF Traced, Original, Alike
  <2>3. QED
    BY Zenon, <1>1, <1>2, <2>1, <2>2 DEF JournalInv
<1>5. ServerInv'
  BY Zenon, NoServer DEF ServerInv
<1>6. OutcomeInv'
  <2>1. journal'.state = "activating" /\ disk'.journal.state = "activating" /\ ~reported'
    BY Zenon, <1>1, <1>2
  <2>2. QED
    BY Zenon, <2>1, NoOutcome
<1>7. QED
  BY Zenon, <1>3, <1>4, <1>5, <1>6 DEF RestoreInv

\* Everything listed is set aside, and no companion is left.
LEMMA SyncPreservedInv ==
    ASSUME RestoreInv, SyncPreserved
    PROVE  RestoreInv'
<1>1. /\ command = "preserve" /\ command' = "activate" /\ disk' = Now /\ SetAside
      /\ UNCHANGED <<file, kept, journal, server, begun, original, promised, committed, reported>>
  BY Zenon DEF SyncPreserved, SetAside
<1>2. journal.state = "activating"
  BY Zenon, <1>1 DEF RestoreInv, CommandInv
<1>3. journal # NoJournal /\ \A c \in Companions : file[c] = Missing
  BY Zenon, <1>1 DEF RestoreInv, CommandInv, SetAside
<1>4. CommandInv'
  BY Zenon, <1>1, <1>2, <1>3 DEF CommandInv, SetAside
<1>5. QED
  BY Zenon, <1>1, <1>2, <1>4, SyncInv

\* Everything staged is in its place: the restored instance is whole on disk.
LEMMA SyncActivatedInv ==
    ASSUME RestoreInv, SyncActivated
    PROVE  RestoreInv'
<1>1. /\ command = "activate" /\ command' = "validate" /\ disk' = Now
      /\ file["database"] = begun /\ (journal.blobs => file["blobs"] = begun)
      /\ UNCHANGED <<file, kept, journal, server, begun, original, promised, committed, reported>>
  BY Zenon DEF SyncActivated
<1>2. journal # NoJournal /\ journal.state = "activating" /\ SetAside /\ \A c \in Companions : file[c] = Missing
  BY Zenon, <1>1 DEF RestoreInv, CommandInv
<1>3. Alike(file["blobs"], promised)
  <2>1. CASE journal.blobs
    BY Zenon, <1>1, <1>2, <2>1, Activating DEF Alike
  <2>2. CASE ~journal.blobs
    <3>1. "blobs" \notin disk.journal.listed /\ ~disk.journal.blobs /\ promised = original["blobs"]
      BY Zenon, <1>2, <2>2, Activating, JournalFacts
    <3>2. Original("blobs", file["blobs"])
      BY Zenon, <1>2, <3>1, Activating, ItemFacts DEF Traced
    <3>3. QED
      BY Zenon, <3>1, <3>2 DEF Original, Alike
  <2>3. QED
    BY Zenon, <2>1, <2>2
<1>4. Restored(file)
  BY Zenon, <1>1, <1>2, <1>3 DEF Restored
<1>5. Restored(file)' /\ Restored(disk.file)'
  <2>1. disk'.file = file
    BY Zenon, <1>1 DEF Now
  <2>2. QED
    BY Zenon, <1>1, <1>4, <2>1 DEF Restored, Alike
<1>6. CommandInv'
  BY Zenon, <1>1, <1>2, <1>5 DEF CommandInv, SetAside
<1>7. QED
  BY Zenon, <1>1, <1>2, <1>6, SyncInv

\* Nothing waits to be put back: the original instance is whole on disk.
LEMMA SyncRolledBackInv ==
    ASSUME RestoreInv, SyncRolledBack
    PROVE  RestoreInv'
<1>1. /\ command = "rollback" /\ command' = "unjournal" /\ disk' = Now
      /\ \A i \in Involved : Settled(i)
      /\ UNCHANGED <<file, kept, journal, server, begun, original, promised, committed, reported>>
  BY Zenon DEF SyncRolledBack
<1>2. journal # NoJournal /\ journal.state = "activating"
  BY Zenon, <1>1 DEF RestoreInv, CommandInv
<1>3. ASSUME NEW i \in Items
      PROVE  Original(i, file[i])
  <2>1. Traced(file, kept, i) /\ journal.listed = disk.journal.listed /\ journal.blobs = disk.journal.blobs
    BY Zenon, <1>2, Activating
  <2>2. CASE i \in journal.listed
    <3>1. i \in Involved
      BY Zenon, <1>2, <2>2, Activating, JournalFacts DEF Involved
    <3>2. kept[i] = Missing
      BY Zenon, <1>1, <2>2, <3>1 DEF Settled
    <3>3. QED
      BY Zenon, <2>1, <2>2, <3>2 DEF Traced
  <2>3. CASE i \notin journal.listed /\ i = "blobs" /\ ~journal.blobs
    BY Zenon, <2>1, <2>3 DEF Traced
  <2>4. CASE i \notin journal.listed /\ ~(i = "blobs" /\ ~journal.blobs)
    <3>1. i \in Involved
      BY Zenon, <2>4 DEF Involved
    <3>2. file[i] = Missing
      BY Zenon, <1>1, <2>4, <3>1 DEF Settled
    <3>3. original[i] = Missing
      BY Zenon, <2>1, <2>4 DEF Traced
    <3>4. QED
      BY Zenon, <3>2, <3>3 DEF Original
  <2>5. QED
    BY Zenon, <2>2, <2>3, <2>4
<1>4. Originals(file)' /\ Originals(disk.file)'
  <2>1. disk'.file = file
    BY Zenon, <1>1 DEF Now
  <2>2. QED
    BY Zenon, <1>1, <1>3, <2>1 DEF Originals, Original, Alike
<1>5. CommandInv'
  BY Zenon, <1>1, <1>2, <1>4 DEF CommandInv
<1>6. QED
  BY Zenon, <1>1, <1>2, <1>5, SyncInv

\* The journal says "activated" only when both views are the restored instance.
LEMMA RecordActivatedInv ==
    ASSUME RestoreInv, NEW renamed \in BOOLEAN, NEW synced \in BOOLEAN, RecordActivated(renamed, synced)
    PROVE  RestoreInv'
<1>1. /\ command = "record" /\ (synced => renamed)
      /\ journal' = IF renamed THEN [journal EXCEPT !.state = "activated"] ELSE journal
      /\ committed' = (committed \/ renamed)
      /\ disk' = IF synced THEN [disk EXCEPT !.journal = journal'] ELSE disk
      /\ command' = IF synced THEN "finish" ELSE "idle"
      /\ UNCHANGED <<file, kept, server, begun, original, promised, reported>>
  BY Zenon DEF RecordActivated
<1>2. journal.state = "activating" /\ Restored(file) /\ Restored(disk.file)
  BY Zenon, <1>1 DEF RestoreInv, CommandInv
<1>3. /\ ~reported /\ disk.journal.state = "activating"
      /\ journal \in Journal /\ disk.journal \in Journal
      /\ journal.listed = disk.journal.listed /\ journal.blobs = disk.journal.blobs
      /\ promised = IF journal.blobs THEN begun ELSE original["blobs"]
      /\ \A i \in Items : Traced(file, kept, i) /\ Traced(disk.file, disk.kept, i)
  BY Zenon, <1>2, Activating
<1>4. /\ journal' \in Journal /\ journal'.listed = journal.listed /\ journal'.blobs = journal.blobs
      /\ journal'.state = IF renamed THEN "activated" ELSE "activating"
  BY Zenon, <1>1, <1>2, <1>3, JournalActivated
<1>5. /\ disk' \in Disk /\ disk'.file = disk.file /\ disk'.kept = disk.kept
      /\ disk'.journal = IF synced THEN journal' ELSE disk.journal
  <2>1. disk \in Disk
    BY Zenon DEF RestoreInv, RestoreType, Disk
  <2>2. [disk EXCEPT !.journal = journal'] \in Disk
    BY Zenon, <1>4, <2>1, DiskJournal
  <2>3. /\ [disk EXCEPT !.journal = journal'].file = disk.file
        /\ [disk EXCEPT !.journal = journal'].kept = disk.kept
        /\ [disk EXCEPT !.journal = journal'].journal = journal'
    BY Zenon, <1>4, <2>1, DiskJournal
  <2>4. QED
    BY Zenon, <1>1, <2>1, <2>2, <2>3
<1>6. /\ disk'.journal.listed = disk.journal.listed /\ disk'.journal.blobs = disk.journal.blobs
      /\ disk'.journal.state = IF synced THEN "activated" ELSE "activating"
  BY Zenon, <1>1, <1>3, <1>4, <1>5
<1>7. journal' # NoJournal /\ disk'.journal # NoJournal
  BY Zenon, <1>4, <1>6, NoJournalFacts
<1>8. RestoreType'
  BY Zenon, <1>1, <1>4, <1>5 DEF RestoreInv, RestoreType, Disk
<1>9. JournalInv'
  <2>1. \A i \in Items : Traced(file, kept, i)' /\ Traced(disk.file, disk.kept, i)'
    BY ZenonT(60), <1>1, <1>3, <1>5, <1>6 DEF Traced, Original, Alike
  <2>2. promised' = IF disk'.journal.blobs THEN begun' ELSE original'["blobs"]
    BY Zenon, <1>1, <1>3, <1>6
  <2>3. disk'.journal.state = "activated" => journal'.state # "activating"
    BY Zenon, <1>1, <1>4, <1>6
  <2>4. journal'.listed = disk'.journal.listed /\ journal'.blobs = disk'.journal.blobs
    BY Zenon, <1>3, <1>4, <1>6
  <2>5. QED
    BY Zenon, <1>7, <2>1, <2>2, <2>3, <2>4 DEF JournalInv
<1>10. ServerInv'
  BY Zenon, <1>1, NoServer DEF ServerInv
<1>11. CommandInv'
  BY Zenon, <1>1, <1>4, <1>6, <1>7 DEF CommandInv
<1>12. OutcomeInv'
  <2>1. Restored(file)' /\ Restored(disk.file)'
    BY Zenon, <1>1, <1>2, <1>5 DEF Restored, Alike
  <2>2. journal'.state = "activated" \/ disk'.journal.state = "activated" => committed'
    BY Zenon, <1>1, <1>4, <1>6
  <2>3. QED
    BY Zenon, <1>1, <1>3, <1>7, <2>1, <2>2 DEF OutcomeInv
<1>13. QED
  BY Zenon, <1>8, <1>9, <1>10, <1>11, <1>12 DEF RestoreInv

\* The journal goes once one of the two instances is whole in both views; it
\* may come back with a power loss, and then says the same.
LEMMA RemoveJournalInv ==
    ASSUME RestoreInv, RemoveJournal
    PROVE  RestoreInv'
<1>1. /\ command \in {"finish", "unjournal"} /\ command' = "sync" /\ journal' = NoJournal
      /\ reported' = (reported \/ command = "finish")
      /\ UNCHANGED <<file, kept, disk, server, begun, original, promised, committed>>
  BY Zenon DEF RemoveJournal
<1>2. journal \in Journal \cup {NoJournal} /\ journal # NoJournal
  BY Zenon, <1>1 DEF RestoreInv, RestoreType, CommandInv
<1>3. RestoreType'
  BY Zenon, <1>1 DEF RestoreInv, RestoreType
<1>4. JournalInv'
  <2>1. journal'.state # "activating"
    BY Zenon, <1>1, NoJournalFacts
  <2>2. disk.journal # NoJournal => \A i \in Items : Traced(file, kept, i)' /\ Traced(disk.file, disk.kept, i)'
    BY Zenon, <1>1 DEF RestoreInv, JournalInv, Traced, Original, Alike
  <2>3. QED
    BY Zenon, <1>1, <2>1, <2>2 DEF RestoreInv, JournalInv
<1>5. ServerInv'
  BY Zenon, <1>1, NoServer DEF ServerInv
<1>6. CommandInv'
  BY Zenon, <1>1 DEF CommandInv
<1>7. \/ journal.state = "activating" /\ command = "unjournal" /\ Originals(file) /\ Originals(disk.file)
      \/ journal.state = "activated" /\ committed /\ Restored(file) /\ Restored(disk.file)
  <2>1. journal.state \in {"activating", "activated"}
    BY Zenon, <1>2, JournalFacts
  <2>2. QED
    BY Zenon, <1>1, <2>1 DEF RestoreInv, CommandInv, OutcomeInv
<1>8. OutcomeInv'
  <2>1. Originals(file) /\ Originals(disk.file) => Originals(file)' /\ Originals(disk.file)'
    BY Zenon, <1>1 DEF Originals, Original, Alike
  <2>2. Restored(file) /\ Restored(disk.file) => Restored(file)' /\ Restored(disk.file)'
    BY Zenon, <1>1 DEF Restored, Alike
  <2>3. disk.journal.state = "activated" \/ reported' => committed /\ Restored(file) /\ Restored(disk.file)
    BY Zenon, <1>1, <1>7 DEF RestoreInv, OutcomeInv
  <2>4. reported' => disk.journal.state # "activating"
    BY Zenon, <1>1 DEF RestoreInv, OutcomeInv, CommandInv
  <2>5. journal'.state = "none"
    BY Zenon, <1>1, NoJournalFacts
  <2>6. QED
    BY Zenon, <1>1, <1>7, <2>1, <2>2, <2>3, <2>4, <2>5 DEF OutcomeInv
<1>9. QED
  BY Zenon, <1>3, <1>4, <1>5, <1>6, <1>8 DEF RestoreInv

\* Its removal is made durable.
LEMMA SyncRemovedInv ==
    ASSUME RestoreInv, SyncRemoved
    PROVE  RestoreInv'
<1>1. /\ command = "sync" /\ command' = "idle" /\ disk' = [disk EXCEPT !.journal = journal]
      /\ UNCHANGED <<file, kept, journal, server, begun, original, promised, committed, reported>>
  BY Zenon DEF SyncRemoved
<1>2. journal = NoJournal /\ disk \in Disk
  BY Zenon, <1>1 DEF RestoreInv, RestoreType, CommandInv, Disk
<1>3. disk' \in Disk /\ disk'.file = disk.file /\ disk'.kept = disk.kept /\ disk'.journal = NoJournal
  <2>1. NoJournal \in Journal \cup {NoJournal} /\ disk' = [disk EXCEPT !.journal = NoJournal]
    BY Zenon, <1>1, <1>2
  <2>2. QED
    BY Zenon, <1>2, <2>1, DiskJournal
<1>4. RestoreType'
  BY Zenon, <1>1, <1>3 DEF RestoreInv, RestoreType, Disk
<1>5. JournalInv'
  BY Zenon, <1>1, <1>2, <1>3, NoJournalFacts DEF JournalInv
<1>6. ServerInv' /\ CommandInv'
  BY Zenon, <1>1, NoServer DEF ServerInv, CommandInv
<1>7. OutcomeInv'
  <2>1. Originals(file) /\ Originals(disk.file) => Originals(file)' /\ Originals(disk.file)'
    BY Zenon, <1>1, <1>3 DEF Originals, Original, Alike
  <2>2. Restored(file) /\ Restored(disk.file) => Restored(file)' /\ Restored(disk.file)'
    BY Zenon, <1>1, <1>3 DEF Restored, Alike
  <2>3. QED
    BY ZenonT(60), <1>1, <1>2, <1>3, <2>1, <2>2, NoJournalFacts DEF RestoreInv, OutcomeInv
<1>8. QED
  BY Zenon, <1>4, <1>5, <1>6, <1>7 DEF RestoreInv

\* A killed command leaves files and journal as they are; companions that a
\* validation leaves lie where nothing original is.
LEMMA CommandEndsInv ==
    ASSUME RestoreInv, CommandEnds
    PROVE  RestoreInv'
<1>1. /\ command # "idle" /\ command' = "idle"
      /\ UNCHANGED <<kept, journal, disk, server, begun, original, promised, committed, reported>>
  BY Zenon DEF CommandEnds
<1>2. ServerInv' /\ CommandInv'
  BY Zenon, <1>1, NoServer DEF ServerInv, CommandInv
<1>3. CASE command # "validate"
  <2>1. file' = file
    BY Zenon, <1>3 DEF CommandEnds
  <2>2. QED
    BY Zenon, <1>1, <1>2, <2>1, SameFiles DEF RestoreInv
<1>4. CASE command = "validate"
  <2>1. PICK lefts \in SUBSET Companions : file' = [i \in Items |-> IF i \in lefts THEN begun ELSE file[i]]
    BY Zenon, <1>4 DEF CommandEnds
  <2>2. journal.state = "activating" /\ SetAside
    BY Zenon, <1>4 DEF RestoreInv, CommandInv
  <2>3. /\ ~reported /\ disk.journal.state = "activating" /\ journal.listed = disk.journal.listed
        /\ \A i \in Items : Traced(file, kept, i) /\ Traced(disk.file, disk.kept, i)
    BY Zenon, <2>2, Activating
  <2>4. RestoreType'
    <3>1. file \in [Items -> Generations] /\ begun \in Generations
      BY Zenon DEF RestoreInv, RestoreType, Generations
    <3>2. file' \in [Items -> Generations]
      BY Zenon, <2>1, <3>1
    <3>3. QED
      BY Zenon, <1>1, <3>2 DEF RestoreInv, RestoreType
  <2>5. ASSUME NEW i \in Items
        PROVE  Traced(file, kept, i)' /\ Traced(disk.file, disk.kept, i)'
    <3>1. i = "blobs" => file'[i] = file[i]
      BY Zenon, <2>1, ItemFacts
    <3>2. i \in disk.journal.listed => kept[i] # Missing
      BY Zenon, <2>2, <2>3 DEF SetAside
    <3>3. Traced(file, kept, i)'
      BY Zenon, <1>1, <2>3, <3>1, <3>2 DEF Traced, Original, Alike
    <3>4. QED
      BY Zenon, <1>1, <2>3, <3>3 DEF Traced, Original, Alike
  <2>6. JournalInv'
    BY Zenon, <1>1, <2>5 DEF RestoreInv, JournalInv
  <2>7. OutcomeInv'
    <3>1. journal'.state = "activating" /\ disk'.journal.state = "activating" /\ ~reported'
      BY Zenon, <1>1, <2>2, <2>3
    <3>2. QED
      BY Zenon, <3>1, NoOutcome
  <2>8. QED
    BY Zenon, <1>2, <2>4, <2>6, <2>7 DEF RestoreInv
<1>5. QED
  BY Zenon, <1>3, <1>4

\* A starting server makes the blob directory, and changes nothing else.
LEMMA ServerLocksInv ==
    ASSUME RestoreInv, ServerLocks
    PROVE  RestoreInv'
<1>1. UNCHANGED <<kept, journal, disk, command, begun, original, promised, committed, reported>>
  BY Zenon DEF ServerLocks
<1>2. CASE command # "idle" /\ server' = "down" /\ file' = file
  <2>1. ServerInv'
    BY Zenon, <1>1, <1>2 DEF ServerInv
  <2>2. CommandInv'
    BY Zenon, <1>1, <1>2 DEF RestoreInv, CommandInv, SetAside, Restored, Originals, Original
  <2>3. QED
    BY Zenon, <1>1, <1>2, <2>1, <2>2, SameFiles DEF RestoreInv
<1>3. CASE /\ command = "idle" /\ server' = "locked"
           /\ file' = IF file["blobs"] = Missing THEN [file EXCEPT !["blobs"] = Empty] ELSE file
  <2>1. file \in [Items -> Generations] /\ Empty \in Generations /\ Missing # Empty
    BY DEF RestoreInv, RestoreType, Generations, Empty, Missing
  <2>2. /\ \A i \in Items : i # "blobs" => file'[i] = file[i]
        /\ file'["blobs"] = IF file["blobs"] = Missing THEN Empty ELSE file["blobs"]
    BY Zenon, <1>3, <2>1, ItemFacts
  <2>3. ASSUME NEW x, Alike(file["blobs"], x)
        PROVE  Alike(file'["blobs"], x)
    BY Zenon, <2>2, <2>3 DEF Alike
  <2>4. RestoreType'
    <3>1. file' \in [Items -> Generations]
      BY Zenon, <1>3, <2>1
    <3>2. QED
      BY Zenon, <1>1, <3>1 DEF RestoreInv, RestoreType
  <2>5. ASSUME NEW i \in Items, Original(i, file[i])
        PROVE  Original(i, file[i])'
    <3>1. CASE i = "blobs"
      BY Zenon, <1>1, <2>3, <2>5, <3>1 DEF Original, Alike
    <3>2. CASE i # "blobs"
      BY Zenon, <1>1, <2>2, <2>5, <3>2 DEF Original
    <3>3. QED
      BY Zenon, <3>1, <3>2
  <2>6. Restored(file) => Restored(file)'
    BY Zenon, <1>1, <2>2, <2>3, ItemFacts DEF Restored, Alike
  <2>7. JournalInv'
    <3>1. ASSUME NEW i \in Items, Traced(file, kept, i)
          PROVE  Traced(file, kept, i)'
      BY Zenon, <1>1, <2>5, <3>1 DEF Traced, Original, Alike
    <3>2. ASSUME NEW i \in Items, Traced(disk.file, disk.kept, i)
          PROVE  Traced(disk.file, disk.kept, i)'
      BY Zenon, <1>1, <3>2 DEF Traced, Original, Alike
    <3>3. QED
      BY Zenon, <1>1, <3>1, <3>2 DEF RestoreInv, JournalInv
  <2>8. ServerInv'
    BY Zenon, <1>1, <1>3, <2>1, <2>2 DEF ServerInv
  <2>9. CommandInv'
    BY Zenon, <1>1, <1>3 DEF CommandInv
  <2>10. OutcomeInv'
    <3>1. Originals(file) /\ Originals(disk.file) => Originals(file)' /\ Originals(disk.file)'
      BY Zenon, <1>1, <2>5 DEF Originals, Original, Alike
    <3>2. Restored(file) /\ Restored(disk.file) => Restored(file)' /\ Restored(disk.file)'
      BY Zenon, <1>1, <2>6 DEF Restored, Alike
    <3>3. QED
      BY Zenon, <1>1, <3>1, <3>2 DEF RestoreInv, OutcomeInv
  <2>11. QED
    BY Zenon, <2>4, <2>7, <2>8, <2>9, <2>10 DEF RestoreInv
<1>4. QED
  BY Zenon, <1>2, <1>3 DEF ServerLocks

\* What a server finds becomes the instance.
LEMMA ServerWritesInv ==
    ASSUME RestoreInv, ServerWrites
    PROVE  RestoreInv'
<1> DEFINE g == IF file["database"] = Missing THEN 0 ELSE file["database"]
<1>1. /\ server = "open" /\ server' = "up"
      /\ file' = [i \in Items |-> IF i = "blobs" /\ file[i] # Empty THEN file[i] ELSE g]
      /\ disk' = [disk EXCEPT !.file = file', !.journal = journal]
      /\ original' = file' /\ committed' = FALSE /\ reported' = FALSE
      /\ UNCHANGED <<kept, journal, command, begun, promised>>
  BY Zenon DEF ServerWrites
<1>2. command = "idle" /\ journal = NoJournal /\ disk \in Disk
  BY Zenon, <1>1 DEF RestoreInv, RestoreType, ServerInv, Disk
<1>3. file' \in [Items -> Generations]
  <2>1. file \in [Items -> Generations] /\ 0 \in Generations
    BY DEF RestoreInv, RestoreType, Generations
  <2>2. g \in Generations
    BY Zenon, <2>1, ItemFacts
  <2>3. QED
    BY Zenon, <1>1, <2>1, <2>2
<1> HIDE DEF g
<1>4. disk' \in Disk /\ disk'.file = file' /\ disk'.journal = NoJournal
  <2>1. PICK d \in Disk : d = [disk EXCEPT !.file = file'] /\ d.file = file'
    BY Zenon, <1>2, <1>3, DiskFile
  <2>2. disk' = [d EXCEPT !.journal = journal]
    BY Zenon, <1>1, <2>1
  <2>3. journal \in Journal \cup {NoJournal}
    BY Zenon, <1>2
  <2>4. QED
    BY ZenonT(60), <1>2, <2>1, <2>2, <2>3, DiskJournal
<1>5. RestoreType'
  BY Zenon, <1>1, <1>3, <1>4 DEF RestoreInv, RestoreType, Disk
<1>6. JournalInv'
  BY Zenon, <1>1, <1>2, <1>4, NoJournalFacts DEF JournalInv
<1>7. ServerInv' /\ CommandInv'
  BY Zenon, <1>1, <1>2, <1>4 DEF ServerInv, CommandInv
<1>8. OutcomeInv'
  <2>1. Originals(file)' /\ Originals(disk.file)'
    BY Zenon, <1>1, <1>4 DEF Originals, Original
  <2>2. QED
    BY Zenon, <1>1, <1>2, <1>4, <2>1, NoJournalFacts DEF OutcomeInv
<1>9. QED
  BY Zenon, <1>5, <1>6, <1>7, <1>8 DEF RestoreInv

\* What a server leaves is the next original.
LEMMA ServerStopsInv ==
    ASSUME RestoreInv, NEW clean \in BOOLEAN, ServerStops(clean)
    PROVE  RestoreInv'
<1>1. /\ server = "up" /\ server' = "down"
      /\ file' = IF clean THEN [i \in Items |-> IF i \in Companions THEN Missing ELSE file[i]] ELSE file
      /\ original' = file' /\ disk' = [disk EXCEPT !.file = file']
      /\ UNCHANGED <<kept, journal, command, begun, promised, committed, reported>>
  BY Zenon DEF ServerStops
<1>2. command = "idle" /\ journal = NoJournal /\ disk \in Disk /\ disk.journal = NoJournal /\ ~reported
  BY Zenon, <1>1 DEF RestoreInv, RestoreType, ServerInv, Disk
<1>3. file' \in [Items -> Generations]
  <2>1. file \in [Items -> Generations] /\ Missing \in Generations
    BY Zenon DEF RestoreInv, RestoreType, Generations
  <2>2. QED
    BY Zenon, <1>1, <2>1
<1>4. disk' \in Disk /\ disk'.file = file' /\ disk'.journal = NoJournal
  <2>1. [disk EXCEPT !.file = file'].journal = disk.journal
    BY Zenon, <1>2, <1>3, DiskFile
  <2>2. QED
    BY Zenon, <1>1, <1>2, <1>3, <2>1, DiskFile
<1>5. RestoreType'
  BY Zenon, <1>1, <1>3, <1>4 DEF RestoreInv, RestoreType, Disk
<1>6. JournalInv'
  BY Zenon, <1>1, <1>2, <1>4, NoJournalFacts DEF JournalInv
<1>7. ServerInv' /\ CommandInv'
  BY Zenon, <1>1, <1>2, <1>4 DEF ServerInv, CommandInv
<1>8. OutcomeInv'
  <2>1. Originals(file)' /\ Originals(disk.file)'
    BY Zenon, <1>1, <1>4 DEF Originals, Original
  <2>2. ~reported'
    BY Zenon, <1>1, <1>2
  <2>3. QED
    BY Zenon, <1>1, <1>2, <1>4, <2>1, <2>2, NoJournalFacts DEF OutcomeInv
<1>9. QED
  BY Zenon, <1>5, <1>6, <1>7, <1>8 DEF RestoreInv

\* A power loss leaves each file in one of the two views; whatever holds of
\* every file in both holds of any mixture.
LEMMA PowerLossInv ==
    ASSUME RestoreInv, NEW lost \in SUBSET Items, NEW journalLost \in BOOLEAN, PowerLoss(lost, journalLost)
    PROVE  RestoreInv'
<1>1. /\ file' = [i \in Items |-> IF i \in lost THEN disk.file[i] ELSE file[i]]
      /\ kept' = [i \in Items |-> IF i \in lost THEN disk.kept[i] ELSE kept[i]]
      /\ journal' = IF journalLost THEN disk.journal ELSE journal
      /\ disk' = [file |-> file', kept |-> kept', journal |-> journal']
      /\ command' = "idle" /\ server' = "down"
      /\ UNCHANGED <<begun, original, promised, committed, reported>>
  BY Zenon DEF PowerLoss
<1>2. /\ file \in [Items -> Generations] /\ kept \in [Items -> Generations]
      /\ disk.file \in [Items -> Generations] /\ disk.kept \in [Items -> Generations]
      /\ journal \in Journal \cup {NoJournal} /\ disk.journal \in Journal \cup {NoJournal}
  BY Zenon DEF RestoreInv, RestoreType
<1>3. disk'.file = file' /\ disk'.kept = kept' /\ disk'.journal = journal'
  BY Zenon, <1>1
<1>4. \A i \in Items : \/ file'[i] = file[i] /\ kept'[i] = kept[i]
                       \/ file'[i] = disk.file[i] /\ kept'[i] = disk.kept[i]
  BY Zenon, <1>1
<1>5. RestoreType'
  <2>1. file' \in [Items -> Generations] /\ kept' \in [Items -> Generations]
    BY Zenon, <1>1, <1>2
  <2>2. journal' \in Journal \cup {NoJournal}
    BY Zenon, <1>1, <1>2
  <2>3. disk' \in [file : [Items -> Generations], kept : [Items -> Generations], journal : Journal \cup {NoJournal}]
    BY Zenon, <1>1, <2>1, <2>2
  <2>4. QED
    BY Zenon, <1>1, <2>1, <2>2, <2>3 DEF RestoreInv, RestoreType
<1>6. JournalInv'
  <2>1. CASE journal' = NoJournal
    BY Zenon, <1>3, <2>1, NoJournalFacts DEF JournalInv
  <2>2. CASE journal' # NoJournal
    <3>1. /\ disk.journal # NoJournal
          /\ journal'.listed = disk.journal.listed /\ journal'.blobs = disk.journal.blobs
      BY Zenon, <1>1, <2>2 DEF RestoreInv, JournalInv
    <3>2. ASSUME NEW i \in Items
          PROVE  Traced(file, kept, i)'
      <4>1. Traced(file, kept, i) /\ Traced(disk.file, disk.kept, i)
        BY Zenon, <3>1 DEF RestoreInv, JournalInv
      <4>2. disk'.journal.listed = disk.journal.listed /\ disk'.journal.blobs = disk.journal.blobs
        BY Zenon, <1>3, <3>1
      <4>3. CASE file'[i] = file[i] /\ kept'[i] = kept[i]
        BY Zenon, <1>1, <4>1, <4>2, <4>3 DEF Traced, Original, Alike
      <4>4. CASE file'[i] = disk.file[i] /\ kept'[i] = disk.kept[i]
        BY Zenon, <1>1, <4>1, <4>2, <4>4 DEF Traced, Original, Alike
      <4>5. QED
        BY Zenon, <1>4, <4>3, <4>4
    <3>3. \A i \in Items : Traced(disk.file, disk.kept, i)'
      BY Zenon, <1>3, <3>2 DEF Traced, Original, Alike
    <3>4. promised' = IF disk'.journal.blobs THEN begun' ELSE original'["blobs"]
      BY Zenon, <1>1, <1>3, <3>1 DEF RestoreInv, JournalInv
    <3>5. QED
      BY Zenon, <1>3, <2>2, <3>2, <3>3, <3>4 DEF JournalInv
  <2>3. QED
    BY Zenon, <2>1, <2>2
<1>7. ServerInv' /\ CommandInv'
  BY Zenon, <1>1 DEF ServerInv, CommandInv
<1>8. OutcomeInv'
  <2>1. ASSUME Originals(file), Originals(disk.file)
        PROVE  Originals(file)' /\ Originals(disk.file)'
    BY Zenon, <1>1, <1>3, <1>4, <2>1 DEF Originals, Original, Alike
  <2>2. ASSUME Restored(file), Restored(disk.file)
        PROVE  Restored(file)' /\ Restored(disk.file)'
    <3>1. /\ file'["database"] \in {file["database"], disk.file["database"]}
          /\ file'["blobs"] \in {file["blobs"], disk.file["blobs"]}
          /\ \A c \in Companions : file'[c] \in {file[c], disk.file[c]}
      BY Zenon, <1>4, ItemFacts
    <3>2. QED
      BY Zenon, <1>1, <1>3, <2>2, <3>1 DEF Restored, Alike
  <2>3. journal' = NoJournal => journal = NoJournal
    BY Zenon, <1>1 DEF RestoreInv, JournalInv
  <2>4. journal' = journal \/ journal' = disk.journal
    BY Zenon, <1>1
  <2>5. journal'.state = "activated" \/ reported => committed /\ Restored(file) /\ Restored(disk.file)
    BY Zenon, <2>4 DEF RestoreInv, OutcomeInv
  <2>6. reported => journal'.state # "activating"
    BY Zenon, <2>4 DEF RestoreInv, OutcomeInv
  <2>7. journal = NoJournal => \/ Originals(file) /\ Originals(disk.file)
                               \/ committed /\ Restored(file) /\ Restored(disk.file)
    BY Zenon DEF RestoreInv, OutcomeInv
  <2>8. QED
    BY Zenon, <1>1, <1>3, <2>1, <2>2, <2>3, <2>5, <2>6, <2>7 DEF OutcomeInv
<1>9. QED
  BY Zenon, <1>5, <1>6, <1>7, <1>8 DEF RestoreInv

\* Every step.
LEMMA RestoreStepInv == RestoreInv /\ [RestoreNext]_restoreVars => RestoreInv'
<1> SUFFICES ASSUME RestoreInv, [RestoreNext]_restoreVars PROVE RestoreInv'
  OBVIOUS
<1>1. CASE UNCHANGED restoreVars
  <2>1. UNCHANGED <<file, kept, journal, disk, command, server, begun, original, promised, committed, reported>>
    BY Zenon, <1>1 DEF restoreVars
  <2>2. ServerInv'
    BY Zenon, <2>1 DEF RestoreInv, ServerInv
  <2>3. CommandInv'
    BY Zenon, <2>1 DEF RestoreInv, CommandInv, SetAside, Restored, Originals, Original
  <2>4. QED
    BY Zenon, <2>1, <2>2, <2>3, SameFiles DEF RestoreInv
<1>2. CASE RestoreNext
  BY ZenonT(60), <1>2, CommandStepInv, BeginRestoreInv, PreserveInv, ActivateInv, WithdrawInv, PutBackInv,
     SyncPreservedInv, SyncActivatedInv, SyncRolledBackInv, RecordActivatedInv, RemoveJournalInv,
     SyncRemovedInv, CommandEndsInv, ServerLocksInv, ServerWritesInv, ServerStopsInv, PowerLossInv
     DEF RestoreNext
<1>3. QED
  BY Zenon, <1>1, <1>2

\* Wherever kills and power losses cut restores and their rollbacks short,
\* for any companions, a server opens only a whole instance: the original or,
\* once the journal said "activated", the restored one, and the restored one
\* for certain once the command reported it (backup_restore.go:8-10).
THEOREM RestoreIsWhole == RestoreSpec => []RestoredOrOriginal
<1>1. RestoreInv => RestoredOrOriginal
  <2> SUFFICES ASSUME RestoreInv, server = "open"
               PROVE  IF reported THEN AsRestored ELSE AsBefore \/ (committed /\ AsRestored)
    BY Zenon DEF RestoredOrOriginal
  <2>1. journal = NoJournal /\ file["blobs"] # Missing
    BY Zenon DEF RestoreInv, ServerInv
  <2>2. Restored(file) => AsRestored
    BY Zenon, <2>1 DEF Restored, Alike, AsRestored
  <2>3. Originals(file) => AsBefore
    BY Zenon, <2>1, ItemFacts DEF Originals, Original, Alike, AsBefore
  <2>4. QED
    BY Zenon, <2>1, <2>2, <2>3 DEF RestoreInv, OutcomeInv
<1>2. QED
  BY RestoreInitInv, RestoreStepInv, <1>1, PTL DEF RestoreSpec

=============================================================================
