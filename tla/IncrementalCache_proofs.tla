------------------------ MODULE IncrementalCache_proofs ------------------------
(***************************************************************************)
(* Proofs about IncrementalCache, for any runs, paths and configurations,  *)
(* and for every choice of faults and operator actions.                    *)
(***************************************************************************)
EXTENDS IncrementalCache, TLAPS

-----------------------------------------------------------------------------
(* Types.                                                                  *)

LEMMA InitTypeOK == Init => TypeOK
  BY DEF Init, TypeOK, RunState

LEMMA StepTypeOK == TypeOK /\ [Next]_vars => TypeOK'
  <1> SUFFICES ASSUME TypeOK, [Next]_vars PROVE TypeOK'
    OBVIOUS
  <1> USE DEF TypeOK
  <1>1. ASSUME NEW r \in Run, Begin(r) PROVE TypeOK'
    BY <1>1 DEF Begin, Advance, RunState, resetting, history
  <1>2. ASSUME NEW r \in Run, Enter(r) PROVE TypeOK'
    <2>1. todo' \in [Run -> SUBSET Path]
      <3>1. loaded[r] \subseteq Config
        OBVIOUS
      <3>2. Selected(r) \in SUBSET Path
        BY <3>1, CacheAssumption DEF Selected, Select
      <3> QED BY <1>2, <3>2 DEF Enter
    <2>2. cache' \in SUBSET Path /\ pc' \in [Run -> RunState] /\ holder' \in SUBSET Run
      BY <1>2 DEF Enter, Advance, RunState, Inside
    <2>3. misled' \in SUBSET Run /\ torn' \in SUBSET Run /\ mixed' \in BOOLEAN
      <3>1. misled' \in SUBSET Run /\ torn' \in SUBSET Run
        BY <1>2 DEF Enter, Meets
      <3>2. mixed' \in BOOLEAN
        BY <1>2 DEF Enter, Meets
      <3> QED BY <3>1, <3>2
    <2> QED BY <1>2, <2>1, <2>2, <2>3 DEF Enter, resetting
  <1>3. ASSUME NEW r \in Run, NEW p \in Path, Mirror(r, p) PROVE TypeOK'
    <2>1. cache' \in SUBSET Path
      BY <1>3 DEF Mirror, Mirrored
    <2> QED BY <1>3, <2>1 DEF Mirror, resetting, history
  <1>4. ASSUME NEW r \in Run, Zip(r) PROVE TypeOK'
    <2>1. archive' \in [Run -> SUBSET Path] /\ torn' \in SUBSET Run
      BY <1>4 DEF Zip
    <2> QED BY <1>4, <2>1 DEF Zip, Advance, RunState, Inside, resetting
  <1>5. ASSUME NEW r \in Run, Stamp(r) PROVE TypeOK'
    BY <1>5 DEF Stamp, Forget, Advance, RunState, Ended, resetting
  <1>6. ASSUME NEW r \in Run, Fail(r) PROVE TypeOK'
    <2>1. mixed' \in BOOLEAN
      BY <1>6 DEF Fail, LeaveBehind
    <2> QED BY <1>6, <2>1 DEF Fail, LeaveBehind, Forget, Advance, RunState, Ended, resetting
  <1>7. ASSUME NEW r \in Run, Crash(r) PROVE TypeOK'
    <2>1. mixed' \in BOOLEAN
      BY <1>7 DEF Crash, LeaveBehind
    <2>2. strays' \in SUBSET Path
      BY <1>7 DEF Crash
    <2> QED BY <1>7, <2>1, <2>2 DEF Crash, LeaveBehind, Forget, Advance, RunState, Ended, resetting
  <1>8. ASSUME NEW c \in Config, Edit(c) PROVE TypeOK'
    BY <1>8 DEF Edit, run, resetting, history
  <1>9. CASE ResetBegin
    BY <1>9 DEF ResetBegin, run
  <1>10. ASSUME NEW p \in Path, ResetRemove(p) PROVE TypeOK'
    BY <1>10 DEF ResetRemove, run, history
  <1>11. CASE ResetEnd
    BY <1>11 DEF ResetEnd, run, history
  <1>12. ASSUME NEW p \in Path, StrayMirrors(p) PROVE TypeOK'
    <2>1. cache' \in SUBSET Path
      BY <1>12 DEF StrayMirrors, Mirrored
    <2>2. mixed' \in BOOLEAN
      BY <1>12 DEF StrayMirrors
    <2> QED BY <1>12, <2>1, <2>2 DEF StrayMirrors, run, resetting
  <1>13. ASSUME NEW p \in Path, StrayEnds(p) PROVE TypeOK'
    BY <1>13 DEF StrayEnds, run, resetting, history
  <1>14. CASE UNCHANGED vars
    BY <1>14 DEF vars
  <1> QED
    BY <1>1, <1>2, <1>3, <1>4, <1>5, <1>6, <1>7, <1>8, <1>9, <1>10, <1>11, <1>12, <1>13, <1>14
    DEF Next, RunStep

\* Every variable keeps its type (the state a node's cache can be in).
THEOREM TypeCorrect == Spec => []TypeOK
  BY InitTypeOK, StepTypeOK, PTL DEF Spec

-----------------------------------------------------------------------------
(* The invariant.                                                          *)

\* The flock: whoever is in the critical section holds it.
Locked == \A r \in Run : pc[r] \in Inside => holder = {r}

\* A reset that removes files, and an lftp without its worker, go through every run inside.
RemovalsTear ==
    /\ doomed # {} => reset = "removing"
    /\ reset = "removing" \/ strays # {} => \A r \in Run : pc[r] \in Inside => r \in torn

\* Such an lftp of another configuration misleads it.
StraysMislead ==
    \A r \in Run \ misled : pc[r] \in Inside => strays \subseteq Selected(r)

\* What a run has mirrored is in the cache, and then in the archive.
Complete(r) ==
    /\ pc[r] = "mirroring" => Selected(r) \subseteq cache \cup todo[r]
    /\ pc[r] = "zipped" => Selected(r) \subseteq archive[r]

\* There is nothing else in the cache, nor in the archive.
Exact(r) ==
    /\ pc[r] \in Inside => cache \subseteq Selected(r)
    /\ pc[r] = "zipped" => archive[r] \subseteq Selected(r)

\* Also of the run inside, its own stamp stays true until the cache is mixed: it may leave
\* the cache as it is.
StampHolds ==
    \A r \in Run :
        pc[r] \in Inside /\ stamp = loaded[r] /\ ~ mixed => cache \subseteq Select(stamp)

Loaded == \A r \in Run :
    /\ pc[r] \in Inside \cup {"waiting"} => \E c \in Config : loaded[r] = {c}
    /\ pc[r] = "mirroring" => todo[r] \subseteq Selected(r)

CacheInv ==
    /\ TypeOK
    /\ Locked
    /\ RemovalsTear
    /\ StraysMislead
    /\ \A r \in Run \ torn : Complete(r)
    /\ \A r \in Run \ misled : Exact(r)
    /\ StampHolds
    /\ Loaded
    /\ StampTellsCache

LEMMA InitCacheInv == Init => CacheInv
  BY InitTypeOK
  DEF Init, CacheInv, Locked, RemovalsTear, StraysMislead, Complete, Exact, StampHolds, Loaded,
      StampTellsCache, Inside

-----------------------------------------------------------------------------
(* Each step keeps it.                                                     *)

LEMMA BeginKeeps == ASSUME CacheInv, NEW r \in Run, Begin(r) PROVE CacheInv'
  <1> USE DEF CacheInv
  <1>1. TypeOK'
    BY StepTypeOK DEF Next, RunStep
  <1>2. /\ pc[r] = "idle"
        /\ pc' = [pc EXCEPT ![r] = "waiting"]
        /\ loaded' = [loaded EXCEPT ![r] = {config}]
        /\ UNCHANGED <<stamp, cache, holder, todo, archive, reset, doomed, strays, mixed, torn,
                       misled>>
        /\ pc \in [Run -> RunState] /\ loaded \in [Run -> SUBSET Config] /\ config \in Config
    BY DEF Begin, Advance, TypeOK, resetting, history
  <1>3. \A q \in Run : q # r => pc'[q] = pc[q] /\ loaded'[q] = loaded[q]
                                               /\ Selected(q)' = Selected(q)
    BY <1>2 DEF Selected, Select
  <1>4. pc'[r] = "waiting" /\ loaded'[r] = {config}
    BY <1>2
  <1>5. Locked' /\ RemovalsTear' /\ StraysMislead' /\ StampHolds'
    BY <1>2, <1>3, <1>4 DEF Locked, RemovalsTear, StraysMislead, StampHolds, Inside, Select
  <1>6. \A q \in Run : q # r => /\ Complete(q)' <=> Complete(q)
                                /\ Exact(q)' <=> Exact(q)
    BY <1>2, <1>3 DEF Complete, Exact
  <1>7. Complete(r)' /\ Exact(r)'
    BY <1>4 DEF Complete, Exact, Inside
  <1>8. (\A q \in Run \ torn : Complete(q))' /\ (\A q \in Run \ misled : Exact(q))'
    BY <1>2, <1>6, <1>7
  <1>9. Loaded'
    BY <1>2, <1>3, <1>4 DEF Loaded
  <1>10. StampTellsCache'
    BY <1>2 DEF StampTellsCache, Select
  <1> QED BY <1>1, <1>5, <1>8, <1>9, <1>10

LEMMA EnterKeeps == ASSUME CacheInv, NEW r \in Run, Enter(r) PROVE CacheInv'
  <1> USE DEF CacheInv
  <1>1. TypeOK'
    BY StepTypeOK DEF Next, RunStep
  <1>2. /\ pc[r] = "waiting" /\ holder = {}
        /\ pc' = [pc EXCEPT ![r] = "mirroring"]
        /\ holder' = {r}
        /\ todo' = [todo EXCEPT ![r] = Selected(r)]
        /\ cache' = IF stamp = loaded[r] THEN cache ELSE {}
        /\ UNCHANGED <<stamp, loaded, archive, reset, doomed, strays>>
        /\ pc \in [Run -> RunState] /\ todo \in [Run -> SUBSET Path]
    BY DEF Enter, Advance, TypeOK, resetting
  <1>3. /\ misled' = IF (stamp = loaded[r] /\ mixed) \/ ~ strays \subseteq Selected(r)
                     THEN misled \cup {r} ELSE misled
        /\ torn' = IF reset = "removing" \/ strays # {} THEN torn \cup {r} ELSE torn
        /\ mixed' = (mixed /\ stamp = loaded[r])
    BY DEF Enter, Meets
  <1>4. \A q \in Run : q # r => pc'[q] = pc[q] /\ pc[q] \notin Inside
    BY <1>2 DEF Locked
  <1>5. pc'[r] = "mirroring" /\ todo'[r] = Selected(r)
    BY <1>2
  <1>6. \A q \in Run : Selected(q)' = Selected(q)
    BY <1>2 DEF Selected, Select
  <1>7. torn \subseteq torn' /\ misled \subseteq misled'
    BY <1>3
  <1>8. Locked' /\ RemovalsTear'
    BY <1>2, <1>3, <1>4, <1>5 DEF Locked, RemovalsTear, Inside
  <1>9. StraysMislead'
    <2>1. r \notin misled' => strays \subseteq Selected(r)
      BY <1>3
    <2> QED BY <1>2, <1>4, <1>5, <1>6, <2>1 DEF StraysMislead, Inside
  <1>10. \A q \in Run : q # r => /\ Complete(q) => Complete(q)'
                                 /\ Exact(q) => Exact(q)'
    BY <1>2, <1>4, <1>6 DEF Complete, Exact, Inside
  <1>11. Complete(r)'
    BY <1>5, <1>6 DEF Complete
  <1>12. loaded[r] # {}
    BY <1>2 DEF Loaded
  <1>13. stamp = loaded[r] /\ ~ mixed => cache \subseteq Selected(r)
    BY <1>2, <1>12 DEF StampTellsCache, Selected
  <1>14. r \notin misled' => Exact(r)'
    BY <1>2, <1>3, <1>5, <1>6, <1>13 DEF Exact, Inside
  <1>15. (\A q \in Run \ torn : Complete(q))' /\ (\A q \in Run \ misled : Exact(q))'
    BY <1>7, <1>10, <1>11, <1>14
  <1>16. StampHolds'
    <2>1. SUFFICES ASSUME stamp = loaded[r], ~ mixed' PROVE cache' \subseteq Select(stamp)
      BY <1>2, <1>4 DEF StampHolds, Select
    <2> QED BY <1>2, <1>3, <1>13, <2>1 DEF Selected
  <1>17. Loaded'
    BY <1>2, <1>4, <1>5, <1>6 DEF Loaded, Inside
  <1>18. StampTellsCache'
    BY <1>2 DEF StampTellsCache
  <1> QED BY <1>1, <1>8, <1>9, <1>15, <1>16, <1>17, <1>18

\* The paths of one configuration do not clash.
LEMMA NoClash ==
    ASSUME CacheInv, NEW r \in Run, pc[r] \in Inside, NEW p \in Selected(r)
    PROVE  Clash[p] \cap Selected(r) = {}
  <1>1. PICK c \in Config : loaded[r] = {c}
    BY DEF CacheInv, Loaded
  <1>2. Selected(r) = Covers[c]
    BY <1>1 DEF Selected, Select
  <1> QED BY <1>2, CacheAssumption

LEMMA MirrorKeeps ==
    ASSUME CacheInv, NEW r \in Run, NEW p \in Path, Mirror(r, p) PROVE CacheInv'
  <1> USE DEF CacheInv
  <1>1. TypeOK'
    BY StepTypeOK DEF Next, RunStep
  <1>2. /\ pc[r] = "mirroring" /\ p \in todo[r]
        /\ todo' = [todo EXCEPT ![r] = @ \ {p}]
        /\ cache' \in Mirrored(p)
        /\ UNCHANGED <<stamp, holder, pc, loaded, archive, reset, doomed, strays, mixed, torn,
                       misled>>
        /\ todo \in [Run -> SUBSET Path]
    BY DEF Mirror, TypeOK, resetting, history
  <1>3. PICK gone \in SUBSET Clash[p] : cache' = (cache \ gone) \cup {p}
    BY <1>2 DEF Mirrored
  <1>4. /\ \A q \in Run : q # r => todo'[q] = todo[q] /\ pc[q] \notin Inside
        /\ todo'[r] = todo[r] \ {p} /\ holder = {r}
    BY <1>2 DEF Locked, Inside
  <1>5. \A q \in Run : Selected(q)' = Selected(q)
    BY <1>2 DEF Selected, Select
  <1>6. p \in Selected(r)
    BY <1>2 DEF Loaded
  <1>7. gone \cap Selected(r) = {}
    BY <1>2, <1>3, <1>6, NoClash DEF Inside
  <1>8. Locked' /\ RemovalsTear' /\ StraysMislead' /\ StampTellsCache'
    BY <1>2, <1>4, <1>5 DEF Locked, RemovalsTear, StraysMislead, StampTellsCache
  <1>9. StampHolds'
    <2>1. stamp = loaded[r] /\ ~ mixed => cache' \subseteq Select(stamp)
      BY <1>2, <1>3, <1>6 DEF StampHolds, Selected, Inside
    <2> QED BY <1>2, <1>4, <2>1 DEF StampHolds, Select
  <1>10. Complete(r) => Complete(r)'
    BY <1>2, <1>3, <1>4, <1>5, <1>7 DEF Complete
  <1>11. Exact(r) => Exact(r)'
    BY <1>2, <1>3, <1>5, <1>6 DEF Exact
  <1>12. \A q \in Run : q # r => /\ Complete(q) => Complete(q)'
                                 /\ Exact(q) => Exact(q)'
    BY <1>2, <1>4, <1>5 DEF Complete, Exact, Inside
  <1>13. (\A q \in Run \ torn : Complete(q))' /\ (\A q \in Run \ misled : Exact(q))'
    BY <1>2, <1>10, <1>11, <1>12
  <1>14. Loaded'
    BY <1>2, <1>4, <1>5 DEF Loaded
  <1> QED BY <1>1, <1>8, <1>9, <1>13, <1>14

LEMMA ZipKeeps == ASSUME CacheInv, NEW r \in Run, Zip(r) PROVE CacheInv'
  <1> USE DEF CacheInv
  <1>1. TypeOK'
    BY StepTypeOK DEF Next, RunStep
  <1>2. /\ pc[r] = "mirroring" /\ todo[r] = {}
        /\ pc' = [pc EXCEPT ![r] = "zipped"]
        /\ UNCHANGED <<stamp, cache, holder, loaded, todo, reset, doomed, strays, mixed, misled>>
        /\ pc \in [Run -> RunState] /\ archive \in [Run -> SUBSET Path]
    BY DEF Zip, Advance, TypeOK, resetting
  <1>3. PICK some \in SUBSET cache :
            /\ archive' = [archive EXCEPT ![r] = some]
            /\ (some = cache /\ torn' = torn) \/ torn' = torn \cup {r}
    BY DEF Zip
  <1>4. /\ \A q \in Run : q # r => pc'[q] = pc[q] /\ archive'[q] = archive[q]
        /\ pc'[r] = "zipped" /\ archive'[r] = some
        /\ torn \subseteq torn'
    BY <1>2, <1>3
  <1>5. \A q \in Run : Selected(q)' = Selected(q)
    BY <1>2 DEF Selected, Select
  <1>6. Locked' /\ RemovalsTear' /\ StraysMislead' /\ StampHolds' /\ Loaded'
    BY <1>2, <1>4, <1>5
    DEF Locked, RemovalsTear, StraysMislead, StampHolds, Loaded, Inside, Select
  <1>7. \A q \in Run : Exact(q) => Exact(q)'
    BY <1>2, <1>4, <1>5 DEF Exact, Inside
  <1>8. \A q \in Run : q # r /\ Complete(q) => Complete(q)'
    BY <1>2, <1>4, <1>5 DEF Complete
  <1>9. r \notin torn' /\ Complete(r) => Complete(r)'
    BY <1>2, <1>3, <1>4, <1>5 DEF Complete
  <1>10. (\A q \in Run \ torn : Complete(q))' /\ (\A q \in Run \ misled : Exact(q))'
    BY <1>2, <1>4, <1>7, <1>8, <1>9
  <1>11. StampTellsCache'
    BY <1>2 DEF StampTellsCache, Select
  <1> QED BY <1>1, <1>6, <1>10, <1>11

\* Whoever leaves the critical section leaves nobody in it.
LEMMA NobodyInside ==
    ASSUME CacheInv, NEW r \in Run, pc[r] \in Inside, NEW s \in Ended, Advance(r, s), Forget(r),
           UNCHANGED <<reset, doomed>>
    PROVE  /\ Locked' /\ RemovalsTear' /\ StraysMislead' /\ StampHolds' /\ Loaded'
           /\ (\A q \in Run \ torn : Complete(q))' /\ (\A q \in Run \ misled : Exact(q))'
  <1> USE DEF CacheInv
  <1>1. /\ pc' = [pc EXCEPT ![r] = s] /\ pc \in [Run -> RunState]
        /\ loaded' = [loaded EXCEPT ![r] = {}] /\ loaded \in [Run -> SUBSET Config]
    BY DEF Advance, Forget, TypeOK
  <1>2. /\ \A q \in Run : q # r => /\ pc'[q] = pc[q] /\ pc[q] \notin Inside
                                   /\ loaded'[q] = loaded[q]
        /\ pc'[r] = s
    BY <1>1 DEF Locked, Inside
  <1>3. \A q \in Run : pc'[q] \notin Inside
    BY <1>2 DEF Inside, Ended
  <1>4. Locked' /\ StraysMislead' /\ StampHolds'
    BY <1>3 DEF Locked, StraysMislead, StampHolds
  <1>5. RemovalsTear'
    BY <1>3 DEF RemovalsTear
  <1>6. Loaded'
    BY <1>2, <1>3 DEF Loaded, Inside, Ended
  <1>7. (\A q \in Run \ torn : Complete(q))' /\ (\A q \in Run \ misled : Exact(q))'
    BY <1>3 DEF Complete, Exact, Inside
  <1> QED BY <1>4, <1>5, <1>6, <1>7

LEMMA StampKeeps == ASSUME CacheInv, NEW r \in Run, Stamp(r) PROVE CacheInv'
  <1> USE DEF CacheInv
  <1>1. TypeOK'
    BY StepTypeOK DEF Next, RunStep
  <1>2. /\ pc[r] = "zipped" /\ Advance(r, "done") /\ Forget(r)
        /\ stamp' = loaded[r] /\ mixed' = (r \in misled)
        /\ UNCHANGED <<cache, reset, doomed>>
    BY DEF Stamp, resetting
  <1>3. StampTellsCache'
    <2>1. r \notin misled => cache \subseteq Select(loaded[r])
      BY <1>2 DEF Exact, Inside, Selected
    <2> QED BY <1>2, <2>1 DEF StampTellsCache, Select
  <1> QED BY <1>1, <1>2, <1>3, NobodyInside DEF Inside, Ended

\* A run leaves, by an exception or with its worker, and stamps nothing.
LEMMA LeaveKeeps ==
    ASSUME CacheInv, TypeOK', NEW r \in Run,
           pc[r] \in Inside, Advance(r, "left"), LeaveBehind(r),
           UNCHANGED <<stamp, cache, resetting>>
    PROVE  CacheInv'
  <1> USE DEF CacheInv
  <1>1. /\ mixed' = (mixed \/ (stamp # {} /\ stamp # loaded[r])) /\ Forget(r)
        /\ UNCHANGED <<stamp, cache, reset, doomed>>
    BY DEF LeaveBehind, resetting
  <1>2. StampTellsCache'
    <2>1. SUFFICES ASSUME ~ mixed', stamp # {} PROVE cache \subseteq Select(stamp)
      BY <1>1 DEF StampTellsCache, Select
    <2>2. ~ mixed /\ stamp = loaded[r]
      BY <1>1, <2>1
    <2> QED BY <2>2 DEF StampHolds
  <1> QED BY <1>1, <1>2, NobodyInside DEF Ended

LEMMA ResetBeginKeeps == ASSUME CacheInv, ResetBegin PROVE CacheInv'
  <1> USE DEF CacheInv
  <1>1. TypeOK'
    BY StepTypeOK DEF Next
  <1>2. /\ reset' = "removing"
        /\ torn' = torn \cup {r \in Run : pc[r] \in Inside}
        /\ UNCHANGED <<stamp, cache, holder, pc, loaded, todo, archive, strays, mixed, misled>>
    BY DEF ResetBegin, run
  <1>3. \A q \in Run : Selected(q)' = Selected(q)
    BY <1>2 DEF Selected, Select
  <1>4. \A q \in Run : /\ Complete(q) => Complete(q)'
                       /\ Exact(q) => Exact(q)'
    BY <1>2, <1>3 DEF Complete, Exact
  <1>5. (\A q \in Run \ torn : Complete(q))' /\ (\A q \in Run \ misled : Exact(q))'
    BY <1>2, <1>4
  <1>6. Locked' /\ RemovalsTear' /\ StraysMislead' /\ StampHolds' /\ StampTellsCache' /\ Loaded'
    BY <1>2, <1>3
    DEF Locked, RemovalsTear, StraysMislead, StampHolds, StampTellsCache, Loaded, Select
  <1> QED BY <1>1, <1>5, <1>6

LEMMA ResetRemoveKeeps == ASSUME CacheInv, NEW p \in Path, ResetRemove(p) PROVE CacheInv'
  <1> USE DEF CacheInv
  <1>1. TypeOK'
    BY StepTypeOK DEF Next
  <1>2. /\ doomed # {} /\ doomed' \subseteq doomed /\ cache' \subseteq cache
        /\ UNCHANGED <<stamp, holder, pc, loaded, todo, archive, reset, strays, mixed, torn,
                       misled>>
    BY DEF ResetRemove, run, history
  <1>3. \A q \in Run : Selected(q)' = Selected(q)
    BY <1>2 DEF Selected, Select
  <1>4. \A q \in Run \ torn : pc[q] \notin Inside
    BY <1>2 DEF RemovalsTear
  <1>5. /\ \A q \in Run \ torn : Complete(q) => Complete(q)'
        /\ \A q \in Run : Exact(q) => Exact(q)'
    BY <1>2, <1>3, <1>4 DEF Complete, Exact, Inside
  <1>6. (\A q \in Run \ torn : Complete(q))' /\ (\A q \in Run \ misled : Exact(q))'
    BY <1>2, <1>5
  <1>7. Locked' /\ RemovalsTear' /\ StraysMislead' /\ StampHolds' /\ StampTellsCache' /\ Loaded'
    BY <1>2, <1>3
    DEF Locked, RemovalsTear, StraysMislead, StampHolds, StampTellsCache, Loaded, Select
  <1> QED BY <1>1, <1>6, <1>7

LEMMA ResetEndKeeps == ASSUME CacheInv, ResetEnd PROVE CacheInv'
  <1> USE DEF CacheInv
  <1>1. TypeOK'
    BY StepTypeOK DEF Next
  <1>2. /\ doomed = {} /\ reset' = "over" /\ stamp' = {}
        /\ UNCHANGED <<cache, holder, pc, loaded, todo, archive, doomed, strays, mixed, torn,
                       misled>>
    BY DEF ResetEnd, run, history
  <1>3. \A q \in Run : Selected(q)' = Selected(q)
    BY <1>2 DEF Selected, Select
  <1>4. \A q \in Run : /\ Complete(q) => Complete(q)'
                       /\ Exact(q) => Exact(q)'
    BY <1>2, <1>3 DEF Complete, Exact
  <1>5. (\A q \in Run \ torn : Complete(q))' /\ (\A q \in Run \ misled : Exact(q))'
    BY <1>2, <1>4
  <1>6. Locked' /\ RemovalsTear' /\ StraysMislead' /\ StampTellsCache' /\ Loaded'
    BY <1>2, <1>3 DEF Locked, RemovalsTear, StraysMislead, StampTellsCache, Loaded
  <1>7. StampHolds'
    BY <1>2 DEF StampHolds, Loaded
  <1> QED BY <1>1, <1>5, <1>6, <1>7

\* An lftp without its worker writes and removes: under a torn run, and what that run's
\* configuration selects unless the run is misled.
LEMMA StrayMirrorsKeeps == ASSUME CacheInv, NEW p \in Path, StrayMirrors(p) PROVE CacheInv'
  <1> USE DEF CacheInv
  <1>1. TypeOK'
    BY StepTypeOK DEF Next
  <1>2. /\ p \in strays
        /\ cache' \subseteq cache \cup {p}
        /\ mixed' = (mixed \/ (stamp # {} /\ p \notin Select(stamp)))
        /\ UNCHANGED <<stamp, holder, pc, loaded, todo, archive, reset, doomed, strays, torn,
                       misled>>
    BY DEF StrayMirrors, Mirrored, run, resetting
  <1>3. \A q \in Run : Selected(q)' = Selected(q)
    BY <1>2 DEF Selected, Select
  <1>4. \A q \in Run \ torn : pc[q] \notin Inside
    BY <1>2 DEF RemovalsTear
  <1>5. \A q \in Run \ misled : pc[q] \in Inside => p \in Selected(q)
    BY <1>2 DEF StraysMislead
  <1>6. /\ \A q \in Run \ torn : Complete(q) => Complete(q)'
        /\ \A q \in Run \ misled : Exact(q) => Exact(q)'
    BY <1>2, <1>3, <1>4, <1>5 DEF Complete, Exact, Inside
  <1>7. (\A q \in Run \ torn : Complete(q))' /\ (\A q \in Run \ misled : Exact(q))'
    BY <1>2, <1>6
  <1>8. Locked' /\ RemovalsTear' /\ StraysMislead' /\ Loaded'
    BY <1>2, <1>3 DEF Locked, RemovalsTear, StraysMislead, Loaded
  <1>9. Select(stamp)' = Select(stamp)
    BY <1>2 DEF Select
  <1>10. StampHolds'
    <2>1. SUFFICES ASSUME NEW q \in Run, pc[q] \in Inside, stamp = loaded[q], ~ mixed'
                  PROVE  cache' \subseteq Select(stamp)
      BY <1>2, <1>9 DEF StampHolds
    <2>2. stamp # {}
      BY <2>1 DEF Loaded
    <2> QED BY <1>2, <2>1, <2>2 DEF StampHolds
  <1>11. StampTellsCache'
    BY <1>2, <1>9 DEF StampTellsCache
  <1> QED BY <1>1, <1>7, <1>8, <1>10, <1>11

\* Less to write for an lftp without its worker, or none, changes nothing; nor does an edit
\* of the node's configuration.
LEMMA SameKeeps ==
    ASSUME CacheInv, TypeOK', strays' \subseteq strays,
           UNCHANGED <<stamp, cache, holder, pc, run, resetting, history>>
    PROVE  CacheInv'
  <1> USE DEF CacheInv
  <1>1. UNCHANGED <<stamp, cache, holder, pc, loaded, todo, archive, reset, doomed, mixed, torn,
                   misled>>
    BY DEF run, resetting, history
  <1>2. /\ \A q \in Run : Selected(q)' = Selected(q)
        /\ Select(stamp)' = Select(stamp)
    BY <1>1 DEF Selected, Select
  <1>3. Locked' /\ RemovalsTear' /\ StraysMislead' /\ StampHolds' /\ StampTellsCache' /\ Loaded'
    BY <1>1, <1>2 DEF Locked, RemovalsTear, StraysMislead, StampHolds, StampTellsCache, Loaded
  <1>4. \A q \in Run : /\ Complete(q) => Complete(q)'
                       /\ Exact(q) => Exact(q)'
    BY <1>1, <1>2 DEF Complete, Exact
  <1>5. (\A q \in Run \ torn : Complete(q))' /\ (\A q \in Run \ misled : Exact(q))'
    BY <1>1, <1>4
  <1> QED BY <1>3, <1>5

LEMMA StepCacheInv == CacheInv /\ [Next]_vars => CacheInv'
  <1> SUFFICES ASSUME CacheInv, [Next]_vars PROVE CacheInv'
    OBVIOUS
  <1>0. TypeOK'
    BY StepTypeOK DEF CacheInv
  <1>1. ASSUME NEW r \in Run, RunStep(r) PROVE CacheInv'
    BY <1>1, BeginKeeps, EnterKeeps, MirrorKeeps, ZipKeeps, StampKeeps DEF RunStep
  <1>2. ASSUME NEW r \in Run, Fail(r) PROVE CacheInv'
    BY <1>0, <1>2, LeaveKeeps DEF Fail
  <1>3. ASSUME NEW r \in Run, Crash(r) PROVE CacheInv'
    BY <1>0, <1>3, LeaveKeeps DEF Crash
  <1>4. ASSUME NEW c \in Config, Edit(c) PROVE CacheInv'
    BY <1>0, <1>4, SameKeeps DEF Edit
  <1>5. ASSUME NEW p \in Path, ResetRemove(p) PROVE CacheInv'
    BY <1>5, ResetRemoveKeeps
  <1>6. ASSUME NEW p \in Path, StrayMirrors(p) PROVE CacheInv'
    BY <1>6, StrayMirrorsKeeps
  <1>7. ASSUME NEW p \in Path, StrayEnds(p) PROVE CacheInv'
    BY <1>0, <1>7, SameKeeps DEF StrayEnds
  <1>8. CASE UNCHANGED vars
    BY <1>0, <1>8, SameKeeps DEF vars, run, resetting, history
  <1> QED
    BY <1>1, <1>2, <1>3, <1>4, <1>5, <1>6, <1>7, <1>8, ResetBeginKeeps, ResetEndKeeps DEF Next

LEMMA CacheInvariant == Spec => []CacheInv
  BY InitCacheInv, StepCacheInv, PTL DEF Spec

-----------------------------------------------------------------------------
(* Theorems.                                                               *)

\* The archive a run has made (_finalize_zip) has every path its configuration
\* selects, for any faults, edits and interleavings and for whatever tree it found under its
\* stamp, unless a reset or the lftp of a dead run worked under it or its own zip failed.
THEOREM ArchivesAreComplete == Spec => []NoGaps
  <1>1. CacheInv => NoGaps
    BY DEF CacheInv, Complete, NoGaps
  <1> QED BY <1>1, CacheInvariant, PTL

\* It has nothing else, unless the run trusted the stamp of a cache which another
\* configuration's files had come into since, or met another configuration's lftp.
THEOREM ArchivesAreExact == Spec => []NoLeftovers
  <1>1. CacheInv => NoLeftovers
    BY DEF CacheInv, Exact, NoLeftovers
  <1> QED BY <1>1, CacheInvariant, PTL

\* A free cache (no flock held) holds only what its fingerprint selects, for the same
\* exceptions.
THEOREM StampsAreTrue == Spec => []StampTellsCache
  <1>1. CacheInv => StampTellsCache
    BY DEF CacheInv
  <1> QED BY <1>1, CacheInvariant, PTL
=============================================================================
