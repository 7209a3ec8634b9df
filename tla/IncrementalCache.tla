--------------------------- MODULE IncrementalCache ---------------------------
(***************************************************************************)
(* The mirror cache of one incremental website node: a directory kept from *)
(* backup to backup, a lock file that serializes its users, and a stamp,   *)
(* the fingerprint of the configuration the cache was last mirrored and    *)
(* archived under.  A run that finds another stamp empties the cache; one  *)
(* that finds its own trusts it and lets lftp fetch the differences.       *)
(*                                                                         *)
(* A path of a configuration is a model value: present in the cache or     *)
(* not.  lftp compares each file it mirrors with the server's and removes, *)
(* below each source only, what the server has not, so that the content    *)
(* of a mirrored path is right and paths outside the sources stay.         *)
(*                                                                         *)
(* lftp is a process of its own.  When the worker that started it dies     *)
(* (cancel terminates it) lftp lives on, and the lock does not: the worker *)
(* held it, and its files are not inherited.                               *)
(***************************************************************************)
EXTENDS Naturals, FiniteSets

CONSTANTS
    Run,     \* runs of the node's backup task (a retry is another run)
    Path,    \* the paths the configurations select
    Config,  \* configurations, as far as _cache_fingerprint tells them apart
    Covers,  \* the paths each one selects
    Clash,   \* paths of other servers or filters that share a path's directory
    Env      \* which faults and operator actions the behaviours include

EnvKinds == {"network",  \* a transfer fails, or the time limit strikes
             "edit",     \* the configuration is changed
             "reset",    \* an operator resets the cache
             "zip",      \* zip fails, and its exit status is not looked at
             "crash"}    \* a worker process dies

ASSUME CacheAssumption ==
    /\ IsFiniteSet(Run)
    /\ Covers \in [Config -> SUBSET Path]
    /\ Clash \in [Path -> SUBSET Path]
    /\ \A c \in Config : \A p \in Covers[c] : Clash[p] \cap Covers[c] = {}
    /\ Env \subseteq EnvKinds

VARIABLES
    config,   \* the node's configuration
    stamp,    \* the fingerprint in .meta.json, {} when there is none
    cache,    \* paths in the mirror directory
    holder,   \* the run that holds the flock, {} when it is free
    pc,       \* where each run is
    loaded,   \* the configuration the run works with, {} before it starts
    todo,     \* sources it has still to mirror
    archive,  \* what its zip holds
    reset,    \* the operator's request, one at most: removing the directory, then the stamp
    doomed,   \* what that request has listed and not yet removed
    strays,   \* paths that an lftp which outlived its run still mirrors
    mixed,    \* history: since the stamp, another configuration's files came into the cache
    torn,     \* history: runs under which a reset, or such an lftp, could take files away,
              \* and runs whose zip failed
    misled    \* history: runs that trusted a mixed cache, or shared it with another
              \* configuration's lftp

vars == <<config, stamp, cache, holder, pc, loaded, todo, archive, reset, doomed, strays,
          mixed, torn, misled>>
resetting == <<reset, doomed>>
run == <<loaded, todo, archive>>
history == <<mixed, torn, misled>>

-----------------------------------------------------------------------------

Inside == {"mirroring", "zipped"}
Ended == {"done", "left"}  \* with the stamp, and without
RunState == Inside \cup Ended \cup {"idle", "waiting"}

TypeOK ==
    /\ config \in Config
    /\ stamp \in SUBSET Config
    /\ cache \in SUBSET Path
    /\ holder \in SUBSET Run
    /\ pc \in [Run -> RunState]
    /\ loaded \in [Run -> SUBSET Config]
    /\ todo \in [Run -> SUBSET Path]
    /\ archive \in [Run -> SUBSET Path]
    /\ reset \in {"idle", "removing", "over"}
    /\ doomed \in SUBSET Path
    /\ strays \in SUBSET Path
    /\ mixed \in BOOLEAN
    /\ torn \in SUBSET Run
    /\ misled \in SUBSET Run

Init ==
    /\ config \in Config
    /\ stamp = {}
    /\ cache = {}
    /\ holder = {}
    /\ pc = [r \in Run |-> "idle"]
    /\ loaded = [r \in Run |-> {}]
    /\ todo = [r \in Run |-> {}]
    /\ archive = [r \in Run |-> {}]
    /\ reset = "idle"
    /\ doomed = {}
    /\ strays = {}
    /\ mixed = FALSE
    /\ torn = {}
    /\ misled = {}

Advance(r, s) == pc' = [pc EXCEPT ![r] = s]

Select(C) == UNION {Covers[c] : c \in C}
Selected(r) == Select(loaded[r])

-----------------------------------------------------------------------------
(* A run (_snapshot_lftp).                                                 *)

\* The task loads the node, checks the disk and the connection, and waits for the lock.
Begin(r) ==
    /\ pc[r] = "idle"
    /\ Advance(r, "waiting")
    /\ loaded' = [loaded EXCEPT ![r] = {config}]
    /\ UNCHANGED <<config, stamp, cache, holder, todo, archive, resetting, strays, history>>

\* What a run finds on entering.
Meets(r) ==
    /\ misled' = IF (stamp = loaded[r] /\ mixed) \/ ~ strays \subseteq Selected(r)
                 THEN misled \cup {r} ELSE misled
    /\ torn' = IF reset = "removing" \/ strays # {} THEN torn \cup {r} ELSE torn
    /\ mixed' = (mixed /\ stamp = loaded[r])

\* Mutant: no flock.
EnterUnlocked(r) ==
    /\ pc[r] = "waiting"
    /\ Advance(r, "mirroring")
    /\ holder' = {r}
    /\ todo' = [todo EXCEPT ![r] = Selected(r)]
    /\ cache' = IF stamp = loaded[r] THEN cache ELSE {}
    /\ Meets(r)
    /\ UNCHANGED <<config, stamp, loaded, archive, resetting, strays>>

\* Mutant: the stamp is not looked at.
EnterTrusting(r) ==
    /\ pc[r] = "waiting"
    /\ holder = {}
    /\ Advance(r, "mirroring")
    /\ holder' = {r}
    /\ todo' = [todo EXCEPT ![r] = Selected(r)]
    /\ Meets(r)
    /\ UNCHANGED <<config, stamp, cache, loaded, archive, resetting, strays>>

\* Under the lock: a stamp of another configuration, or none, empties the cache.  The stamp
\* itself stays until the run has succeeded.
Enter(r) ==
    /\ pc[r] = "waiting"
    /\ holder = {}
    /\ Advance(r, "mirroring")
    /\ holder' = {r}
    /\ todo' = [todo EXCEPT ![r] = Selected(r)]
    /\ cache' = IF stamp = loaded[r] THEN cache ELSE {}
    /\ Meets(r)
    /\ UNCHANGED <<config, stamp, loaded, archive, resetting, strays>>

\* The cache after a mirror of p: some or all of what clashes with it is overwritten or
\* deleted (excluded files are not, and a single file deletes nothing).
Mirrored(p) == {(cache \ gone) \cup {p} : gone \in SUBSET Clash[p]}

\* One source is mirrored and lftp's exit code checked.
Mirror(r, p) ==
    /\ pc[r] = "mirroring"
    /\ p \in todo[r]
    /\ todo' = [todo EXCEPT ![r] = @ \ {p}]
    /\ cache' \in Mirrored(p)
    /\ UNCHANGED <<config, stamp, holder, pc, loaded, archive, resetting, strays, history>>

\* The zip takes whatever the directory holds.  When it fails, some of that is missing from the
\* archive, or all of it, and the run goes on all the same.
Zip(r) ==
    /\ pc[r] = "mirroring"
    /\ todo[r] = {}
    /\ Advance(r, "zipped")
    /\ \/ archive' = [archive EXCEPT ![r] = cache] /\ UNCHANGED torn
       \/ /\ "zip" \in Env
          /\ \E some \in SUBSET cache :
                some # cache /\ archive' = [archive EXCEPT ![r] = some]
          /\ torn' = torn \cup {r}
    /\ UNCHANGED <<config, stamp, cache, holder, loaded, todo, resetting, strays,
                   mixed, misled>>

\* A run's own state goes with it.
Forget(r) ==
    /\ todo' = [todo EXCEPT ![r] = {}]
    /\ archive' = [archive EXCEPT ![r] = {}]
    /\ loaded' = [loaded EXCEPT ![r] = {}]
    /\ torn' = torn \ {r}
    /\ misled' = misled \ {r}

\* Mutant: the stamp names the run instead of the configuration.
StampRun(r) ==
    /\ pc[r] = "zipped"
    /\ Advance(r, "done")
    /\ stamp' = {r}
    /\ mixed' = (r \in misled)
    /\ holder' = holder \ {r}
    /\ Forget(r)
    /\ UNCHANGED <<config, cache, resetting, strays>>

\* Only now is the cache stamped, and the lock released.  The archive is uploaded as it is.
Stamp(r) ==
    /\ pc[r] = "zipped"
    /\ Advance(r, "done")
    /\ stamp' = loaded[r]
    /\ mixed' = (r \in misled)
    /\ holder' = holder \ {r}
    /\ Forget(r)
    /\ UNCHANGED <<config, cache, resetting, strays>>

\* A run that leaves without stamping leaves the files of its configuration behind.
LeaveBehind(r) ==
    /\ mixed' = (mixed \/ (stamp # {} /\ stamp # loaded[r]))
    /\ Forget(r)

\* Mutant: the lock is released on success only.
FailHolding(r) ==
    /\ "network" \in Env
    /\ pc[r] \in Inside
    /\ Advance(r, "left")
    /\ LeaveBehind(r)
    /\ UNCHANGED <<config, stamp, cache, holder, resetting, strays>>

\* Mutant: the cache is stamped whatever happened.
FailStamping(r) ==
    /\ "network" \in Env
    /\ pc[r] \in Inside
    /\ Advance(r, "left")
    /\ stamp' = {config}
    /\ holder' = holder \ {r}
    /\ Forget(r)
    /\ UNCHANGED <<config, cache, resetting, strays, mixed>>

Fail(r) ==
    /\ "network" \in Env
    /\ pc[r] \in Inside
    /\ Advance(r, "left")
    /\ holder' = holder \ {r}
    /\ LeaveBehind(r)
    /\ UNCHANGED <<config, stamp, cache, resetting, strays>>

\* The operating system releases the lock of a process that dies.  An lftp it was running
\* goes on with its source.
Crash(r) ==
    /\ "crash" \in Env
    /\ pc[r] \in Inside
    /\ Advance(r, "left")
    /\ holder' = holder \ {r}
    /\ \/ UNCHANGED strays
       \/ \E p \in todo[r] : strays' = strays \cup {p}
    /\ LeaveBehind(r)
    /\ UNCHANGED <<config, stamp, cache, resetting>>

-----------------------------------------------------------------------------
(* An lftp without its worker: no lock, no time-out, nobody reads its exit *)
(* code.                                                                   *)

\* It makes the cache its own server's, and may be in the middle of a file, or of what it
\* removes.
StrayMirrors(p) ==
    /\ p \in strays
    /\ cache' \in Mirrored(p) \cup {cache \ gone : gone \in SUBSET (Clash[p] \cup {p})}
    /\ mixed' = (mixed \/ (stamp # {} /\ p \notin Select(stamp)))
    /\ UNCHANGED <<config, stamp, holder, pc, run, resetting, strays, torn, misled>>

StrayEnds(p) ==
    /\ p \in strays
    /\ strays' = strays \ {p}
    /\ UNCHANGED <<config, stamp, cache, holder, pc, run, resetting, history>>

-----------------------------------------------------------------------------
(* Operators.                                                              *)

Edit(c) ==
    /\ "edit" \in Env
    /\ c # config
    /\ config' = c
    /\ UNCHANGED <<stamp, cache, holder, pc, run, resetting, strays, history>>

\* reset_incremental takes no lock and looks at no backup: it removes the directory, path
\* by path, while a run may be filling it, and then the stamp.
ResetBegin ==
    /\ "reset" \in Env
    /\ reset = "idle"
    /\ reset' = "removing"
    /\ doomed' = cache
    /\ torn' = torn \cup {r \in Run : pc[r] \in Inside}
    /\ UNCHANGED <<config, stamp, cache, holder, pc, run, strays, mixed, misled>>

ResetRemove(p) ==
    /\ p \in doomed
    /\ doomed' = doomed \ {p}
    /\ cache' = cache \ {p}
    /\ UNCHANGED <<config, stamp, holder, pc, run, reset, strays, history>>

\* rmtree ignores errors, so what a run has put back meanwhile may stay.
ResetEnd ==
    /\ reset = "removing"
    /\ doomed = {}
    /\ reset' = "over"
    /\ stamp' = {}
    /\ UNCHANGED <<config, cache, holder, pc, run, doomed, strays, history>>

-----------------------------------------------------------------------------

RunStep(r) ==
    \/ Begin(r) \/ Enter(r) \/ Zip(r) \/ Stamp(r)
    \/ \E p \in Path : Mirror(r, p)

Next ==
    \/ \E r \in Run : RunStep(r) \/ Fail(r) \/ Crash(r)
    \/ \E c \in Config : Edit(c)
    \/ ResetBegin \/ ResetEnd
    \/ \E p \in Path : ResetRemove(p) \/ StrayMirrors(p) \/ StrayEnds(p)

Spec == Init /\ [][Next]_vars

\* A run's lftp and zip end (their time-outs see to it), and whoever waits on a free flock
\* gets it.  Nothing is assumed of an lftp without its worker.
FairSpec == Spec /\ \A r \in Run : WF_vars(RunStep(r))

-----------------------------------------------------------------------------
(* Properties.                                                             *)

\* The archive a run has made, which nothing changes before it is uploaded, has every path
\* the run's configuration selects, whatever failed, died or was edited before and meanwhile,
\* and whatever an earlier run or reset left of the tree under a stamp that says it is
\* current.  It may have gaps when a reset ran through the run, an lftp of a dead run was
\* still at work, or its own zip failed.
NoGaps == \A r \in Run \ torn : pc[r] = "zipped" => Selected(r) \subseteq archive[r]

\* It has nothing else, unless the run trusted the stamp of a cache which another
\* configuration's files had come into since, or an lftp of another configuration was still
\* at work: neither the run's own configuration's lftp nor a reset or failed zip adds any.
NoLeftovers == \A r \in Run \ misled : pc[r] = "zipped" => archive[r] \subseteq Selected(r)

\* A free cache holds nothing its stamp does not select, but for the same exceptions.
StampTellsCache ==
    holder = {} /\ ~ mixed /\ stamp # {} => cache \subseteq Select(stamp)

\* A run that waits for the lock gets it and ends, and so do all that wait with it: no way out
\* of the critical section, by success, failure or the death of the worker, keeps the lock.
WaitingRunEnds ==
    (\E r \in Run : pc[r] = "waiting") ~> (\A r \in Run : pc[r] \in Ended \cup {"idle"})
=============================================================================
