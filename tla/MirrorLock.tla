------------------------------ MODULE MirrorLock ------------------------------
(***************************************************************************)
(* The file lock of one repository's bare mirror: analysis threads that    *)
(* sync it (packages/git/.../repository.py) and jobs that delete it        *)
(* (services/structural_analysis.py).  A step is one system call, or one   *)
(* git process.  The repository is the only one of its workspace, so its   *)
(* directory is empty once mirror and lock file are gone.                  *)
(***************************************************************************)
EXTENDS FiniteSets, Naturals

CONSTANTS
  Syncers,   \* threads that run sync_github_repository
  Deleters,  \* threads that run delete_repository_mirror
  Inodes,    \* what a name of the file system may stand for
  None,      \* no inode, nobody
  Faults     \* subset of {"crash", "git"}

Procs == Syncers \cup Deleters

ASSUME MirrorAssumption ==
  /\ Syncers \cap Deleters = {}
  /\ None \notin Inodes \cup Procs
  /\ Faults \subseteq {"crash", "git"}

VARIABLES
  parent,    \* TRUE: the workspace's directory exists
  lockFile,  \* the inode that the lock's path names, or None
  holder,    \* who holds the exclusive flock of each inode
  mirror,    \* what the mirror's path names
  leftover,  \* TRUE: a killed clone left its staging directory behind
  proc       \* what each thread is doing, and the inode its descriptor is open on

vars == <<parent, lockFile, holder, mirror, leftover, proc>>

Waiting == {"idle", "open", "flock", "locked", "unlock", "raise"}

SyncPhase == Waiting \cup {"clone", "fetch"}

DeletePhase == Waiting \cup {"rmtree", "unlink", "rmdir"}

Phase(p) == IF p \in Syncers THEN SyncPhase ELSE DeletePhase

TypeOK ==
  /\ parent \in BOOLEAN /\ leftover \in BOOLEAN
  /\ lockFile \in Inodes \cup {None}
  /\ holder \in [Inodes -> Procs \cup {None}]
  /\ mirror \in {"absent", "whole", "partial"}
  /\ proc \in [Procs -> [pc : SyncPhase \cup DeletePhase, fd : Inodes \cup {None}]]
  /\ \A p \in Procs : proc[p].pc \in Phase(p)

Init ==
  /\ parent = FALSE /\ leftover = FALSE
  /\ lockFile = None
  /\ holder = [i \in Inodes |-> None]
  /\ mirror = "absent"
  /\ proc = [p \in Procs |-> [pc |-> "idle", fd |-> None]]

Goto(p, pc) == proc' = [proc EXCEPT ![p] = [pc |-> pc, fd |-> proc[p].fd]]

-----------------------------------------------------------------------------
(* What both kinds of thread do                                             *)

\* An inode can be used again when no name and no descriptor refers to it.
Unused(i) == i # lockFile /\ \A p \in Procs : proc[p].fd # i

\* open with O_CREAT: the file is created if its path names none, and the call raises if the
\* directory is gone.
Open(p) ==
  /\ proc[p].pc = "open"
  /\ \/ /\ parent /\ lockFile # None
        /\ proc' = [proc EXCEPT ![p] = [pc |-> "flock", fd |-> lockFile]]
        /\ UNCHANGED lockFile
     \/ \E i \in Inodes :
          /\ parent /\ lockFile = None /\ Unused(i)
          /\ lockFile' = i
          /\ proc' = [proc EXCEPT ![p] = [pc |-> "flock", fd |-> i]]
     \/ /\ ~parent
        /\ Goto(p, "idle")
        /\ UNCHANGED lockFile
  /\ UNCHANGED <<parent, holder, mirror, leftover>>

\* Mutant: the lock is shared.
Shared(i) == TRUE

\* LOCK_EX is granted when nobody holds the lock of the inode.
Free(i) == holder[i] = None

Flock(p) ==
  /\ proc[p].pc = "flock" /\ Free(proc[p].fd)
  /\ holder' = [holder EXCEPT ![proc[p].fd] = p]
  /\ Goto(p, "locked")
  /\ UNCHANGED <<parent, lockFile, mirror, leftover>>

\* Mutant: only a success releases the lock.
UnlockOnSuccess(p) ==
  /\ proc[p].pc \in {"unlock", "raise"}
  /\ holder' = IF proc[p].pc = "raise" THEN holder ELSE [holder EXCEPT ![proc[p].fd] = None]
  /\ proc' = [proc EXCEPT ![p] =
       [pc |-> IF p \in Deleters /\ proc[p].pc = "unlock" THEN "unlink" ELSE "idle", fd |-> None]]
  /\ UNCHANGED <<parent, lockFile, mirror, leftover>>

\* The finally block.  A deletion that raised ends here; one that did not unlinks the file.
Unlock(p) ==
  /\ proc[p].pc \in {"unlock", "raise"}
  /\ holder' = [holder EXCEPT ![proc[p].fd] = None]
  /\ proc' = [proc EXCEPT ![p] =
       [pc |-> IF p \in Deleters /\ proc[p].pc = "unlock" THEN "unlink" ELSE "idle", fd |-> None]]
  /\ UNCHANGED <<parent, lockFile, mirror, leftover>>

-----------------------------------------------------------------------------
(* sync_github_repository                                                   *)

Mkdir(p) ==
  /\ p \in Syncers /\ proc[p].pc = "idle"
  /\ parent' = TRUE
  /\ Goto(p, "open")
  /\ UNCHANGED <<lockFile, holder, mirror, leftover>>

\* Under the lock: clone if nothing is there; a mirror without an origin is refused.  The
\* staging directory of a clone needs the parent, and keeps it from being removed.
Inspect(p) ==
  /\ p \in Syncers /\ proc[p].pc = "locked"
  /\ Goto(p, CASE mirror = "absent" -> IF parent THEN "clone" ELSE "raise"
               [] mirror = "whole" -> "fetch"
               [] mirror = "partial" -> "raise")
  /\ UNCHANGED <<parent, lockFile, holder, mirror, leftover>>

\* Mutant: the exit code of git clone is not looked at.
FinishCloneUnchecked(p) ==
  /\ proc[p].pc = "clone"
  /\ \/ mirror = "absent" /\ mirror' = "whole"
     \/ mirror = "absent" /\ "git" \in Faults /\ mirror' = "partial"
     \/ mirror # "absent" /\ UNCHANGED mirror
  /\ Goto(p, "unlock")
  /\ UNCHANGED <<parent, lockFile, holder, leftover>>

\* The staged clone is renamed to the mirror's path, which must not name a directory by now.
FinishClone(p) ==
  /\ proc[p].pc = "clone"
  /\ \/ /\ mirror = "absent"
        /\ mirror' = "whole"
        /\ Goto(p, "unlock")
     \/ /\ mirror # "absent" \/ "git" \in Faults
        /\ Goto(p, "raise")
        /\ UNCHANGED mirror
  /\ UNCHANGED <<parent, lockFile, holder, leftover>>

\* git fetch updates the mirror if it is still there.
FinishFetch(p) ==
  /\ proc[p].pc = "fetch"
  /\ \/ mirror = "whole" /\ Goto(p, "unlock")
     \/ (mirror # "whole" \/ "git" \in Faults) /\ Goto(p, "raise")
  /\ UNCHANGED <<parent, lockFile, holder, mirror, leftover>>

-----------------------------------------------------------------------------
(* delete_repository_mirror                                                 *)

\* Without a mirror the job returns at once.
StartDelete(p) ==
  /\ p \in Deleters /\ proc[p].pc = "idle" /\ mirror # "absent"
  /\ Goto(p, "open")
  /\ UNCHANGED <<parent, lockFile, holder, mirror, leftover>>

BeginRemoval(p) ==
  /\ p \in Deleters /\ proc[p].pc = "locked"
  /\ \/ /\ mirror # "absent"
        /\ mirror' = "partial"
        /\ Goto(p, "rmtree")
     \/ /\ mirror = "absent"
        /\ Goto(p, "unlock")
        /\ UNCHANGED mirror
  /\ UNCHANGED <<parent, lockFile, holder, leftover>>

\* rmtree ends with the directory removed.  It raises when somebody else removed it or put
\* another in its place, and may raise when a fetch adds a file to what is being removed.
EndRemoval(p) ==
  /\ proc[p].pc = "rmtree"
  /\ \/ /\ mirror = "partial"
        /\ mirror' = "absent"
        /\ Goto(p, "unlock")
     \/ /\ mirror # "partial" \/ \E s \in Syncers : proc[s].pc = "fetch"
        /\ Goto(p, "raise")
        /\ UNCHANGED mirror
  /\ UNCHANGED <<parent, lockFile, holder, leftover>>

\* The path is unlinked after the lock was released, whatever it names by then.
Unlink(p) ==
  /\ proc[p].pc = "unlink"
  /\ lockFile' = None
  /\ Goto(p, "rmdir")
  /\ UNCHANGED <<parent, holder, mirror, leftover>>

\* rmdir removes an empty directory; its errors are suppressed.
Rmdir(p) ==
  /\ proc[p].pc = "rmdir"
  /\ parent' = (parent /\ ( \/ mirror # "absent" \/ lockFile # None \/ leftover
                            \/ \E s \in Syncers : proc[s].pc = "clone"))
  /\ Goto(p, "idle")
  /\ UNCHANGED <<lockFile, holder, mirror, leftover>>

\* A killed process loses its descriptors, and with them its lock.
Crash(p) ==
  /\ "crash" \in Faults /\ proc[p].pc # "idle"
  /\ proc' = [proc EXCEPT ![p] = [pc |-> "idle", fd |-> None]]
  /\ holder' = [i \in Inodes |-> IF holder[i] = p THEN None ELSE holder[i]]
  /\ leftover' = (leftover \/ proc[p].pc = "clone")
  /\ UNCHANGED <<parent, lockFile, mirror>>

Step(p) ==
  \/ Open(p) \/ Flock(p) \/ Unlock(p)
  \/ Inspect(p) \/ FinishClone(p) \/ FinishFetch(p)
  \/ BeginRemoval(p) \/ EndRemoval(p) \/ Unlink(p) \/ Rmdir(p)

Next == \E p \in Procs : Mkdir(p) \/ StartDelete(p) \/ Step(p) \/ Crash(p)

Spec == Init /\ [][Next]_vars

\* A thread that runs goes on; the kernel grants a lock to its waiters in turn.
Fairness ==
  \A p \in Procs : WF_vars(Step(p)) /\ SF_vars(Flock(p))

FairSpec == Spec /\ Fairness

-----------------------------------------------------------------------------
(* Properties                                                               *)

Critical(p) == proc[p].pc \in {"locked", "clone", "fetch", "rmtree"}

\* The phases between flock and the end of the finally block.
Owns(p) == Critical(p) \/ proc[p].pc \in {"unlock", "raise"}

\* "a locked, persistent bare GitHub mirror" (repository.py 251): at most one thread at a time
\* works on the mirror.
Exclusion == \A p, q \in Procs : Critical(p) /\ Critical(q) => p = q

\* A sync that is about to return successfully, its lock not yet released, has left a whole
\* mirror: a clone becomes visible complete or not at all, also if its process is killed.
SyncedMirrorIsWhole ==
  \A s \in Syncers : proc[s].pc = "unlock" => mirror = "whole"

\* Every thread that waits for the lock gets it, works and returns.
EveryThreadReturns == \A p \in Procs : proc[p].pc # "idle" ~> proc[p].pc = "idle"

\* Deletions included: a lock belongs to a thread that has its inode open and is at work, and
\* whoever works on the mirror owns the lock of the inode it opened.
LocksInv ==
  /\ \A i \in Inodes : holder[i] # None => proc[holder[i]].fd = i /\ Owns(holder[i])
  /\ \A p \in Procs :
       /\ Owns(p) => holder[proc[p].fd] = p
       /\ Owns(p) \/ proc[p].pc = "flock" => proc[p].fd \in Inodes

\* Nobody is about to unlink the lock file.
NobodyUnlinks == \A p \in Procs : proc[p].pc # "unlink"

\* Until a deletion comes to unlink the lock file, syncs and the removal of the mirror exclude
\* each other, and a sync that succeeds leaves a whole mirror, whatever is killed on the way.
ExclusiveUntilUnlinked == []NobodyUnlinks => [](Exclusion /\ SyncedMirrorIsWhole)

\* The invariant behind it: there is one lock file, every open descriptor is on it, and its
\* owner knows what the mirror's path names.
OneLockFile ==
  /\ LocksInv
  /\ \A p \in Procs : proc[p].fd \in {None, lockFile}
  /\ \A p \in Procs : proc[p].pc \notin {"unlink", "rmdir"}
  /\ \A s \in Syncers : proc[s].pc \in {"fetch", "unlock"} => mirror = "whole"
=============================================================================
