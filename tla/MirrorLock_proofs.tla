-------------------------- MODULE MirrorLock_proofs --------------------------
(***************************************************************************)
(* Proofs about MirrorLock, for any number of threads and inodes.          *)
(***************************************************************************)
EXTENDS MirrorLock, TLAPS

USE MirrorAssumption

Busy == {"locked", "clone", "fetch", "rmtree", "unlock", "raise"}

\* The part of TypeOK about what the threads do.
ProcOK ==
  /\ proc \in [Procs -> [pc : SyncPhase \cup DeletePhase, fd : Inodes \cup {None}]]
  /\ \A p \in Procs : proc[p].pc \in Phase(p)

\* A thread that goes on to a phase of its kind keeps the threads typed.
LEMMA MoveTyped ==
  ASSUME ProcOK, NEW p \in Procs, NEW pc \in Phase(p), NEW fd \in Inodes \cup {None},
         proc' = [proc EXCEPT ![p] = [pc |-> pc, fd |-> fd]]
  PROVE  ProcOK'
<1>1. pc \in SyncPhase \cup DeletePhase
  BY DEF Phase
<1>2. proc' \in [Procs -> [pc : SyncPhase \cup DeletePhase, fd : Inodes \cup {None}]]
  BY <1>1 DEF ProcOK
<1>3. \A q \in Procs : proc'[q].pc = IF q = p THEN pc ELSE proc[q].pc
  BY DEF ProcOK
<1> QED BY <1>2, <1>3 DEF ProcOK, Phase

\* Every variable keeps its type, and a thread that syncs never enters a phase of a deletion.
THEOREM MirrorTyped == Spec => []TypeOK
<1>1. Init => TypeOK
  <2>1. \A p \in Procs : "idle" \in Phase(p) /\ "idle" \in SyncPhase
    BY DEF Phase, SyncPhase, DeletePhase, Waiting
  <2>2. [pc |-> "idle", fd |-> None] \in [pc : SyncPhase \cup DeletePhase, fd : Inodes \cup {None}]
    BY DEF SyncPhase, Waiting
  <2>3. ASSUME Init PROVE \A p \in Procs : proc[p].pc \in Phase(p)
    BY <2>1, <2>3 DEF Init
  <2>4. ASSUME Init PROVE proc \in [Procs -> [pc : SyncPhase \cup DeletePhase, fd : Inodes \cup {None}]]
    BY <2>2, <2>4 DEF Init
  <2> QED BY <2>3, <2>4 DEF Init, TypeOK
<1>2. TypeOK /\ [Next]_vars => TypeOK'
  <2> SUFFICES ASSUME TypeOK, [Next]_vars PROVE TypeOK'
    OBVIOUS
  <2>0. ProcOK
    BY DEF TypeOK, ProcOK
  <2>00. ASSUME NEW p \in Procs, NEW pc \in Phase(p), Goto(p, pc) PROVE ProcOK'
    BY <2>0, <2>00, MoveTyped DEF Goto, ProcOK
  <2>1. ASSUME NEW p \in Procs, Open(p) PROVE TypeOK'
    <3>1. "flock" \in Phase(p) /\ "idle" \in Phase(p)
      BY DEF Phase, SyncPhase, DeletePhase, Waiting
    <3>2. ProcOK'
      <4>1. CASE Goto(p, "idle")
        BY <2>00, <3>1, <4>1
      <4>2. CASE lockFile # None /\ proc' = [proc EXCEPT ![p] = [pc |-> "flock", fd |-> lockFile]]
        BY <2>0, <3>1, <4>2, MoveTyped DEF TypeOK
      <4>3. CASE \E i \in Inodes : proc' = [proc EXCEPT ![p] = [pc |-> "flock", fd |-> i]]
        BY <2>0, <3>1, <4>3, MoveTyped
      <4> QED BY <2>1, <4>1, <4>2, <4>3 DEF Open
    <3> QED BY <2>1, <3>2 DEF Open, TypeOK, ProcOK
  <2>2. ASSUME NEW p \in Procs, Flock(p) PROVE TypeOK'
    <3>1. ProcOK'
      BY <2>2, <2>00 DEF Flock, Phase, SyncPhase, DeletePhase, Waiting
    <3> QED BY <2>2, <3>1 DEF Flock, TypeOK, ProcOK
  <2>3. ASSUME NEW p \in Procs, Unlock(p) PROVE TypeOK'
    <3>1. p \in Deleters => "unlink" \in Phase(p)
      BY DEF Phase, DeletePhase
    <3>2. "idle" \in Phase(p)
      BY DEF Phase, SyncPhase, DeletePhase, Waiting
    <3>3. ProcOK'
      BY <2>0, <2>3, <3>1, <3>2, MoveTyped DEF Unlock
    <3> QED BY <2>3, <3>3 DEF Unlock, TypeOK, ProcOK
  <2>4. ASSUME NEW p \in Procs, Inspect(p) PROVE TypeOK'
    <3>1. Goto(p, "clone") \/ Goto(p, "raise") \/ Goto(p, "fetch")
      BY <2>4 DEF Inspect, TypeOK
    <3>2. ProcOK'
      BY <2>4, <2>00, <3>1 DEF Inspect, Phase, SyncPhase, Waiting
    <3> QED BY <2>4, <3>2 DEF Inspect, TypeOK, ProcOK
  <2>5. ASSUME NEW p \in Procs, FinishClone(p) \/ FinishFetch(p) PROVE TypeOK'
    <3>1. Goto(p, "unlock") \/ Goto(p, "raise")
      BY <2>5 DEF FinishClone, FinishFetch
    <3>2. ProcOK'
      BY <2>00, <3>1 DEF Phase, SyncPhase, DeletePhase, Waiting
    <3> QED BY <2>5, <3>2 DEF FinishClone, FinishFetch, TypeOK, ProcOK
  <2>6. ASSUME NEW p \in Procs, BeginRemoval(p) \/ EndRemoval(p) PROVE TypeOK'
    <3>1. p \in Deleters
      BY <2>6 DEF BeginRemoval, EndRemoval, TypeOK, Procs, Phase, SyncPhase, Waiting
    <3>2. Goto(p, "rmtree") \/ Goto(p, "unlock") \/ Goto(p, "raise")
      BY <2>6 DEF BeginRemoval, EndRemoval
    <3>3. ProcOK'
      BY <2>00, <3>1, <3>2 DEF Phase, DeletePhase, Waiting
    <3> QED BY <2>6, <3>3 DEF BeginRemoval, EndRemoval, TypeOK, ProcOK
  <2>7. ASSUME NEW p \in Procs, Unlink(p) \/ Rmdir(p) PROVE TypeOK'
    <3>1. p \in Deleters
      BY <2>7 DEF Unlink, Rmdir, TypeOK, Procs, Phase, SyncPhase, Waiting
    <3>2. Goto(p, "rmdir") \/ Goto(p, "idle")
      BY <2>7 DEF Unlink, Rmdir
    <3>3. ProcOK'
      BY <2>00, <3>1, <3>2 DEF Phase, DeletePhase, Waiting
    <3> QED BY <2>7, <3>3 DEF Unlink, Rmdir, TypeOK, ProcOK
  <2>8. ASSUME NEW p \in Procs, Mkdir(p) \/ StartDelete(p) PROVE TypeOK'
    <3>1. ProcOK'
      BY <2>8, <2>00 DEF Mkdir, StartDelete, Phase, SyncPhase, DeletePhase, Waiting
    <3> QED BY <2>8, <3>1 DEF Mkdir, StartDelete, TypeOK, ProcOK
  <2>9. ASSUME NEW p \in Procs, Crash(p) PROVE TypeOK'
    <3>1. "idle" \in Phase(p)
      BY DEF Phase, SyncPhase, DeletePhase, Waiting
    <3>2. ProcOK'
      BY <2>0, <2>9, <3>1, MoveTyped DEF Crash
    <3> QED BY <2>9, <3>2 DEF Crash, TypeOK, ProcOK
  <2>10. CASE UNCHANGED vars
    BY <2>10 DEF vars, TypeOK
  <2> QED BY <2>1, <2>2, <2>3, <2>4, <2>5, <2>6, <2>7, <2>8, <2>9, <2>10 DEF Next, Step
<1> QED BY <1>1, <1>2, PTL DEF Spec

-----------------------------------------------------------------------------
(* Locks                                                                    *)

\* A step of p that changes its phase only, and no lock, keeps the locks in order if p owns its
\* lock before and after, or neither.
LEMMA MoveKeepsLocks ==
  ASSUME TypeOK, LocksInv, NEW p \in Procs, NEW pc, Goto(p, pc), UNCHANGED holder,
         Owns(p)' <=> Owns(p), pc = "flock" => proc[p].pc = "flock"
  PROVE  LocksInv'
<1>1. proc'[p] = [pc |-> pc, fd |-> proc[p].fd] /\ \A q \in Procs \ {p} : proc'[q] = proc[q]
  BY DEF Goto, TypeOK
<1>2. \A q \in Procs : proc'[q].fd = proc[q].fd /\ (Owns(q)' <=> Owns(q))
  BY <1>1 DEF Owns, Critical
<1>3. \A i \in Inodes : holder[i] # None => holder[i] \in Procs
  BY DEF TypeOK
<1>4. \A q \in Procs : proc'[q].pc = "flock" => proc[q].pc = "flock"
  BY <1>1
<1> QED BY <1>2, <1>3, <1>4 DEF LocksInv

\* The locks are in order if each held one has an owner that is at work on its inode.
LEMMA HolderInv ==
  ASSUME \A j \in Inodes : holder'[j] # None =>
           \E h \in Procs : holder'[j] = h /\ proc'[h].fd = j /\ Owns(h)',
         \A q \in Procs : /\ Owns(q)' => holder'[proc'[q].fd] = q
                          /\ Owns(q)' \/ proc'[q].pc = "flock" => proc'[q].fd \in Inodes
  PROVE  LocksInv'
BY DEF LocksInv, Owns, Critical

\* Every step keeps the locks in order.
LEMMA LocksStep == TypeOK /\ LocksInv /\ [Next]_vars => LocksInv'
<1> SUFFICES ASSUME TypeOK, LocksInv, [Next]_vars PROVE LocksInv'
  OBVIOUS
<1>0. \A i \in Inodes : holder[i] # None => holder[i] \in Procs
  BY DEF TypeOK
<1>1. ASSUME NEW p \in Procs, NEW fd \in Inodes, proc[p].pc = "open", UNCHANGED holder,
             proc' = [proc EXCEPT ![p] = [pc |-> "flock", fd |-> fd]]
      PROVE  LocksInv'
  <2>1. proc'[p] = [pc |-> "flock", fd |-> fd] /\ \A q \in Procs \ {p} : proc'[q] = proc[q]
    BY <1>1 DEF TypeOK
  <2>2. ~Owns(p) /\ ~Owns(p)' /\ \A q \in Procs \ {p} : Owns(q)' <=> Owns(q)
    BY <1>1, <2>1 DEF Owns, Critical
  <2> QED BY <1>0, <1>1, <2>1, <2>2 DEF LocksInv
<1>2. ASSUME NEW p \in Procs, Open(p) PROVE LocksInv'
  <2>1. CASE Goto(p, "idle") /\ UNCHANGED holder
    <3>1. ~Owns(p) /\ ~Owns(p)'
      BY <1>2, <2>1 DEF Open, Goto, Owns, Critical, TypeOK
    <3> QED BY <2>1, <3>1, MoveKeepsLocks
  <2>2. CASE parent /\ lockFile # None /\
             proc' = [proc EXCEPT ![p] = [pc |-> "flock", fd |-> lockFile]]
    BY <1>1, <1>2, <2>2 DEF Open, TypeOK
  <2>3. CASE \E i \in Inodes : proc' = [proc EXCEPT ![p] = [pc |-> "flock", fd |-> i]]
    BY <1>1, <1>2, <2>3 DEF Open
  <2> QED BY <1>2, <2>1, <2>2, <2>3 DEF Open
<1>3. ASSUME NEW p \in Procs, Flock(p) PROVE LocksInv'
  <2> DEFINE i == proc[p].fd
  <2>1. i \in Inodes /\ holder[i] = None /\ ~Owns(p)
    BY <1>3 DEF Flock, Free, LocksInv, Owns, Critical
  <2>2. proc'[p] = [pc |-> "locked", fd |-> i] /\ \A q \in Procs \ {p} : proc'[q] = proc[q]
    BY <1>3 DEF Flock, Goto, TypeOK
  <2>3. holder'[i] = p /\ \A j \in Inodes \ {i} : holder'[j] = holder[j]
    BY <1>3, <2>1 DEF Flock, TypeOK
  <2>4. Owns(p)' /\ \A q \in Procs \ {p} : Owns(q)' <=> Owns(q)
    BY <2>2 DEF Owns, Critical
  <2>5. ASSUME NEW q \in Procs, q # p, Owns(q) PROVE proc[q].fd # i
    BY <2>1, <2>5 DEF LocksInv
  <2>6. ASSUME NEW j \in Inodes, holder'[j] # None
        PROVE  \E h \in Procs : holder'[j] = h /\ proc'[h].fd = j /\ Owns(h)'
    <3>1. CASE j = i
      BY <2>2, <2>3, <2>4, <3>1
    <3>2. CASE j # i
      <4>1. holder[j] \in Procs /\ proc[holder[j]].fd = j /\ Owns(holder[j])
        BY <1>0, <2>3, <2>6, <3>2 DEF LocksInv
      <4>2. holder[j] # p
        BY <2>1, <4>1
      <4> QED BY <2>2, <2>3, <2>4, <3>2, <4>1, <4>2
    <3> QED BY <3>1, <3>2
  <2>7. ASSUME NEW q \in Procs
        PROVE  /\ Owns(q)' => holder'[proc'[q].fd] = q
               /\ Owns(q)' \/ proc'[q].pc = "flock" => proc'[q].fd \in Inodes
    <3>1. CASE q = p
      BY <2>1, <2>2, <2>3, <3>1
    <3>2. CASE q # p
      BY <2>2, <2>3, <2>4, <2>5, <3>2 DEF LocksInv
    <3> QED BY <3>1, <3>2
  <2> QED BY <2>6, <2>7, HolderInv
<1>4. ASSUME NEW p \in Procs, NEW pc, pc \notin Busy \cup {"flock"},
             proc' = [proc EXCEPT ![p] = [pc |-> pc, fd |-> None]],
             \A j \in Inodes : holder'[j] = IF holder[j] = p THEN None ELSE holder[j]
      PROVE  LocksInv'
  <2>1. proc'[p] = [pc |-> pc, fd |-> None] /\ \A q \in Procs \ {p} : proc'[q] = proc[q]
    BY <1>4 DEF TypeOK
  <2>2. ~Owns(p)' /\ \A q \in Procs \ {p} : Owns(q)' <=> Owns(q)
    BY <1>4, <2>1 DEF Owns, Critical, Busy
  <2>3. ASSUME NEW j \in Inodes, holder'[j] # None
        PROVE  \E h \in Procs : holder'[j] = h /\ proc'[h].fd = j /\ Owns(h)'
    <3>1. holder'[j] = holder[j] /\ holder[j] # p /\ holder[j] # None
      BY <1>4, <2>3
    <3>2. holder[j] \in Procs /\ proc[holder[j]].fd = j /\ Owns(holder[j])
      BY <1>0, <3>1 DEF LocksInv
    <3>3. PICK h \in Procs : h = holder[j]
      BY <3>2
    <3> QED BY <2>1, <2>2, <3>1, <3>2, <3>3
  <2>4. ASSUME NEW q \in Procs
        PROVE  /\ Owns(q)' => holder'[proc'[q].fd] = q
               /\ Owns(q)' \/ proc'[q].pc = "flock" => proc'[q].fd \in Inodes
    <3>1. CASE q = p
      BY <1>4, <2>1, <2>2, <3>1 DEF Busy
    <3>2. CASE q # p
      BY <1>4, <2>1, <2>2, <3>2 DEF LocksInv
    <3> QED BY <3>1, <3>2
  <2> QED BY <2>3, <2>4, HolderInv
<1>5. ASSUME NEW p \in Procs, Unlock(p) PROVE LocksInv'
  <2>1. Owns(p) /\ holder[proc[p].fd] = p /\ proc[p].fd \in Inodes
    BY <1>5 DEF Unlock, LocksInv, Owns
  <2>2. \A j \in Inodes : holder'[j] = IF holder[j] = p THEN None ELSE holder[j]
    BY <1>5, <2>1 DEF Unlock, TypeOK, LocksInv
  <2>3. \E pc \in {"unlink", "idle"} : proc' = [proc EXCEPT ![p] = [pc |-> pc, fd |-> None]]
    BY <1>5 DEF Unlock
  <2> QED BY <1>4, <2>2, <2>3 DEF Busy
<1>6. ASSUME NEW p \in Procs, Crash(p) PROVE LocksInv'
  BY <1>4, <1>6 DEF Crash, Busy
<1>7. ASSUME NEW p \in Procs, Inspect(p) PROVE LocksInv'
  <2>1. \E pc \in {"clone", "fetch", "raise"} : Goto(p, pc)
    BY <1>7 DEF Inspect, TypeOK
  <2>2. Owns(p) /\ Owns(p)'
    BY <1>7, <2>1 DEF Inspect, Goto, Owns, Critical, TypeOK
  <2> QED BY <1>7, <2>1, <2>2, MoveKeepsLocks DEF Inspect
<1>8. ASSUME NEW p \in Procs,
             FinishClone(p) \/ FinishFetch(p) \/ BeginRemoval(p) \/ EndRemoval(p)
      PROVE  LocksInv'
  <2>1. \E pc \in {"unlock", "raise", "rmtree"} : Goto(p, pc)
    BY <1>8 DEF FinishClone, FinishFetch, BeginRemoval, EndRemoval
  <2>2. Owns(p) /\ Owns(p)'
    BY <1>8, <2>1 DEF FinishClone, FinishFetch, BeginRemoval, EndRemoval, Goto, Owns, Critical, TypeOK
  <2> QED BY <1>8, <2>1, <2>2, MoveKeepsLocks
          DEF FinishClone, FinishFetch, BeginRemoval, EndRemoval
<1>9. ASSUME NEW p \in Procs, Mkdir(p) \/ StartDelete(p) \/ Unlink(p) \/ Rmdir(p) PROVE LocksInv'
  <2>1. \E pc \in {"open", "rmdir", "idle"} : Goto(p, pc)
    BY <1>9 DEF Mkdir, StartDelete, Unlink, Rmdir
  <2>2. ~Owns(p) /\ ~Owns(p)'
    BY <1>9, <2>1 DEF Mkdir, StartDelete, Unlink, Rmdir, Goto, Owns, Critical, TypeOK
  <2> QED BY <1>9, <2>1, <2>2, MoveKeepsLocks DEF Mkdir, StartDelete, Unlink, Rmdir
<1>10. CASE UNCHANGED vars
  BY <1>10 DEF vars, LocksInv, Owns, Critical
<1> QED BY <1>2, <1>3, <1>5, <1>6, <1>7, <1>8, <1>9, <1>10 DEF Next, Step

\* Deletions, kills and failures included, the locks of the mirror stay in order.
THEOREM LocksCorrect == Spec => []LocksInv
<1>1. Init => LocksInv
  BY DEF Init, LocksInv, Owns, Critical
<1> QED BY <1>1, LocksStep, MirrorTyped, PTL DEF Spec

-----------------------------------------------------------------------------
(* Until the lock file is unlinked                                          *)

\* While nobody unlinks it, the lock file stays the one that was created first, and what the
\* owner of its lock does to the mirror nobody else can see half done.
LEMMA OneLockFileStep ==
  ASSUME TypeOK, OneLockFile, NobodyUnlinks', [Next]_vars
  PROVE  OneLockFile'
<1>0. LocksInv'
  BY LocksStep DEF OneLockFile
<1>1. ASSUME NEW p \in Procs, \A q \in Procs \ {p} : proc'[q] = proc[q],
             proc'[p].fd \in {None, lockFile'},
             lockFile' = lockFile \/ lockFile = None,
             proc'[p].pc \notin {"unlink", "rmdir"},
             p \in Syncers /\ proc'[p].pc \in {"fetch", "unlock"} => mirror' = "whole",
             mirror' = mirror \/ mirror' = "whole" \/ Owns(p)
      PROVE  OneLockFile'
  <2>1. \A q \in Procs : proc'[q].fd \in {None, lockFile'}
    BY <1>1 DEF OneLockFile
  <2>2. \A q \in Procs : proc'[q].pc \notin {"unlink", "rmdir"}
    BY <1>1 DEF OneLockFile
  <2>3. \A q \in Procs \ {p} : Owns(p) /\ Owns(q) => FALSE
    BY DEF OneLockFile, LocksInv
  <2>4. ASSUME NEW s \in Syncers, proc'[s].pc \in {"fetch", "unlock"} PROVE mirror' = "whole"
    <3>1. CASE s = p
      BY <1>1, <2>4, <3>1
    <3>2. CASE s # p
      <4>1. s \in Procs \ {p} /\ proc'[s] = proc[s]
        BY <1>1, <3>2 DEF Procs
      <4>2. Owns(s) /\ mirror = "whole"
        BY <2>4, <4>1 DEF Owns, Critical, OneLockFile
      <4> QED BY <1>1, <2>3, <4>1, <4>2
    <3> QED BY <3>1, <3>2
  <2> QED BY <1>0, <2>1, <2>2, <2>4 DEF OneLockFile
<1>2. ASSUME NEW p \in Procs, NEW pc, Goto(p, pc), UNCHANGED lockFile,
             pc \notin {"unlink", "rmdir"},
             p \in Syncers /\ pc \in {"fetch", "unlock"} => mirror' = "whole",
             mirror' = mirror \/ mirror' = "whole" \/ Owns(p)
      PROVE  OneLockFile'
  <2>1. proc'[p] = [pc |-> pc, fd |-> proc[p].fd] /\ \A q \in Procs \ {p} : proc'[q] = proc[q]
    BY <1>2 DEF Goto, TypeOK
  <2>2. proc[p].fd \in {None, lockFile'}
    BY <1>2 DEF OneLockFile
  <2> QED BY <1>1, <1>2, <2>1, <2>2
<1>3. ASSUME NEW p \in Procs, Open(p) PROVE OneLockFile'
  <2>1. CASE Goto(p, "idle") /\ UNCHANGED lockFile
    BY <1>2, <1>3, <2>1 DEF Open
  <2>2. CASE ~(Goto(p, "idle") /\ UNCHANGED lockFile)
    <3>1. PICK fd : /\ proc' = [proc EXCEPT ![p] = [pc |-> "flock", fd |-> fd]]
                    /\ lockFile' = fd /\ (lockFile = fd \/ lockFile = None)
      BY <1>3, <2>2 DEF Open
    <3>2. proc'[p] = [pc |-> "flock", fd |-> fd] /\ \A q \in Procs \ {p} : proc'[q] = proc[q]
      BY <3>1 DEF TypeOK
    <3> QED BY <1>1, <1>3, <3>1, <3>2 DEF Open
  <2> QED BY <2>1, <2>2
<1>4. ASSUME NEW p \in Procs, Mkdir(p) \/ StartDelete(p) \/ Flock(p) PROVE OneLockFile'
  <2>1. \E pc \in {"open", "locked"} : Goto(p, pc)
    BY <1>4 DEF Mkdir, StartDelete, Flock
  <2> QED BY <1>2, <1>4, <2>1 DEF Mkdir, StartDelete, Flock
<1>5. ASSUME NEW p \in Procs, Unlock(p) PROVE OneLockFile'
  <2>1. \E pc \in {"idle", "unlink"} :
          proc'[p] = [pc |-> pc, fd |-> None] /\ \A q \in Procs \ {p} : proc'[q] = proc[q]
    BY <1>5 DEF Unlock, TypeOK
  <2>2. proc'[p].pc # "unlink"
    BY DEF NobodyUnlinks
  <2>3. proc'[p] = [pc |-> "idle", fd |-> None] /\ \A q \in Procs \ {p} : proc'[q] = proc[q]
    BY <2>1, <2>2
  <2> QED BY <1>1, <1>5, <2>3 DEF Unlock
<1>6. ASSUME NEW p \in Procs, Inspect(p) PROVE OneLockFile'
  <2>1. \/ Goto(p, "clone") \/ Goto(p, "raise")
        \/ Goto(p, "fetch") /\ mirror = "whole"
    BY <1>6 DEF Inspect, TypeOK
  <2> QED BY <1>2, <1>6, <2>1 DEF Inspect
<1>7. ASSUME NEW p \in Procs, FinishClone(p) \/ FinishFetch(p) PROVE OneLockFile'
  <2>1. \/ Goto(p, "raise") /\ mirror' = mirror
        \/ Goto(p, "unlock") /\ mirror' = "whole"
    BY <1>7 DEF FinishClone, FinishFetch
  <2> QED BY <1>2, <1>7, <2>1 DEF FinishClone, FinishFetch
<1>8. ASSUME NEW p \in Procs, BeginRemoval(p) \/ EndRemoval(p) PROVE OneLockFile'
  <2>1. \E pc \in {"rmtree", "unlock", "raise"} : Goto(p, pc)
    BY <1>8 DEF BeginRemoval, EndRemoval
  <2>2. Owns(p)
    BY <1>8 DEF BeginRemoval, EndRemoval, Owns, Critical
  <2>3. p \notin Syncers
    <3>1. CASE BeginRemoval(p)
      BY <3>1, MirrorAssumption DEF BeginRemoval
    <3>2. CASE EndRemoval(p)
      BY <3>2 DEF EndRemoval, TypeOK, Phase, SyncPhase, Waiting
    <3> QED BY <1>8, <3>1, <3>2
  <2> QED BY <1>2, <1>8, <2>1, <2>2, <2>3 DEF BeginRemoval, EndRemoval
<1>9. ASSUME NEW p \in Procs, Crash(p) PROVE OneLockFile'
  <2>1. proc'[p] = [pc |-> "idle", fd |-> None] /\ \A q \in Procs \ {p} : proc'[q] = proc[q]
    BY <1>9 DEF Crash, TypeOK
  <2> QED BY <1>1, <1>9, <2>1 DEF Crash
<1>10. ASSUME NEW p \in Procs PROVE ~(Unlink(p) \/ Rmdir(p))
  BY DEF Unlink, Rmdir, OneLockFile
<1>11. CASE UNCHANGED vars
  BY <1>0, <1>11 DEF vars, OneLockFile
<1> QED BY <1>3, <1>4, <1>5, <1>6, <1>7, <1>8, <1>9, <1>10, <1>11 DEF Next, Step

\* Up to the first deletion that gets as far as the lock file, one thread at a time works on
\* the mirror and a sync returns with a whole one, for any number of threads.
THEOREM SyncsExclude == Spec => ExclusiveUntilUnlinked
<1>1. Init => OneLockFile
  BY DEF Init, OneLockFile, LocksInv, Owns, Critical, Procs
<1>2. TypeOK /\ OneLockFile /\ NobodyUnlinks' /\ [Next]_vars => OneLockFile'
  BY OneLockFileStep
<1>3. TypeOK /\ OneLockFile => Exclusion
  <2> SUFFICES ASSUME TypeOK, OneLockFile, NEW p \in Procs, NEW q \in Procs,
                      Critical(p), Critical(q)
               PROVE  p = q
    BY DEF Exclusion
  <2>1. holder[proc[p].fd] = p /\ holder[proc[q].fd] = q
    BY DEF OneLockFile, LocksInv, Owns
  <2>2. proc[p].fd \in Inodes /\ proc[q].fd \in Inodes
    BY DEF OneLockFile, LocksInv, Owns
  <2>3. proc[p].fd = lockFile /\ proc[q].fd = lockFile
    BY <2>2, MirrorAssumption DEF OneLockFile
  <2> QED BY <2>1, <2>3
<1>4. OneLockFile => SyncedMirrorIsWhole
  BY DEF OneLockFile, SyncedMirrorIsWhole
<1> QED BY <1>1, <1>2, <1>3, <1>4, MirrorTyped, PTL DEF Spec, ExclusiveUntilUnlinked
=============================================================================
