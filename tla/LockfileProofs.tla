--------------------------- MODULE LockfileProofs ---------------------------
(***************************************************************************)
(* Proofs about Lockfile for every value of its constants, the I/O        *)
(* faults included: the type invariant; the inductive invariant IInv,     *)
(* which holds while callers serialize same-path calls; that every step   *)
(* but the exit handler's is a step of LockfileAtomic (an unlock whose     *)
(* removal failed being the atomic UnlockLeaks); and, from these,          *)
(* CallsAtomic, HeldLocksOwned and ExitRemovesOwnOrReleasing.              *)
(***************************************************************************)
EXTENDS Lockfile, TLAPS

USE LockfileAssumptions

(* The steps of the other processes. *)
OtherStep == \E o \in Others, p \in Paths :
               OtherLock(o, p) \/ OtherMkdir(o, p) \/ OtherRelease(o, p)

(* Initially the variables have their types. *)
LEMMA TypeInit == Init => TypeOK
BY DEF Init, TypeOK, Entry, PCs, LockfileAssumptions

(* Every step keeps the variables in their types. *)
LEMMA TypeNext == TypeOK /\ [Next]_vars => TypeOK'
<1> SUFFICES ASSUME TypeOK, [Next]_vars PROVE TypeOK'
  OBVIOUS
<1>1. ASSUME NEW c \in Clients, NEW p \in Paths, NEW u \in Uids, LockCall(c, p, u)
      PROVE  TypeOK'
  BY <1>1 DEF LockCall, TypeOK, PCs, LockPCs
<1>2. ASSUME NEW c \in Clients, NEW p \in Paths, UnlockCall(c, p)
      PROVE  TypeOK'
  BY <1>2 DEF UnlockCall, TypeOK, PCs, UnlockPCs
<1>3. ASSUME NEW c \in Clients, Step(c) PROVE TypeOK'
  BY <1>3 DEF Step, Chmod, Exec, ExecOk, ExecErr, ExecCreates, ExecExists, ExecFails,
              ExecCreatesFails, Record,
              Unlink, Rmdir, Forget, TypeOK, PCs, LockPCs, UnlockPCs, Entry,
              Absent, FileOf, Procs
<1>4. CASE Exit
  <2>1. downs' \in 0..MaxDowns
    BY <1>4 DEF Exit, TypeOK, LockfileAssumptions
  <2>2. pc' \in [Clients -> PCs]
    BY <1>4 DEF Exit, PCs
  <2>3. QED
    BY <1>4, <2>1, <2>2 DEF Exit, TypeOK
<1>5. CASE Kill
  <2>1. downs' \in 0..MaxDowns
    BY <1>5 DEF Kill, TypeOK, LockfileAssumptions
  <2>2. pc' \in [Clients -> PCs]
    BY <1>5 DEF Kill, PCs
  <2>3. QED
    BY <1>5, <2>1, <2>2 DEF Kill, TypeOK
<1>6. CASE Restart
  BY <1>6 DEF Restart, TypeOK
<1>7. CASE OtherStep
  BY <1>7 DEF OtherStep, OtherLock, OtherMkdir, OtherRelease, TypeOK, Entry,
              Absent, FileOf, DirOf, Procs
<1>8. CASE UNCHANGED vars
  BY <1>8 DEF vars, TypeOK
<1>9. QED
  BY <1>1, <1>2, <1>3, <1>4, <1>5, <1>6, <1>7, <1>8 DEF Next, OtherStep

(* The type invariant is an invariant of the specification. *)
THEOREM TypeCorrect == Spec => []TypeOK
BY TypeInit, TypeNext, PTL DEF Spec

-----------------------------------------------------------------------------
(* Mutual exclusion of the lock file, as the supervisor sees it.           *)

(* A call whose lock file was created waits only to record it: the file is *)
(* still this process's when Record runs.                                  *)
RecordOwned ==
  \A c \in Clients : pc[c] = "record" => disk[target[c]] = FileOf(Sup)

(* Callers serialize same-path calls: two calls in flight have two paths.  *)
CallsExclusive ==
  \A c, d \in Clients :
     c # d /\ pc[c] # "idle" /\ pc[d] # "idle" => target[c] # target[d]

(* The inductive invariant behind HeldLocksOwned and CallsAtomic. *)
IInv == TypeOK /\ TakenLocksOwned /\ RecordOwned /\ CallsExclusive

LEMMA InitIInv == Init => IInv
<1> SUFFICES ASSUME Init PROVE IInv
  OBVIOUS
<1>1. TypeOK
  BY TypeInit
<1>2. TakenLocksOwned /\ RecordOwned /\ CallsExclusive
  BY DEF Init, TakenLocksOwned, RecordOwned, CallsExclusive
<1>3. QED
  BY <1>1, <1>2 DEF IInv

(* Every step keeps the invariant, while callers serialize same-path calls. *)
LEMMA NextIInv ==
  ASSUME CallerSerializes
  PROVE  IInv /\ [Next]_vars => IInv'
<1> SUFFICES ASSUME IInv, [Next]_vars PROVE IInv'
  OBVIOUS
<1> USE DEF IInv
<1>0. TypeOK'
  BY TypeNext
<1>1. ASSUME NEW c \in Clients, NEW p \in Paths, NEW u \in Uids, LockCall(c, p, u)
      PROVE  IInv'
  <2>1. ~Busy(p)
    BY <1>1 DEF LockCall, MayCall
  <2>2. TakenLocksOwned'
    BY <1>1 DEF LockCall, TakenLocksOwned, Releasing, TypeOK, UnlockPCs
  <2>3. RecordOwned'
    BY <1>1 DEF LockCall, RecordOwned, TypeOK
  <2>4. CallsExclusive'
    BY <1>1, <2>1 DEF LockCall, CallsExclusive, Busy, TypeOK
  <2>5. QED
    BY <1>0, <2>2, <2>3, <2>4
<1>2. ASSUME NEW c \in Clients, NEW p \in Paths, UnlockCall(c, p)
      PROVE  IInv'
  <2>1. ~Busy(p)
    BY <1>2 DEF UnlockCall, MayCall
  <2>2. TakenLocksOwned'
    BY <1>2 DEF UnlockCall, TakenLocksOwned, Releasing, TypeOK, UnlockPCs
  <2>3. RecordOwned'
    BY <1>2 DEF UnlockCall, RecordOwned, TypeOK
  <2>4. CallsExclusive'
    BY <1>2, <2>1 DEF UnlockCall, CallsExclusive, Busy, TypeOK
  <2>5. QED
    BY <1>0, <2>2, <2>3, <2>4
<1>3. ASSUME NEW c \in Clients, Chmod(c) PROVE IInv'
  BY <1>0, <1>3 DEF Chmod, TakenLocksOwned, RecordOwned, CallsExclusive, Releasing, TypeOK, UnlockPCs
<1>4. ASSUME NEW c \in Clients, Exec(c) PROVE IInv'
  <2>1. TakenLocksOwned'
    BY <1>4 DEF Exec, ExecOk, ExecErr, ExecCreates, ExecExists, ExecFails,
                ExecCreatesFails,
                TakenLocksOwned, Releasing, TypeOK, UnlockPCs, Absent, FileOf
  <2>2. RecordOwned'
    BY <1>4 DEF Exec, ExecOk, ExecErr, ExecCreates, ExecExists, ExecFails,
                ExecCreatesFails,
                RecordOwned, CallsExclusive, TypeOK
  <2>3. CallsExclusive'
    BY <1>4 DEF Exec, ExecOk, ExecErr, ExecCreates, ExecExists, ExecFails,
                ExecCreatesFails,
                CallsExclusive, TypeOK
  <2>5. QED
    BY <1>0, <2>1, <2>2, <2>3
<1>5. ASSUME NEW c \in Clients, Record(c) PROVE IInv'
  <2>1. TakenLocksOwned'
    BY <1>5 DEF Record, TakenLocksOwned, RecordOwned, Releasing, TypeOK,
                UnlockPCs
  <2>2. RecordOwned' /\ CallsExclusive'
    BY <1>5 DEF Record, RecordOwned, CallsExclusive, TypeOK
  <2>3. QED
    BY <1>0, <2>1, <2>2
<1>6. ASSUME NEW c \in Clients, Unlink(c) PROVE IInv'
  <2>1. TakenLocksOwned'
    BY <1>6 DEF Unlink, TakenLocksOwned, Releasing, TypeOK, UnlockPCs
  <2>2. RecordOwned'
    BY <1>6 DEF Unlink, RecordOwned, CallsExclusive, TypeOK
  <2>3. CallsExclusive'
    BY <1>6 DEF Unlink, CallsExclusive, TypeOK
  <2>5. QED
    BY <1>0, <2>1, <2>2, <2>3
<1>7. ASSUME NEW c \in Clients, Rmdir(c) PROVE IInv'
  <2>1. TakenLocksOwned'
    BY <1>7 DEF Rmdir, TakenLocksOwned, Releasing, TypeOK, UnlockPCs, FileOf
  <2>2. RecordOwned'
    BY <1>7 DEF Rmdir, RecordOwned, CallsExclusive, TypeOK
  <2>3. CallsExclusive'
    BY <1>7 DEF Rmdir, CallsExclusive, TypeOK
  <2>5. QED
    BY <1>0, <2>1, <2>2, <2>3
<1>8. ASSUME NEW c \in Clients, Forget(c) PROVE IInv'
  <2>1. TakenLocksOwned'
    BY <1>8 DEF Forget, TakenLocksOwned, Releasing, TypeOK, UnlockPCs
  <2>2. RecordOwned' /\ CallsExclusive'
    BY <1>8 DEF Forget, RecordOwned, CallsExclusive, TypeOK
  <2>3. QED
    BY <1>0, <2>1, <2>2
<1>9. CASE Exit \/ Kill
  BY <1>0, <1>9 DEF Exit, Kill, TakenLocksOwned, RecordOwned, CallsExclusive
<1>10. CASE Restart
  BY <1>0, <1>10 DEF Restart, TakenLocksOwned, RecordOwned, CallsExclusive,
                     Releasing
<1>11. CASE OtherStep
  BY <1>0, <1>11 DEF OtherStep, OtherLock, OtherMkdir, OtherRelease,
                     TakenLocksOwned, RecordOwned, CallsExclusive,
                     Releasing, TypeOK, Absent, FileOf, DirOf,
                     LockfileAssumptions
<1>12. CASE UNCHANGED vars
  BY <1>12 DEF vars, TakenLocksOwned, RecordOwned, CallsExclusive,
               Releasing, TypeOK
<1>13. QED
  BY <1>1, <1>2, <1>3, <1>4, <1>5, <1>6, <1>7, <1>8, <1>9, <1>10, <1>11,
     <1>12 DEF Next, Step, OtherStep

-----------------------------------------------------------------------------
(* The calls are atomic: Lockfile implements LockfileAtomic under the      *)
(* mapping takenBar, while callers serialize and the process never exits.  *)

(* A step keeps which calls wait to record and to forget, and their paths. *)
PendingKept ==
  \A d \in Clients :
     /\ (pc'[d] = "record") <=> (pc[d] = "record")
     /\ (pc'[d] = "forget") <=> (pc[d] = "forget")
     /\ pc[d] \in {"record", "forget"} => target'[d] = target[d]

(* A step that changes neither the disk nor the table nor the pending      *)
(* record and forget steps is a stutter of the atomic specification.       *)
LEMMA StutterRefines ==
  ASSUME UNCHANGED <<disk, locksTaken, up>>, PendingKept
  PROVE  UNCHANGED Atomic!avars
<1>1. Pending("record")' = Pending("record")
  BY DEF PendingKept, Pending
<1>2. Pending("forget")' = Pending("forget")
  BY DEF PendingKept, Pending
<1>3. QED
  BY <1>1, <1>2 DEF Atomic!avars, takenBar

(* What is at a path, in the two modules' terms. *)
LEMMA SameEntries ==
  /\ Atomic!Absent = Absent
  /\ \A o : Atomic!FileOf(o) = FileOf(o) /\ Atomic!DirOf(o) = DirOf(o)
BY DEF Atomic!Absent, Absent, Atomic!FileOf, FileOf, Atomic!DirOf, DirOf

(* A step of an unlock() that drops t from the view and either removes    *)
(* what is at t or leaves it is an atomic unlock: a releasing one, or a    *)
(* leaking one when it left this process's lock file at t.                 *)
LEMMA RemovalRefines ==
  ASSUME TypeOK, NEW t \in Paths, up, up' = up,
         takenBar' = takenBar \ {t},
         disk' = [disk EXCEPT ![t] = Absent] \/ disk' = disk
  PROVE  Atomic!Unlock(t) \/ Atomic!UnlockLeaks(t)
<1>1. CASE disk'[t] = FileOf(Sup)
  <2>1. disk' = disk
    BY <1>1 DEF TypeOK, Absent, FileOf
  <2>2. Atomic!UnlockLeaks(t)
    BY <1>1, <2>1, SameEntries DEF Atomic!UnlockLeaks
  <2>3. QED
    BY <2>2
<1>2. CASE disk'[t] # FileOf(Sup)
  <2>1. CASE disk' = [disk EXCEPT ![t] = Absent]
    <3>1. Absent \in {disk[t], Absent} \ {FileOf(Sup)}
      BY DEF Absent, FileOf
    <3>2. QED
      BY <2>1, <3>1, SameEntries DEF Atomic!Unlock
  <2>2. CASE disk' = disk
    <3>1. disk = [disk EXCEPT ![t] = disk[t]]
      BY DEF TypeOK
    <3>2. disk[t] \in {disk[t], Absent} \ {FileOf(Sup)}
      BY <1>2, <2>2
    <3>3. QED
      BY <2>2, <3>1, <3>2, SameEntries DEF Atomic!Unlock
  <2>3. QED
    BY <1>2, <2>1, <2>2
<1>3. QED
  BY <1>1, <1>2

(* Every step of Lockfile but the exit handler's is a step of             *)
(* LockfileAtomic or a stutter; a kill is the atomic Kill.                 *)
LEMMA StepRefines ==
  ASSUME CallerSerializes
  PROVE  IInv /\ [Next]_vars /\ ~Exit => [Atomic!Next]_Atomic!avars
<1> SUFFICES ASSUME IInv, [Next]_vars, ~Exit PROVE [Atomic!Next]_Atomic!avars
  OBVIOUS
<1> USE DEF IInv
<1> DEFINE R == Pending("record")
           F == Pending("forget")
<1>1. ASSUME NEW c \in Clients, NEW p \in Paths, NEW u \in Uids, LockCall(c, p, u)
      PROVE  UNCHANGED Atomic!avars
  <2>1. PendingKept
    BY <1>1 DEF LockCall, PendingKept, TypeOK
  <2>2. QED
    BY <1>1, <2>1, StutterRefines DEF LockCall
<1>2. ASSUME NEW c \in Clients, NEW p \in Paths, UnlockCall(c, p)
      PROVE  UNCHANGED Atomic!avars
  <2>1. PendingKept
    BY <1>2 DEF UnlockCall, PendingKept, TypeOK
  <2>2. QED
    BY <1>2, <2>1, StutterRefines DEF UnlockCall
<1>3. ASSUME NEW c \in Clients, Chmod(c) PROVE UNCHANGED Atomic!avars
  <2>1. PendingKept
    BY <1>3 DEF Chmod, PendingKept, TypeOK
  <2>2. QED
    BY <1>3, <2>1, StutterRefines DEF Chmod
<1>4. ASSUME NEW c \in Clients, Exec(c) PROVE [Atomic!Next]_Atomic!avars
  <2> DEFINE t == target[c]
  <2>0. /\ t \in Paths /\ pc[c] = "exec" /\ up
        /\ UNCHANGED <<locksTaken, target, uid, up, downs>>
        /\ ExecCreates(c) \/ ExecExists(c) \/ ExecFails(c) \/ ExecCreatesFails(c)
    BY <1>4 DEF Exec, ExecOk, ExecErr, TypeOK
  <2>1. CASE ExecCreates(c)
    <3>1. R' = R \cup {t}
      BY <2>0, <2>1 DEF ExecCreates, Pending, TypeOK
    <3>2. F' = F /\ t \notin F
      BY <2>0, <2>1 DEF ExecCreates, Pending, CallsExclusive, TypeOK
    <3>3. takenBar' = takenBar \cup {t}
      BY <2>0, <3>1, <3>2 DEF takenBar
    <3>4. Atomic!Lock(t)
      BY <2>1, <2>0, <3>3, SameEntries DEF ExecCreates, Atomic!Lock
    <3>5. QED
      BY <2>0, <3>4 DEF Atomic!Next
  <2>2. CASE ExecCreatesFails(c)
    <3>1. PendingKept
      BY <2>0, <2>2 DEF ExecCreatesFails, PendingKept, TypeOK
    <3>2. R' = R /\ F' = F
      BY <3>1 DEF PendingKept, Pending
    <3>3. takenBar' = takenBar
      BY <2>0, <3>2 DEF takenBar
    <3>4. Atomic!LockLeaks(t)
      BY <2>2, <2>0, <3>3, SameEntries DEF ExecCreatesFails, Atomic!LockLeaks
    <3>5. QED
      BY <2>0, <3>4 DEF Atomic!Next
  <2>3. CASE ExecExists(c) \/ ExecFails(c)
    <3>1. PendingKept
      BY <2>0, <2>3 DEF ExecExists, ExecFails, PendingKept, TypeOK
    <3>2. QED
      BY <2>0, <2>3, <3>1, StutterRefines DEF ExecExists, ExecFails
  <2>4. QED
    BY <2>0, <2>1, <2>2, <2>3
<1>5. ASSUME NEW c \in Clients, Record(c) PROVE UNCHANGED Atomic!avars
  <2> DEFINE t == target[c]
  <2>1. R' = R \ {t} /\ t \in R
    BY <1>5 DEF Record, Pending, CallsExclusive, TypeOK
  <2>2. F' = F /\ t \notin F
    BY <1>5 DEF Record, Pending, CallsExclusive, TypeOK
  <2>3. takenBar' = takenBar
    BY <1>5, <2>1, <2>2 DEF Record, takenBar
  <2>4. QED
    BY <1>5, <2>3 DEF Record, Atomic!avars
<1>6. ASSUME NEW c \in Clients, Unlink(c) PROVE [Atomic!Next]_Atomic!avars
  <2> DEFINE t == target[c]
  <2>0. t \in Paths /\ pc[c] = "unlink" /\ up
    BY <1>6 DEF Unlink, TypeOK
  <2>1. CASE pc'[c] = "forget"
    <3>1. F' = F \cup {t} /\ R' = R /\ t \notin R
      BY <1>6, <2>0, <2>1 DEF Unlink, Pending, CallsExclusive, TypeOK
    <3>2. takenBar' = takenBar \ {t}
      BY <1>6, <3>1 DEF Unlink, takenBar
    <3>3. disk' = [disk EXCEPT ![t] = Absent] \/ disk' = disk
      BY <1>6, <2>1, <2>0 DEF Unlink, TypeOK
    <3>4. Atomic!Unlock(t) \/ Atomic!UnlockLeaks(t)
      BY <1>6, <2>0, <3>2, <3>3, RemovalRefines DEF Unlink
    <3>5. QED
      BY <2>0, <3>4 DEF Atomic!Next
  <2>2. CASE pc'[c] # "forget"
    <3>1. pc' = [pc EXCEPT ![c] = "rmdir"] /\ UNCHANGED disk
      BY <1>6, <2>2 DEF Unlink, TypeOK
    <3>2. PendingKept
      BY <1>6, <3>1, <2>0 DEF Unlink, PendingKept, TypeOK
    <3>3. QED
      BY <1>6, <3>1, <3>2, StutterRefines DEF Unlink
  <2>3. QED
    BY <2>1, <2>2
<1>7. ASSUME NEW c \in Clients, Rmdir(c) PROVE [Atomic!Next]_Atomic!avars
  <2> DEFINE t == target[c]
  <2>0. t \in Paths /\ pc[c] = "rmdir" /\ up
    BY <1>7 DEF Rmdir, TypeOK
  <2>1. F' = F \cup {t} /\ R' = R /\ t \notin R
    BY <1>7, <2>0 DEF Rmdir, Pending, CallsExclusive, TypeOK
  <2>2. takenBar' = takenBar \ {t}
    BY <1>7, <2>1 DEF Rmdir, takenBar
  <2>3. disk' = [disk EXCEPT ![t] = Absent] \/ disk' = disk
    BY <1>7 DEF Rmdir
  <2>4. Atomic!Unlock(t) \/ Atomic!UnlockLeaks(t)
    BY <1>7, <2>0, <2>2, <2>3, RemovalRefines DEF Rmdir
  <2>5. QED
    BY <2>0, <2>4 DEF Atomic!Next
<1>8. ASSUME NEW c \in Clients, Forget(c) PROVE UNCHANGED Atomic!avars
  <2> DEFINE t == target[c]
  <2>1. F' = F \ {t} /\ t \in F
    BY <1>8 DEF Forget, Pending, CallsExclusive, TypeOK
  <2>2. R' = R /\ t \notin R
    BY <1>8 DEF Forget, Pending, CallsExclusive, TypeOK
  <2>3. takenBar' = takenBar
    BY <1>8, <2>1, <2>2 DEF Forget, takenBar
  <2>4. QED
    BY <1>8, <2>3 DEF Forget, Atomic!avars
<1>9. CASE Kill
  <2>1. takenBar' = {}
    BY <1>9 DEF Kill, takenBar, Pending
  <2>2. Atomic!Kill
    BY <1>9, <2>1 DEF Kill, Atomic!Kill
  <2>3. QED
    BY <2>2 DEF Atomic!Next
<1>10. CASE Restart
  <2>1. PendingKept
    BY <1>10 DEF Restart, PendingKept
  <2>2. R' = R /\ F' = F
    BY <2>1 DEF PendingKept, Pending
  <2>3. Atomic!Restart
    BY <1>10, <2>2 DEF Restart, Atomic!Restart, takenBar
  <2>4. QED
    BY <2>3 DEF Atomic!Next
<1>11. CASE OtherStep
  <2>1. PendingKept
    BY <1>11 DEF OtherStep, OtherLock, OtherMkdir, OtherRelease, PendingKept
  <2>2. takenBar' = takenBar
    <3>1. R' = R /\ F' = F
      BY <2>1 DEF PendingKept, Pending
    <3>2. QED
      BY <1>11, <3>1 DEF OtherStep, OtherLock, OtherMkdir, OtherRelease, takenBar
  <2>3. Atomic!Other
    BY <1>11, <2>2, SameEntries DEF OtherStep, OtherLock, OtherMkdir,
                                   OtherRelease, Atomic!Other
  <2>4. QED
    BY <2>3 DEF Atomic!Next
<1>12. CASE UNCHANGED vars
  <2>1. PendingKept
    BY <1>12 DEF vars, PendingKept
  <2>2. QED
    BY <1>12, <2>1, StutterRefines DEF vars
<1>13. QED
  BY <1>1, <1>2, <1>3, <1>4, <1>5, <1>6, <1>7, <1>8, <1>9, <1>10, <1>11,
     <1>12 DEF Next, Step, OtherStep

(* While callers never run two calls on one path at once and the process   *)
(* does not exit, every behaviour of lockfile.ts's await-split lock() and  *)
(* unlock() is one of LockfileAtomic, where each call is one atomic step.  *)
THEOREM CallsAtomicThm ==
  ASSUME CallerSerializes, MaxDowns = 0
  PROVE  Spec => CallsAtomic
<1>1. Spec => []IInv
  BY InitIInv, NextIInv, PTL DEF Spec
<1>2. Init => Atomic!Init
  BY SameEntries DEF Init, Atomic!Init, takenBar, Pending
<1>3. IInv /\ [Next]_vars => [Atomic!Next]_Atomic!avars
  <2>1. IInv => ~Exit
    BY DEF IInv, TypeOK, Exit
  <2>2. QED
    BY <2>1, StepRefines
<1>4. QED
  BY <1>1, <1>2, <1>3, PTL DEF Spec, CallsAtomic, Atomic!Spec

-----------------------------------------------------------------------------
(* What the exit handler removes.                                          *)

(* A step that ends the process changes only paths in locksTaken, and only *)
(* by the exit handler's unlockSync.                                       *)
LEMMA ExitStep ==
  IInv /\ [Next]_vars =>
    [(up /\ ~up') =>
       \A p \in Paths :
          disk'[p] # disk[p] => disk[p] = FileOf(Sup) \/ Releasing(p)]_vars
<1> SUFFICES ASSUME IInv, [Next]_vars, up, ~up',
                    NEW p \in Paths, disk'[p] # disk[p]
             PROVE  disk[p] = FileOf(Sup) \/ Releasing(p)
  OBVIOUS
<1>1. CASE Exit
  <2>2. p \in locksTaken
    BY <1>1 DEF Exit
  <2>3. QED
    BY <2>2 DEF IInv, TakenLocksOwned
<1>2. CASE Kill
  BY <1>2 DEF Kill
<1>3. ASSUME NEW c \in Clients, NEW q \in Paths, NEW u \in Uids,
             LockCall(c, q, u) \/ UnlockCall(c, q) \/ Step(c)
      PROVE  FALSE
  BY <1>3 DEF LockCall, UnlockCall, Step, Chmod, Exec, ExecOk, ExecErr, Record,
              Unlink, Rmdir, Forget
<1>4. CASE Restart \/ OtherStep \/ UNCHANGED vars
  BY <1>4 DEF Restart, OtherStep, OtherLock, OtherMkdir, OtherRelease, vars
<1>5. QED
  BY <1>1, <1>2, <1>3, <1>4, LockfileAssumptions DEF Next, OtherStep

(* While callers serialize same-path calls, the exit handler of            *)
(* lockfile.ts (lines 22-31) removes a file or directory of another        *)
(* process only at a path an unlock() of which is suspended in its await:  *)
(* the exit_during_unlock finding is the only way it harms another lock.   *)
THEOREM ExitRemovesOwnOrReleasingThm ==
  ASSUME CallerSerializes
  PROVE  Spec => ExitRemovesOwnOrReleasing
<1>1. Spec => []IInv
  BY InitIInv, NextIInv, PTL DEF Spec
<1>2. QED
  BY <1>1, ExitStep, PTL DEF Spec, ExitRemovesOwnOrReleasing

-----------------------------------------------------------------------------
(* The process's view of its locks, proved through the refinement.         *)

(* The mapped variables have the shapes LockfileAtomic's lemmas need. *)
LEMMA MappedShapes == TypeOK => Atomic!Shapes
BY DEF TypeOK, Atomic!Shapes, takenBar, Pending

(* While callers serialize same-path calls, for every bound on deaths:     *)
(* every path in locksTaken or waiting to be recorded holds this process's *)
(* lock file, unless its unlock() already removed it and only the delete   *)
(* of the table entry is pending (lockfile.ts lines 79-81 and 111-123).    *)
(* Exit empties the view; every other step is a step of LockfileAtomic,   *)
(* which keeps TakenOwned.                                                 *)
THEOREM HeldLocksOwnedThm ==
  ASSUME CallerSerializes
  PROVE  Spec => []HeldLocksOwned
<1>1. Init => HeldLocksOwned
  BY DEF Init, HeldLocksOwned, Atomic!TakenOwned, takenBar, Pending
<1>2. IInv /\ HeldLocksOwned /\ [Next]_vars => HeldLocksOwned'
  <2> SUFFICES ASSUME IInv, HeldLocksOwned, [Next]_vars PROVE HeldLocksOwned'
    OBVIOUS
  <2>1. CASE Exit
    <3>1. takenBar' = {}
      BY <2>1 DEF Exit, takenBar, Pending
    <3>2. QED
      BY <3>1 DEF HeldLocksOwned, Atomic!TakenOwned
  <2>2. CASE ~Exit
    <3>1. [Atomic!Next]_Atomic!avars
      BY <2>2, StepRefines
    <3>2. Atomic!Shapes
      BY MappedShapes DEF IInv
    <3>3. QED
      BY <3>1, <3>2, Atomic!TakenOwnedStep, LockfileAssumptions
      DEF HeldLocksOwned
  <2>3. QED
    BY <2>1, <2>2
<1>3. QED
  BY InitIInv, NextIInv, <1>1, <1>2, PTL DEF Spec

=============================================================================
