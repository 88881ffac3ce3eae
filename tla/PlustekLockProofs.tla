------------------------- MODULE PlustekLockProofs -------------------------
(***************************************************************************)
(* Proofs about the lock file of a device, for every set of process        *)
(* numbers and every timeout.                                              *)
(***************************************************************************)
EXTENDS PlustekLock, TLAPS

\* The loop of sanei_access_lock is entered with a try left.
LoopLeft ==
  \A p \in Pid : at[p] \in {"try", "look", "judge", "break", "wait"} => left[p] >= 1

\* A number in the file is the one of the process that made it.
LockNamed == lock # NoFile => lock.pid \in {Unwritten, lock.by}

\* Owns(p): the file is there and p has made it.
Owns(p) == lock # NoFile /\ lock.by = p

\* Who is inside, or is about to be let in as the owner, owns the file.
Owned ==
  ~spoilt => \A p \in Pid :
               (at[p] \in {"write", "good", "scan"} \/ (at[p] = "judge" /\ saw[p] = p))
                 => Owns(p)

IInv == TypeOK /\ LoopLeft /\ LockNamed /\ Owned

USE LockConstants, TriesInRange

\* At the start no process runs and there is no file.
LEMMA InitHolds == Init => IInv
<1> SUFFICES ASSUME Init PROVE IInv
  OBVIOUS
<1>1. ProcTypeOK
  BY DEF Init, ProcInit, ProcTypeOK
<1>2. LockTypeOK
  <2>1. spoilt \in BOOLEAN
    BY DEF Init, LockInit
  <2>2. left \in [Pid -> 0 .. MaxTries] /\ saw \in [Pid -> Pid \cup {Absent, Foreign}]
    BY DEF Init, LockInit
  <2>3. at \in [Pid -> Places]
    BY DEF Init, LockInit, Places
  <2> QED
    BY <2>1, <2>2, <2>3 DEF Init, LockInit, LockTypeOK
<1>3. TypeOK
  BY <1>1, <1>2 DEF Init, ProcInit, LockInit, TypeOK
<1>4. LoopLeft /\ LockNamed /\ Owned
  BY DEF Init, LockInit, LoopLeft, LockNamed, Owned
<1> QED
  BY <1>3, <1>4 DEF IInv

\* The file is made when there is none, so nobody owned one.
LEMMA TryCreatesKeeps ==
  ASSUME IInv, NEW p \in Pid, TryCreates(p), UNCHANGED call, UNCHANGED proc
  PROVE  IInv'
<1>1. TypeOK'
  BY DEF IInv, TypeOK, ProcTypeOK, LockTypeOK, Places, LockPlaces, LoopLeft, TryCreates, Goto
<1>2. LoopLeft'
  BY DEF IInv, TypeOK, LockTypeOK, LoopLeft, TryCreates, Goto
<1>3. LockNamed'
  BY DEF IInv, TypeOK, LockTypeOK, LockNamed, TryCreates, Goto
<1>4. Owned'
  BY DEF IInv, TypeOK, ProcTypeOK, LockTypeOK, LockNamed, Owned, Owns, TryCreates, Goto
<1> QED
  BY <1>1, <1>2, <1>3, <1>4 DEF IInv

\* A refusal changes nothing but the place.
LEMMA TryFailsKeeps ==
  ASSUME IInv, NEW p \in Pid, TryFails(p), UNCHANGED call, UNCHANGED proc
  PROVE  IInv'
<1>1. TypeOK'
  BY DEF IInv, TypeOK, ProcTypeOK, LockTypeOK, Places, LockPlaces, LoopLeft, TryFails, Goto
<1>2. LoopLeft'
  BY DEF IInv, TypeOK, LockTypeOK, LoopLeft, TryFails, Goto
<1>3. LockNamed'
  BY DEF IInv, TypeOK, LockTypeOK, LockNamed, TryFails, Goto
<1>4. Owned'
  BY DEF IInv, TypeOK, ProcTypeOK, LockTypeOK, LockNamed, Owned, Owns, TryFails, Goto
<1> QED
  BY <1>1, <1>2, <1>3, <1>4 DEF IInv

\* Finding the file changes nothing but the place.
LEMMA TryExistsKeeps ==
  ASSUME IInv, NEW p \in Pid, TryExists(p), UNCHANGED call, UNCHANGED proc
  PROVE  IInv'
<1>1. TypeOK'
  BY DEF IInv, TypeOK, ProcTypeOK, LockTypeOK, Places, LockPlaces, LoopLeft, TryExists, Goto
<1>2. LoopLeft'
  BY DEF IInv, TypeOK, LockTypeOK, LoopLeft, TryExists, Goto
<1>3. LockNamed'
  BY DEF IInv, TypeOK, LockTypeOK, LockNamed, TryExists, Goto
<1>4. Owned'
  BY DEF IInv, TypeOK, ProcTypeOK, LockTypeOK, LockNamed, Owned, Owns, TryExists, Goto
<1> QED
  BY <1>1, <1>2, <1>3, <1>4 DEF IInv

\* The number written is the one of the file's owner.
LEMMA WritePidKeeps ==
  ASSUME IInv, NEW p \in Pid, WritePid(p), UNCHANGED call, UNCHANGED proc
  PROVE  IInv'
<1>1. TypeOK'
  BY DEF IInv, TypeOK, ProcTypeOK, LockTypeOK, Places, LockPlaces, LoopLeft, WritePid, Goto
<1>2. LoopLeft'
  BY DEF IInv, TypeOK, LockTypeOK, LoopLeft, WritePid, Goto
<1>3. LockNamed'
  BY DEF IInv, TypeOK, LockTypeOK, LockNamed, WritePid, Goto
<1>4. Owned'
  BY DEF IInv, TypeOK, ProcTypeOK, LockTypeOK, LockNamed, Owned, Owns, WritePid, Goto
<1> QED
  BY <1>1, <1>2, <1>3, <1>4 DEF IInv

\* A file that is gone is waited for.
LEMMA LookGoneKeeps ==
  ASSUME IInv, NEW p \in Pid, LookGone(p), UNCHANGED call, UNCHANGED proc
  PROVE  IInv'
<1>1. TypeOK'
  BY DEF IInv, TypeOK, ProcTypeOK, LockTypeOK, Places, LockPlaces, LoopLeft, LookGone, Goto
<1>2. LoopLeft'
  BY DEF IInv, TypeOK, LockTypeOK, LoopLeft, LookGone, Goto
<1>3. LockNamed'
  BY DEF IInv, TypeOK, LockTypeOK, LockNamed, LookGone, Goto
<1>4. Owned'
  BY DEF IInv, TypeOK, ProcTypeOK, LockTypeOK, LockNamed, Owned, Owns, LookGone, Goto
<1> QED
  BY <1>1, <1>2, <1>3, <1>4 DEF IInv

\* The number read is the owner's, whom the file names.
LEMMA LookReadsKeeps ==
  ASSUME IInv, NEW p \in Pid, LookReads(p), UNCHANGED call, UNCHANGED proc
  PROVE  IInv'
<1>1. TypeOK'
  BY DEF IInv, TypeOK, ProcTypeOK, LockTypeOK, Places, LockPlaces, LoopLeft, LookReads, Goto
<1>2. LoopLeft'
  BY DEF IInv, TypeOK, LockTypeOK, LoopLeft, LookReads, Goto
<1>3. LockNamed'
  BY DEF IInv, TypeOK, LockTypeOK, LockNamed, LookReads, Goto
<1>4. Owned'
  BY DEF IInv, TypeOK, ProcTypeOK, LockTypeOK, LockNamed, Owned, Owns, LookReads, Goto
<1> QED
  BY <1>1, <1>2, <1>3, <1>4 DEF IInv

\* A torn read spoils the protocol, and nothing is claimed any more.
LEMMA LookTornKeeps ==
  ASSUME IInv, NEW p \in Pid, LookTorn(p), UNCHANGED call, UNCHANGED proc
  PROVE  IInv'
<1>1. TypeOK'
  BY DEF IInv, TypeOK, ProcTypeOK, LockTypeOK, Places, LockPlaces, LoopLeft, LookTorn, Goto
<1>2. LoopLeft'
  BY DEF IInv, TypeOK, LockTypeOK, LoopLeft, LookTorn, Goto
<1>3. LockNamed'
  BY DEF IInv, TypeOK, LockTypeOK, LockNamed, LookTorn, Goto
<1>4. Owned'
  BY DEF IInv, TypeOK, ProcTypeOK, LockTypeOK, LockNamed, Owned, Owns, LookTorn, Goto
<1> QED
  BY <1>1, <1>2, <1>3, <1>4 DEF IInv

\* Whom the kernel knows and whose own number it is owns the file it has read.
LEMMA JudgeKeeps ==
  ASSUME IInv, NEW p \in Pid, Judge(p), UNCHANGED call, UNCHANGED proc
  PROVE  IInv'
<1>1. TypeOK'
  BY DEF IInv, TypeOK, ProcTypeOK, LockTypeOK, Places, LockPlaces, LoopLeft, Judge, Verdict, Goto
<1>2. LoopLeft'
  BY DEF IInv, TypeOK, LockTypeOK, LoopLeft, Judge, Verdict, Goto
<1>3. LockNamed'
  BY DEF IInv, TypeOK, LockTypeOK, LockNamed, Judge, Verdict, Goto
<1>4. Owned'
  BY DEF IInv, TypeOK, ProcTypeOK, LockTypeOK, LockNamed, Owned, Owns, Judge, Verdict, Goto
<1> QED
  BY <1>1, <1>2, <1>3, <1>4 DEF IInv

\* A break that spoils nothing meets no file, or one whose owner is gone.
LEMMA BreakKeeps ==
  ASSUME IInv, NEW p \in Pid, Break(p), UNCHANGED call, UNCHANGED proc
  PROVE  IInv'
<1>1. TypeOK'
  BY DEF IInv, TypeOK, ProcTypeOK, LockTypeOK, Places, LockPlaces, LoopLeft, Break, TurnOver, Goto, Exists
<1>2. LoopLeft'
  BY DEF IInv, TypeOK, LockTypeOK, LoopLeft, Break, TurnOver, Goto, Exists
<1>3. LockNamed'
  BY DEF IInv, TypeOK, LockTypeOK, LockNamed, Break, TurnOver, Goto, Exists
<1>4. Owned'
  BY DEF IInv, TypeOK, ProcTypeOK, LockTypeOK, LockNamed, Owned, Owns, Break, TurnOver, Goto, Exists
<1> QED
  BY <1>1, <1>2, <1>3, <1>4 DEF IInv

\* A sleep uses up a try.
LEMMA WaitKeeps ==
  ASSUME IInv, NEW p \in Pid, Wait(p), UNCHANGED call, UNCHANGED proc
  PROVE  IInv'
<1>1. TypeOK'
  BY DEF IInv, TypeOK, ProcTypeOK, LockTypeOK, Places, LockPlaces, LoopLeft, Wait, TurnOver, Goto
<1>2. LoopLeft'
  BY DEF IInv, TypeOK, LockTypeOK, LoopLeft, Wait, TurnOver, Goto
<1>3. LockNamed'
  BY DEF IInv, TypeOK, LockTypeOK, LockNamed, Wait, TurnOver, Goto
<1>4. Owned'
  BY DEF IInv, TypeOK, ProcTypeOK, LockTypeOK, LockNamed, Owned, Owns, Wait, TurnOver, Goto
<1> QED
  BY <1>1, <1>2, <1>3, <1>4 DEF IInv

\* A call enters the loop with its timeout.
LEMMA BeginKeeps ==
  ASSUME IInv, NEW p \in Pid, CallBegins(p), UNCHANGED proc
  PROVE  IInv'
<1>1. TypeOK'
  BY DEF IInv, TypeOK, ProcTypeOK, LockTypeOK, Places, LockPlaces, LoopLeft, CallBegins, AttachBegins, StartBegins, ButtonBegins, Begin, LockCall, Goto
<1>2. LoopLeft'
  BY DEF IInv, TypeOK, LockTypeOK, LoopLeft, CallBegins, AttachBegins, StartBegins, ButtonBegins, Begin, LockCall, Goto
<1>3. LockNamed'
  BY DEF IInv, TypeOK, LockTypeOK, LockNamed, CallBegins, AttachBegins, StartBegins, ButtonBegins, Begin, LockCall, Goto
<1>4. Owned'
  BY DEF IInv, TypeOK, ProcTypeOK, LockTypeOK, LockNamed, Owned, Owns, CallBegins, AttachBegins, StartBegins, ButtonBegins, Begin, LockCall, Goto
<1> QED
  BY <1>1, <1>2, <1>3, <1>4 DEF IInv

\* These steps leave the lock file alone and the process outside, or inside with its own file.
LEMMA LeaveKeeps ==
  ASSUME IInv, NEW p \in Pid, Denied(p) \/ AttachLeaks(p) \/ AttachFails(p) \/ StartLeaks(p) \/ StartDone(p), UNCHANGED proc
  PROVE  IInv'
<1>1. TypeOK'
  BY DEF IInv, TypeOK, ProcTypeOK, LockTypeOK, Places, LockPlaces, LoopLeft, Denied, AttachLeaks, AttachFails, StartLeaks, StartDone, Back, Goto
<1>2. LoopLeft'
  BY DEF IInv, TypeOK, LockTypeOK, LoopLeft, Denied, AttachLeaks, AttachFails, StartLeaks, StartDone, Back, Goto
<1>3. LockNamed'
  BY DEF IInv, TypeOK, LockTypeOK, LockNamed, Denied, AttachLeaks, AttachFails, StartLeaks, StartDone, Back, Goto
<1>4. Owned'
  BY DEF IInv, TypeOK, ProcTypeOK, LockTypeOK, LockNamed, Owned, Owns, Denied, AttachLeaks, AttachFails, StartLeaks, StartDone, Back, Goto
<1> QED
  BY <1>1, <1>2, <1>3, <1>4 DEF IInv

\* These unlock, from inside: the file was the process's own, so nobody else is inside.
LEMMA UnlockKeeps ==
  ASSUME IInv, NEW p \in Pid, AttachRefused(p) \/ AttachOpens(p) \/ StartRefused(p) \/ ScanOver(p) \/ ButtonRead(p), UNCHANGED proc
  PROVE  IInv'
<1>1. TypeOK'
  BY DEF IInv, TypeOK, ProcTypeOK, LockTypeOK, Places, LockPlaces, LoopLeft, AttachRefused, AttachOpens, StartRefused, ScanOver, ButtonRead, Unlock, Back, Goto
<1>2. LoopLeft'
  BY DEF IInv, TypeOK, LockTypeOK, LoopLeft, AttachRefused, AttachOpens, StartRefused, ScanOver, ButtonRead, Unlock, Back, Goto
<1>3. LockNamed'
  BY DEF IInv, TypeOK, LockTypeOK, LockNamed, AttachRefused, AttachOpens, StartRefused, ScanOver, ButtonRead, Unlock, Back, Goto
<1>4. Owned'
  BY DEF IInv, TypeOK, ProcTypeOK, LockTypeOK, LockNamed, Owned, Owns, AttachRefused, AttachOpens, StartRefused, ScanOver, ButtonRead, Unlock, Back, Goto
<1> QED
  BY <1>1, <1>2, <1>3, <1>4 DEF IInv

\* attach's second unlock, when it spoils nothing, meets no other process's lock.
LEMMA AttachClosesKeeps ==
  ASSUME IInv, NEW p \in Pid, AttachCloses(p), UNCHANGED proc
  PROVE  IInv'
<1>1. TypeOK'
  BY DEF IInv, TypeOK, ProcTypeOK, LockTypeOK, Places, LockPlaces, LoopLeft, AttachCloses, Unlock, Back, Goto, Exists
<1>2. LoopLeft'
  BY DEF IInv, TypeOK, LockTypeOK, LoopLeft, AttachCloses, Unlock, Back, Goto, Exists
<1>3. LockNamed'
  BY DEF IInv, TypeOK, LockTypeOK, LockNamed, AttachCloses, Unlock, Back, Goto, Exists
<1>4. Owned'
  BY DEF IInv, TypeOK, ProcTypeOK, LockTypeOK, LockNamed, Owned, Owns, AttachCloses, Unlock, Back, Goto, Exists
<1> QED
  BY <1>1, <1>2, <1>3, <1>4 DEF IInv

\* The end of a process: only one that scans unlocks.
LEMMA EndKeeps ==
  ASSUME IInv, NEW p \in Pid, Quits(p) \/ Killed(p)
  PROVE  IInv'
<1>1. TypeOK'
  BY DEF IInv, TypeOK, ProcTypeOK, LockTypeOK, Places, LockPlaces, LoopLeft, Quits, Killed, Back, Goto, Exited
<1>2. LoopLeft'
  BY DEF IInv, TypeOK, LockTypeOK, LoopLeft, Quits, Killed, Back, Goto, Exited
<1>3. LockNamed'
  BY DEF IInv, TypeOK, LockTypeOK, LockNamed, Quits, Killed, Back, Goto, Exited
<1>4. Owned'
  BY DEF IInv, TypeOK, ProcTypeOK, LockTypeOK, LockNamed, Owned, Owns, Quits, Killed, Back, Goto, Exited
<1> QED
  BY <1>1, <1>2, <1>3, <1>4 DEF IInv

\* A new process, or one that has been waited for, is outside.
LEMMA ForkWaitKeeps ==
  ASSUME IInv, NEW p \in Pid, Connects(p) \/ Waited(p)
  PROVE  IInv'
<1>1. TypeOK'
  BY DEF IInv, TypeOK, ProcTypeOK, LockTypeOK, Places, LockPlaces, LoopLeft, Connects, Waited, Goto, Forked, Reaped, lockVars
<1>2. LoopLeft'
  BY DEF IInv, TypeOK, LockTypeOK, LoopLeft, Connects, Waited, Goto, Forked, Reaped, lockVars
<1>3. LockNamed'
  BY DEF IInv, TypeOK, LockTypeOK, LockNamed, Connects, Waited, Goto, Forked, Reaped, lockVars
<1>4. Owned'
  BY DEF IInv, TypeOK, ProcTypeOK, LockTypeOK, LockNamed, Owned, Owns, Connects, Waited, Goto, Forked, Reaped, lockVars
<1> QED
  BY <1>1, <1>2, <1>3, <1>4 DEF IInv

\* The inductive invariant is kept by every step.
LEMMA NextKeeps == IInv /\ [Next]_vars => IInv'
<1> SUFFICES ASSUME IInv, [Next]_vars PROVE IInv'
  OBVIOUS
<1>1. ASSUME NEW p \in Pid, Works(p) PROVE IInv'
  BY <1>1, TryCreatesKeeps, TryFailsKeeps, TryExistsKeeps, WritePidKeeps, LookGoneKeeps,
     LookReadsKeeps, LookTornKeeps, JudgeKeeps, BreakKeeps, WaitKeeps, BeginKeeps,
     LeaveKeeps, UnlockKeeps, AttachClosesKeeps
     DEF Works, LockStep, CallStep
<1>2. CASE UNCHANGED vars
  BY <1>2 DEF vars, lockVars, IInv, TypeOK, ProcTypeOK, LockTypeOK, LoopLeft, LockNamed,
              Owned, Owns
<1> QED
  BY <1>1, <1>2, EndKeeps, ForkWaitKeeps DEF Next

\* sanei_access_lock lets in one process at a time as long as the protocol has not
\* been undercut, for any number of processes that start, die, are waited for and
\* get each other's numbers.
THEOREM LockExcludes == Spec => []Exclusive
<1>1. IInv => Exclusive
  BY DEF IInv, Owned, Owns, Exclusive, Inside
<1> QED
  BY InitHolds, NextKeeps, <1>1, PTL DEF Spec

\* The state of the lock and of its users is well formed.
THEOREM LockTypes == Spec => []TypeOK
<1>1. IInv => TypeOK
  BY DEF IInv
<1> QED
  BY InitHolds, NextKeeps, <1>1, PTL DEF Spec
=============================================================================
