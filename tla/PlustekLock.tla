---------------------------- MODULE PlustekLock ----------------------------
(***************************************************************************)
(* The plustek backend's use of the lock file, in every process that has   *)
(* the device open: attach takes the lock, gives it back and goes on       *)
(* probing, sane_start keeps it until drvclose, the scanner's buttons are  *)
(* read under it.  One handle for each process.                            *)
(***************************************************************************)
EXTENDS AccessLock

CONSTANTS
  OpenTries,     \* the timeout of usbDev_open: 5 in the code
  ButtonTries    \* the timeout of usb_UpdateButtonStatus: 3 in the code

ASSUME TriesInRange == OpenTries \in 1 .. MaxTries /\ ButtonTries \in 1 .. MaxTries

VARIABLE call  \* what the process wants the lock for

vars == <<proc, lockVars, call>>

Begin(p, name, tries) ==
  /\ call' = [call EXCEPT ![p] = name]
  /\ LockCall(p, tries)

Back(p, place) ==
  /\ Goto(p, place)
  /\ call' = [call EXCEPT ![p] = "none"]
  /\ left' = [left EXCEPT ![p] = 0]
  /\ saw' = [saw EXCEPT ![p] = Absent]

\* attach, from sane_init, sane_get_devices or sane_open
AttachBegins(p) == at[p] = "new" /\ Begin(p, "attach", OpenTries)

\* sane_start: scanning is not set
StartBegins(p) == at[p] = "idle" /\ Begin(p, "start", OpenTries)

\* the button options are read while nothing is scanned or calibrated
ButtonBegins(p) == at[p] = "idle" /\ Begin(p, "button", ButtonTries)

\* Mutant: the common error path unlocks.
DeniedUnlocks(p) ==
  /\ at[p] = "denied"
  /\ Unlock
  /\ Back(p, IF call[p] = "attach" THEN "new" ELSE "idle")
  /\ UNCHANGED spoilt

\* The lock was not to be had: the operation fails and touches nothing.
Denied(p) ==
  /\ at[p] = "denied"
  /\ Back(p, IF call[p] = "attach" THEN "new" ELSE "idle")
  /\ UNCHANGED <<lock, spoilt>>

\* sanei_usb_open fails: the name unlocked is not the name locked.
AttachLeaks(p) ==
  /\ at[p] = "good" /\ call[p] = "attach"
  /\ Back(p, "new")
  /\ UNCHANGED <<lock, spoilt>>

AttachRefused(p) ==
  /\ at[p] = "good" /\ call[p] = "attach"
  /\ Unlock
  /\ Back(p, "new")
  /\ UNCHANGED spoilt

\* keep_lock is FALSE: the device stays open and the lock is given back.
AttachOpens(p) ==
  /\ at[p] = "good" /\ call[p] = "attach"
  /\ Unlock
  /\ Back(p, "probe")
  /\ UNCHANGED spoilt

\* usbDev_getCaps or the resolution list fails: usbDev_close alone.
AttachFails(p) ==
  /\ at[p] = "probe"
  /\ Back(p, "new")
  /\ UNCHANGED <<lock, spoilt>>

\* drvclose: dev->fd is set, so the lock is given back a second time.
AttachCloses(p) ==
  /\ at[p] = "probe"
  /\ spoilt' = (spoilt \/ (lock # NoFile /\ lock.by # p /\ Exists(lock.by)))
  /\ Unlock
  /\ Back(p, "idle")

\* Any failure of usbDev_open or local_sane_start under the lock.
StartRefused(p) ==
  /\ at[p] = "good" /\ call[p] = "start"
  /\ Unlock
  /\ Back(p, "idle")
  /\ UNCHANGED spoilt

\* pipe or sanei_thread_begin fails: usbDev_close alone.
StartLeaks(p) ==
  /\ at[p] = "good" /\ call[p] = "start"
  /\ Back(p, "idle")
  /\ UNCHANGED <<lock, spoilt>>

StartDone(p) ==
  /\ at[p] = "good" /\ call[p] = "start"
  /\ Back(p, "scan")
  /\ UNCHANGED <<lock, spoilt>>

\* The image has been read or the scan cancelled: drvclose.
ScanOver(p) ==
  /\ at[p] = "scan"
  /\ Unlock
  /\ Back(p, "idle")
  /\ UNCHANGED spoilt

\* usb_UpdateButtonStatus past its lock, whether or not the device opens.
ButtonRead(p) ==
  /\ at[p] = "good" /\ call[p] = "button"
  /\ Unlock
  /\ Back(p, "idle")
  /\ UNCHANGED spoilt

CallStep(p) ==
  \/ Denied(p) \/ AttachLeaks(p) \/ AttachRefused(p) \/ AttachOpens(p)
  \/ AttachFails(p) \/ AttachCloses(p) \/ StartRefused(p) \/ StartLeaks(p)
  \/ StartDone(p) \/ ScanOver(p) \/ ButtonRead(p)

CallBegins(p) == AttachBegins(p) \/ StartBegins(p) \/ ButtonBegins(p)

\* quit: sane_exit closes the handle, whose scan ends with drvclose.
Quits(p) ==
  /\ at[p] \in {"new", "idle", "scan"}
  /\ lock' = IF at[p] = "scan" THEN NoFile ELSE lock
  /\ Back(p, "none")
  /\ Exited(p)
  /\ UNCHANGED spoilt

\* The process is killed wherever it is; its lock file stays.
Killed(p) ==
  /\ at[p] # "none"
  /\ Back(p, "none")
  /\ Exited(p)
  /\ UNCHANGED <<lock, spoilt>>

\* saned forks a process for a connection, which has nothing attached yet.
Connects(p) ==
  /\ Forked(p)
  /\ Goto(p, "new")
  /\ UNCHANGED <<lock, left, saw, spoilt, call>>

\* Its parent has waited for the process.
Waited(p) == Reaped(p) /\ UNCHANGED <<lockVars, call>>

Works(p) ==
  /\ \/ LockStep(p) /\ UNCHANGED call
     \/ CallBegins(p) \/ CallStep(p)
  /\ UNCHANGED proc

Init == ProcInit /\ LockInit /\ call = [p \in Pid |-> "none"]

Next == \E p \in Pid : Connects(p) \/ Works(p) \/ Quits(p) \/ Killed(p) \/ Waited(p)

\* Processes that have ended are waited for (ProcSpec); a process inside
\* sanei_access_lock goes on, and its sleep ends.  Nothing says when a client
\* makes its next call or lets a scan end.
Fairness ==
  \A p \in Pid :
    /\ WF_vars(Waited(p))
    /\ WF_vars(LockStep(p) /\ UNCHANGED <<call, proc>>)

Spec == Init /\ [][Next]_vars /\ Fairness

------------------------------------------------------------------------------
(* Properties                                                              *)

\* The state is well formed, and the processes at work are the ones that run.
TypeOK ==
  /\ ProcTypeOK /\ LockTypeOK
  /\ call \in [Pid -> {"none", "attach", "start", "button"}]
  /\ \A p \in Pid : at[p] = "none" <=> proc[p] # "run"

\* The processes sanei_access_lock has let in and that have not unlocked.
Inside == {p \in Pid : at[p] \in {"write", "good", "scan"}}

\* sanei_access_lock lets in one process at a time, through deaths, reused
\* process numbers, leaked locks and the removal of dead owners' files, as long as
\* nobody reads a file between its creation and the write of the number, nobody
\* removes the file of a process that lives, having judged an older one dead, and
\* attach's second unlock does not meet another process's lock.
Exclusive == ~spoilt => \A p, q \in Inside : p = q

\* "Unlock a previously set lock" (sanei_access.h): while nothing has undercut the
\* protocol, the backend's calls remove no lock file but one of their own.
UnlocksOwn ==
  [][\A p \in Pid : ~spoilt /\ CallStep(p) /\ lock # NoFile /\ lock' = NoFile
                      => lock.by = p]_vars

Stale == lock # NoFile /\ lock.pid # Unwritten /\ ~Exists(lock.pid)

\* A process that waits for the lock and has another try after this one gets rid
\* of the file of an owner that is dead and waited for: the file goes, or the
\* number comes to life again, or the waiting process is let in or ends.
DeadLockBroken ==
  \A p \in Pid :
    (Stale /\ at[p] \in LockPlaces \ {"write", "good", "denied"} /\ left[p] > 1)
      ~> (~Stale \/ at[p] \in {"good", "none"})
=============================================================================
