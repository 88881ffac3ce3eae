----------------------------- MODULE AccessLock -----------------------------
(***************************************************************************)
(* sanei/sanei_access.c: the lock file of one device.  sanei_access_lock   *)
(* creates the file with O_EXCL and writes its process number into it in a *)
(* second step; one who finds the file reads the number, asks the kernel   *)
(* for the process and removes the file when there is none, each a step of *)
(* its own that other processes can come between.                          *)
(***************************************************************************)
EXTENDS Processes, Naturals

CONSTANTS
  NoFile,      \* no lock file
  Unwritten,   \* a lock file without a number in it yet
  Absent,      \* a number no process has
  Foreign,     \* the number of a process that is none of saned's
  MaxTries     \* the longest timeout a caller asks for

ASSUME LockConstants ==
  /\ NoFile \notin [by : Pid, pid : Pid \cup {Unwritten}]
  /\ {Unwritten, Absent, Foreign} \cap Pid = {}
  /\ MaxTries \in Nat \ {0}

VARIABLES
  lock,    \* NoFile or the file: its creator and the number written to it
  at,      \* where each process is
  left,    \* the tries its sanei_access_lock has left
  saw,     \* the number it has read from the file
  spoilt   \* history: the protocol has been undercut (see Exclusive)

lockVars == <<lock, at, left, saw, spoilt>>

LockPlaces == {"try", "look", "judge", "break", "wait", "write", "good", "denied"}
Places == LockPlaces \cup {"none", "new", "idle", "probe", "scan"}

LockTypeOK ==
  /\ lock \in {NoFile} \cup [by : Pid, pid : Pid \cup {Unwritten}]
  /\ at \in [Pid -> Places]
  /\ left \in [Pid -> 0 .. MaxTries]
  /\ saw \in [Pid -> Pid \cup {Absent, Foreign}]
  /\ spoilt \in BOOLEAN

LockInit ==
  /\ lock = NoFile
  /\ at = [p \in Pid |-> "none"]
  /\ left = [p \in Pid |-> 0]
  /\ saw = [p \in Pid |-> Absent]
  /\ spoilt = FALSE

Goto(p, place) == at' = [at EXCEPT ![p] = place]

\* The call: a timeout of nothing still allows one try.
LockCall(p, timeout) ==
  /\ Goto(p, "try")
  /\ left' = [left EXCEPT ![p] = IF timeout <= 0 THEN 1 ELSE timeout]
  /\ UNCHANGED <<lock, saw, spoilt>>

\* open with O_CREAT and O_EXCL makes the file.
TryCreates(p) ==
  /\ at[p] = "try" /\ lock = NoFile
  /\ lock' = [by |-> p, pid |-> Unwritten]
  /\ Goto(p, "write")
  /\ UNCHANGED <<left, saw, spoilt>>

\* open fails, and not because the file is there.
TryFails(p) ==
  /\ at[p] = "try" /\ lock = NoFile
  /\ Goto(p, "denied")
  /\ UNCHANGED <<lock, left, saw, spoilt>>

TryExists(p) ==
  /\ at[p] = "try" /\ lock # NoFile
  /\ Goto(p, "look")
  /\ UNCHANGED <<lock, left, saw, spoilt>>

\* The number goes into the file this process made, which may be unlinked by now.
WritePid(p) ==
  /\ at[p] = "write"
  /\ lock' = IF lock # NoFile /\ lock = [by |-> p, pid |-> Unwritten]
               THEN [lock EXCEPT !.pid = p] ELSE lock
  /\ Goto(p, "good")
  /\ UNCHANGED <<left, saw, spoilt>>

\* get_lock_status cannot open the file any more: the same as a live owner.
LookGone(p) ==
  /\ at[p] = "look" /\ lock = NoFile
  /\ Goto(p, "wait")
  /\ UNCHANGED <<lock, left, saw, spoilt>>

LookReads(p) ==
  /\ at[p] = "look" /\ lock # NoFile /\ lock.pid # Unwritten
  /\ saw' = [saw EXCEPT ![p] = lock.pid]
  /\ Goto(p, "judge")
  /\ UNCHANGED <<lock, left, spoilt>>

\* read returns 0 and pid_buf keeps what was on the stack, any number at all.
LookTorn(p) ==
  /\ at[p] = "look" /\ lock # NoFile /\ lock.pid = Unwritten
  /\ \E n \in Pid \cup {Absent, Foreign} : saw' = [saw EXCEPT ![p] = n]
  /\ Goto(p, "judge")
  /\ spoilt' = TRUE
  /\ UNCHANGED <<lock, left>>

IsDead(n) == n = Absent \/ (n \in Pid /\ ~Exists(n))

\* Mutant: ESRCH is not told from other errors.
VerdictWaits(p) == IF saw[p] = p THEN "good" ELSE "wait"

\* kill (pid, 0): PROCESS_DEAD, PROCESS_SELF or PROCESS_OTHER.
Verdict(p) == CASE IsDead(saw[p]) -> "break"
                [] ~IsDead(saw[p]) /\ saw[p] = p -> "good"
                [] OTHER -> "wait"

Judge(p) ==
  /\ at[p] = "judge"
  /\ Goto(p, Verdict(p))
  /\ saw' = [saw EXCEPT ![p] = Absent]
  /\ UNCHANGED <<lock, left, spoilt>>

\* Mutant: one turn too many.
TurnOverLong(p) ==
  /\ left' = [left EXCEPT ![p] = @ - 1]
  /\ Goto(p, IF left[p] >= 0 THEN "try" ELSE "denied")

\* One turn of the loop is used up.
TurnOver(p) ==
  /\ left' = [left EXCEPT ![p] = @ - 1]
  /\ Goto(p, IF left[p] > 1 THEN "try" ELSE "denied")

\* unlink and continue, whatever file has the name by now.
Break(p) ==
  /\ at[p] = "break"
  /\ spoilt' = (spoilt \/ (lock # NoFile /\ Exists(lock.by)))
  /\ lock' = NoFile
  /\ TurnOver(p)
  /\ UNCHANGED saw

\* sleep (1)
Wait(p) ==
  /\ at[p] = "wait"
  /\ TurnOver(p)
  /\ UNCHANGED <<lock, saw, spoilt>>

LockStep(p) ==
  \/ TryCreates(p) \/ TryFails(p) \/ TryExists(p) \/ WritePid(p)
  \/ LookGone(p) \/ LookReads(p) \/ LookTorn(p) \/ Judge(p) \/ Break(p) \/ Wait(p)

\* sanei_access_unlock: the file goes, whoever made it.
Unlock == lock' = NoFile
=============================================================================
