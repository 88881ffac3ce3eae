----------------------------- MODULE Processes -----------------------------
(***************************************************************************)
(* The kernel's table of processes, as the stand-alone saned and the lock  *)
(* files of sanei_access.c see it: fork, exit, waitpid and kill (pid, 0).  *)
(* A process that has exited keeps its entry until its parent has waited   *)
(* for it; only then may its number be given to a new process.             *)
(***************************************************************************)
CONSTANT Pid   \* the numbers a connection's process may get

VARIABLE proc  \* what the kernel keeps under each number

ProcTypeOK == proc \in [Pid -> {"free", "run", "zombie"}]
ProcInit == proc = [p \in Pid |-> "free"]

Forked(p) == proc[p] = "free" /\ proc' = [proc EXCEPT ![p] = "run"]
Exited(p) == proc[p] = "run" /\ proc' = [proc EXCEPT ![p] = "zombie"]
Reaped(p) == proc[p] = "zombie" /\ proc' = [proc EXCEPT ![p] = "free"]

ProcNext == \E p \in Pid : Forked(p) \/ Exited(p) \/ Reaped(p)

\* What the lock files count on: a process that has ended is waited for in the
\* end, and nothing else frees its number.  The stand-alone saned implements this
\* (SanedChildren), with init's help once the parent is gone.
ProcSpec == ProcInit /\ [][ProcNext]_proc /\ \A p \in Pid : WF_proc(Reaped(p))

\* kill (p, 0) does not fail with ESRCH: the entry of a zombie is enough.
Exists(p) == proc[p] # "free"
=============================================================================
