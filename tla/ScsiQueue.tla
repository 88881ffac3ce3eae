------------------------------- MODULE ScsiQueue -------------------------------
(***************************************************************************)
(* The queue of SCSI commands of sanei/sanei_scsi.c on Linux: commands are *)
(* entered, handed to the SG driver as far as it takes them, and waited    *)
(* for in the order in which they were entered.                            *)
(*                                                                         *)
(* With SG version 2 a command is written to the driver and its answer is  *)
(* read later; with version 3 the ioctl SG_IO returns when the command has *)
(* been executed.  A step is what lies between two places where a signal   *)
(* may come in (the ATOMIC blocks of the code).                            *)
(***************************************************************************)
EXTENDS Integers, Sequences

CONSTANTS
  Node,       \* addresses of requests; 0 is the null pointer
  QueueDepth, \* bound on the queue depth of the host adapter
  Retries     \* attempts while the driver says EAGAIN, 20 in the code

ASSUME QueueAssumption == /\ Node \subseteq Nat \ {0}
                          /\ QueueDepth \in Nat \ {0} /\ Retries \in Nat \ {0}

VARIABLES
  sg,       \* version of the SG driver: 2 or 3
  queue,    \* the list from sane_qhead to sane_qtail
  free,     \* sane_free_list
  req,      \* the contents of the requests
  max,      \* sg_queue_max, 1 if the adapter does not queue commands
  used,     \* sg_queue_used
  fn,       \* the call in progress
  ret,      \* what the last call returned
  driver,   \* version 2: commands the driver has not answered yet
  answers,  \* version 2: answers that read has not fetched yet
  ran,      \* the commands executed so far, in order
  mishaps   \* what has gone wrong so far

requests == << queue, free, req, used >>
device   == << driver, answers, ran >>
queueVars == << sg, max, requests, fn, ret, device, mishaps >>

NoFn == [op |-> "none", id |-> 0, arg |-> 0, rp |-> 0, tries |-> 0, pc |-> "none",
         st |-> "good", got |-> 0]
NoReq == [cmd |-> 0, running |-> FALSE, done |-> FALSE, status |-> "good"]
NoRet == [op |-> "none", cmd |-> 0, got |-> 0, status |-> "good"]

Init ==
  /\ sg \in {2, 3} /\ max \in 1..QueueDepth
  /\ queue = << >> /\ free = << >>
  /\ req = [n \in Node |-> NoReq]
  /\ used = 0
  /\ fn = NoFn /\ ret = NoRet
  /\ driver = << >> /\ answers = << >> /\ ran = << >>
  /\ mishaps = {}

Idle == fn.op = "none"
Elems(s) == { s[i] : i \in DOMAIN s }
Went(what) == mishaps' = mishaps \cup {what}

-------------------------------------------------------------------------------
(* issue(): hand commands to the driver, starting with the first that does *)
(* not run, until the driver has enough or refuses one.                    *)

FirstWaiting(q, r) ==
  LET idle == { i \in DOMAIN q : ~r[q[i]].running }
  IN IF idle = {} THEN 0 ELSE CHOOSE i \in idle : \A j \in idle : i <= j

\* Enter issue(arg) in the call f, with the queue q of requests r.
Issue(f, arg, pc, q, r) ==
  [f EXCEPT !.arg = arg, !.pc = pc, !.tries = Retries,
            !.rp = IF arg = 0 THEN 0 ELSE FirstWaiting(q, r)]

Issuing == fn.pc \in {"issue", "issueNext"}
Looping == Issuing /\ fn.rp # 0 /\ used < max
rpNode  == queue[fn.rp]

\* Mutant: a command handed to the driver is not marked as running.
AttemptUnmarked ==
  /\ Looping
  /\ LET good == [req EXCEPT ![fn.arg].status = IF sg = 2 THEN "io_error" ELSE "good"]
     IN req' = good
  /\ IF sg = 2 THEN driver' = Append(driver, req[rpNode].cmd) /\ ran' = ran
               ELSE ran' = Append(ran, req[rpNode].cmd) /\ driver' = driver
  /\ used' = used + 1
  /\ fn' = [fn EXCEPT !.rp = IF fn.rp < Len(queue) THEN fn.rp + 1 ELSE 0,
                      !.tries = Retries]
  /\ UNCHANGED << sg, max, queue, free, ret, answers, mishaps >>

\* The status is that of the argument of issue, not of the command issued.
AttemptTaken ==
  /\ Looping
  /\ LET runs == [req EXCEPT ![rpNode].running = TRUE]
     IN req' = [runs EXCEPT ![fn.arg].status = IF sg = 2 THEN "io_error" ELSE "good"]
  /\ IF sg = 2 THEN driver' = Append(driver, req[rpNode].cmd) /\ ran' = ran
               ELSE ran' = Append(ran, req[rpNode].cmd) /\ driver' = driver
  /\ used' = used + 1
  /\ fn' = [fn EXCEPT !.rp = IF fn.rp < Len(queue) THEN fn.rp + 1 ELSE 0,
                      !.tries = Retries]
  /\ UNCHANGED << sg, max, queue, free, ret, answers, mishaps >>

\* Mutant: the head is tried again without limit.
AttemptAgainForEver ==
  /\ Looping
  /\ req' = [req EXCEPT ![rpNode].running = FALSE]
  /\ fn' = IF fn.rp = 1 THEN [fn EXCEPT !.tries = IF @ > 1 THEN @ - 1 ELSE Retries]
                        ELSE [fn EXCEPT !.rp = 0]
  /\ UNCHANGED << sg, max, queue, free, used, ret, device, mishaps >>

\* EAGAIN: only the head of the queue is tried again at once.
AttemptAgain ==
  /\ Looping
  /\ req' = [req EXCEPT ![rpNode].running = FALSE]
  /\ IF fn.rp = 1 /\ fn.tries > 1
     THEN fn' = [fn EXCEPT !.tries = @ - 1] /\ UNCHANGED mishaps
     ELSE /\ fn' = [fn EXCEPT !.rp = 0]
          /\ IF fn.rp = 1 THEN Went("again") ELSE UNCHANGED mishaps
  /\ UNCHANGED << sg, max, queue, free, used, ret, device >>

\* ENOMEM for a command behind the head: it is issued later.
AttemptLater ==
  /\ Looping /\ fn.rp # 1
  /\ req' = [req EXCEPT ![rpNode].running = FALSE]
  /\ fn' = [fn EXCEPT !.rp = 0]
  /\ UNCHANGED << sg, max, queue, free, used, ret, device, mishaps >>

\* Mutant: a refused command counts as one the driver has.
AttemptRefusedCounts ==
  /\ Looping
  /\ \E st \in {"io_error", "no_mem"} :
       /\ st = "no_mem" => fn.rp = 1 /\ sg = 2
       /\ req' = [req EXCEPT ![rpNode].running = sg = 2, ![rpNode].done = TRUE,
                             ![rpNode].status = st]
  /\ fn' = [fn EXCEPT !.rp = 0]
  /\ used' = used + 1
  /\ Went("error")
  /\ UNCHANGED << sg, max, queue, free, ret, device >>

\* Any other error ends the command.  With version 3 it does not count as
\* running, so that a later issue() tries it again.
AttemptRefused ==
  /\ Looping
  /\ \E st \in {"io_error", "no_mem"} :
       /\ st = "no_mem" => fn.rp = 1 /\ sg = 2
       /\ req' = [req EXCEPT ![rpNode].running = sg = 2, ![rpNode].done = TRUE,
                             ![rpNode].status = st]
  /\ fn' = [fn EXCEPT !.rp = 0]
  /\ Went("error")
  /\ UNCHANGED << sg, max, queue, free, used, ret, device >>

issue == AttemptTaken \/ AttemptAgain \/ AttemptLater \/ AttemptRefused

-------------------------------------------------------------------------------
(* sanei_scsi_req_enter2, for the command number c.                        *)

InFree(n) == n \in Elems(free)
Unallocated == { n \in Node : n \notin Elems(queue) /\ ~InFree(n) }

req_enter(c) ==
  /\ Idle
  /\ \E n \in IF free # << >> THEN {Head(free)} ELSE Unallocated :
       /\ free' = IF free # << >> THEN Tail(free) ELSE free
       /\ req' = [req EXCEPT ![n] = [NoReq EXCEPT !.cmd = c]]
       /\ queue' = Append(queue, n)
       /\ fn' = Issue([NoFn EXCEPT !.op = "enter", !.id = n], n, "issue", queue', req')
  /\ UNCHANGED << sg, max, used, ret, device, mishaps >>

\* malloc fails.
req_enter_no_mem(c) ==
  /\ Idle /\ free = << >>
  /\ ret' = [op |-> "enter", cmd |-> c, got |-> 0, status |-> "no_mem"]
  /\ UNCHANGED << sg, max, requests, fn, device, mishaps >>

EnterReturns ==
  /\ fn.op = "enter" /\ Issuing /\ ~Looping
  /\ ret' = [op |-> "enter", cmd |-> req[fn.id].cmd, got |-> 0, status |-> "good"]
  /\ fn' = [NoFn EXCEPT !.id = fn.id]   \* *idp
  /\ UNCHANGED << sg, max, requests, device, mishaps >>

-------------------------------------------------------------------------------
(* sanei_scsi_req_wait.                                                    *)

req_wait(id) ==
  /\ Idle
  /\ fn' = Issue([NoFn EXCEPT !.op = "wait", !.id = id], id, "issue", queue, req)
  /\ UNCHANGED << sg, max, requests, ret, device, mishaps >>

Running == fn.op = "wait" /\ fn.pc = "issue" /\ ~Looping
next    == IF Len(queue) > 1 THEN queue[2] ELSE 0

\* issue(req->next) in the call f, with requests r.
IssueNext(f, r) == Issue(f, next, "issueNext", queue, r)

\* Mutant: the status of a command that was refused is forgotten.
WaitOverGood ==
  /\ Running /\ req[fn.id].done
  /\ fn' = IssueNext([fn EXCEPT !.st = "good"], req)
  /\ UNCHANGED << sg, max, requests, ret, device, mishaps >>

WaitOver ==
  /\ Running /\ req[fn.id].done
  /\ fn' = IssueNext([fn EXCEPT !.st = "own"], req)
  /\ UNCHANGED << sg, max, requests, ret, device, mishaps >>

\* The answer may be a complaint that the sense handler turns into any status.
WaitRead ==
  /\ Running /\ ~req[fn.id].done /\ sg = 2
  /\ answers # << >>
  /\ answers' = Tail(answers)
  /\ req' = [req EXCEPT ![fn.id].done = TRUE]
  /\ used' = used - 1
  /\ \E st \in {"good", "io_error", "busy"} :
       fn' = IssueNext([fn EXCEPT !.st = st, !.got = Head(answers)], req')
  /\ UNCHANGED << sg, max, queue, free, ret, driver, ran, mishaps >>

\* A signal interrupts select before there is an answer, and read fails.
WaitInterrupted ==
  /\ Running /\ ~req[fn.id].done /\ sg = 2
  /\ answers = << >>
  /\ req' = [req EXCEPT ![fn.id].done = TRUE]
  /\ used' = used - 1
  /\ fn' = IssueNext([fn EXCEPT !.st = "io_error"], req')
  /\ Went("interrupt")
  /\ UNCHANGED << sg, max, queue, free, ret, device >>

\* Version 3: the header was filled in by the ioctl, or is still zero.
WaitSG3 ==
  /\ Running /\ ~req[fn.id].done /\ sg = 3
  /\ req' = [req EXCEPT ![fn.id].done = TRUE]
  /\ used' = used - 1
  /\ \E st \in IF req[fn.id].running THEN {"good", "io_error", "busy"} ELSE {"good"} :
       fn' = IssueNext([fn EXCEPT !.st = st], req')
  /\ UNCHANGED << sg, max, queue, free, ret, device, mishaps >>

WaitReturns ==
  /\ fn.op = "wait" /\ fn.pc = "issueNext" /\ ~Looping
  /\ queue' = Tail(queue)
  /\ free' = << fn.id >> \o free
  /\ ret' = [op |-> "wait", cmd |-> req[fn.id].cmd,
             got |-> IF sg = 3 /\ req[fn.id].running THEN req[fn.id].cmd ELSE fn.got,
             status |-> IF fn.st = "own" THEN req[fn.id].status ELSE fn.st]
  /\ fn' = NoFn
  /\ UNCHANGED << sg, max, req, used, device, mishaps >>

-------------------------------------------------------------------------------
(* sanei_scsi_req_flush_all, from a signal handler: it interrupts whatever *)
(* is under way.                                                           *)

flush_all ==
  /\ fn' = [NoFn EXCEPT !.op = "flush"]
  /\ UNCHANGED << sg, max, requests, ret, device, mishaps >>

Flushing == fn.op = "flush" /\ queue # << >>
Pending  == req[Head(queue)].running /\ ~req[Head(queue)].done
Released == /\ queue' = Tail(queue)
            /\ free' = << Head(queue) >> \o free
            /\ UNCHANGED << sg, max, req, fn, ret, driver, ran >>

FlushIdle == /\ Flushing /\ ~Pending
             /\ Released
             /\ UNCHANGED << used, answers, mishaps >>

FlushRead == /\ Flushing /\ Pending /\ answers # << >>
             /\ used' = used - 1
             /\ answers' = Tail(answers)
             /\ Released
             /\ UNCHANGED mishaps

\* Mutant: no timeout for a driver of version 3.
FlushTimeoutSG2 == /\ Flushing /\ Pending /\ answers = << >> /\ sg = 2
                   /\ used' = used - 1
                   /\ Went("timeout")
                   /\ Released
                   /\ UNCHANGED answers

\* No answer within sane_scsicmd_timeout.  With version 3 there never is one.
FlushTimeout == /\ Flushing /\ Pending /\ answers = << >>
                /\ used' = used - 1
                /\ IF sg = 2 THEN Went("timeout") ELSE UNCHANGED mishaps
                /\ Released
                /\ UNCHANGED answers

Flush == FlushIdle \/ FlushRead \/ FlushTimeout

-------------------------------------------------------------------------------
(* The device executes what the driver has been given.                     *)
DeviceAnswers == /\ driver # << >>
                 /\ driver' = Tail(driver)
                 /\ answers' = Append(answers, Head(driver))
                 /\ ran' = Append(ran, Head(driver))
                 /\ UNCHANGED << sg, max, requests, fn, ret, mishaps >>

QueueStep == \/ issue \/ EnterReturns
             \/ WaitOver \/ WaitRead \/ WaitInterrupted \/ WaitSG3 \/ WaitReturns
             \/ Flush
===============================================================================
