------------------------------ MODULE TestBackend ------------------------------
(***************************************************************************)
(* The test backend (backend/test.c) with its reader process, which is     *)
(* forked by sanei/sanei_thread.c and writes the image to a pipe.          *)
(*                                                                         *)
(* sane_cancel may be called from a signal handler, in the middle of any   *)
(* other call; the control state is therefore kept per context: "main" and *)
(* "hand", the handler, during which main does not move.                   *)
(***************************************************************************)
EXTENDS Integers, Sequences, FiniteSets

CONSTANTS
  Total,      \* bytes of a frame
  Cap,        \* capacity of the pipe
  MaxKids,    \* bound on the reader processes
  FeederSize  \* the document feeder is empty at each multiple, 11 in the code

ASSUME BackendAssumption == {Total, Cap, MaxKids, FeederSize} \subseteq Nat \ {0}

VARIABLES
  three,    \* three pass mode
  adf,      \* the source is the document feeder
  dev,      \* the Test_Device
  kids,     \* the reader processes, by pid
  nk,       \* pipes made so far; a reader has the number of its pipe as pid
  at,       \* where the contexts are
  then,     \* where finish_pass returns to
  got,      \* bytes_read, -1 for an error
  status,   \* what the last call of main returned
  mishaps   \* what has failed

backend == << three, adf, dev, kids, nk, at, then, got, status, mishaps >>
mode    == << three, adf >>

Pid == 1..MaxKids
Ctx == {"main", "hand"}
NoKid == [st |-> "none", wrote |-> 0, taken |-> 0, fd |-> FALSE, term |-> FALSE,
          int |-> FALSE, scan |-> FALSE, first |-> TRUE]

\* After sane_open.
Init ==
  /\ three \in BOOLEAN /\ adf \in BOOLEAN
  /\ dev = [scanning |-> FALSE, cancelled |-> FALSE, eof |-> FALSE, bytes |-> 0,
            pass |-> 0, scans |-> 0, pid |-> -1, pipe |-> 0, wfd |-> 0]
  /\ kids = [k \in Pid |-> NoKid] /\ nk = 0
  /\ at = [c \in Ctx |-> IF c = "main" THEN "begin" ELSE "none"]
  /\ then = [c \in Ctx |-> "none"]
  /\ got = 0 /\ status = "good" /\ mishaps = {}

Live(k) == kids[k].st \in {"born", "writing", "sleep"}
At(c, here) == at[c] = here /\ (c = "main" => at["hand"] = "none")
Goto(c, there) == at' = [at EXCEPT ![c] = there]
Returns(st, there) == status' = st /\ Goto("main", there)

-------------------------------------------------------------------------------
(* sane_start, for a device that is open.                                  *)

OutOfDocs == dev.pass = 0 /\ adf /\ (dev.scans + 1) % FeederSize = 0
NextScan  == IF dev.pass = 0 THEN dev.scans + 1 ELSE dev.scans

Busy == dev.scanning /\ ~three   \* in colour mode

StartRefused ==
  /\ At("main", "start") /\ (Busy \/ OutOfDocs)
  /\ dev' = [dev EXCEPT !.scans = IF Busy THEN @ ELSE NextScan]
  /\ Returns(IF Busy THEN "inval" ELSE "no_docs", "started")
  /\ UNCHANGED << mode, kids, nk, then, got, mishaps >>

StartScanning ==
  /\ At("main", "start") /\ ~Busy /\ ~OutOfDocs
  /\ dev' = [dev EXCEPT !.scans = NextScan, !.scanning = TRUE]
  /\ Goto("main", "start2")
  /\ UNCHANGED << mode, kids, nk, then, got, status, mishaps >>

StartReset ==
  /\ At("main", "start2")
  /\ dev' = [dev EXCEPT !.cancelled = FALSE, !.eof = FALSE, !.bytes = 0]
  /\ Goto("main", "start3")
  /\ UNCHANGED << mode, kids, nk, then, got, status, mishaps >>

StartPipe ==
  /\ At("main", "start3")
  /\ \/ /\ nk < MaxKids
        /\ nk' = nk + 1
        /\ dev' = [dev EXCEPT !.pipe = nk + 1, !.wfd = nk + 1]
        /\ Goto("main", "start4") /\ UNCHANGED << status >>
     \/ Returns("io_error", "started") /\ UNCHANGED << nk, dev >>
  /\ UNCHANGED << mode, kids, then, got, mishaps >>

\* sanei_thread_begin.  The child has the parent's memory of this moment.
StartFork(firstTime) ==
  /\ At("main", "start4")
  /\ \/ /\ kids' = [kids EXCEPT ![nk] =
                      [NoKid EXCEPT !.st = "born", !.fd = dev.wfd # 0, !.first = firstTime,
                                    !.scan = dev.scanning /\ ~dev.cancelled]]
        /\ Goto("main", "start5") /\ UNCHANGED << dev, status >>
     \/ /\ dev' = [dev EXCEPT !.pid = -1]
        /\ Returns("no_mem", "started") /\ UNCHANGED kids
  /\ UNCHANGED << mode, nk, then, got, mishaps >>

StartForked ==
  /\ At("main", "start5")
  /\ dev' = [dev EXCEPT !.pid = nk]
  /\ Goto("main", "start6")
  /\ UNCHANGED << mode, kids, nk, then, got, status, mishaps >>

StartDone ==
  /\ At("main", "start6")
  /\ dev' = [dev EXCEPT !.wfd = 0]
  /\ Returns("good", "started")
  /\ UNCHANGED << mode, kids, nk, then, got, mishaps >>

sane_start(firstTime) ==
  \/ StartRefused \/ StartScanning \/ StartReset \/ StartPipe
  \/ StartFork(firstTime) \/ StartForked \/ StartDone

-------------------------------------------------------------------------------
(* finish_pass.                                                            *)

\* Mutant: scanning is left alone here; the callers reset it.
FinishMarkLate(c) ==
  /\ At(c, "finish")
  /\ Goto(c, "close")
  /\ UNCHANGED << mode, dev, kids, nk, then, got, status, mishaps >>

FinishMark(c) ==
  /\ At(c, "finish")
  /\ dev' = [dev EXCEPT !.scanning = FALSE]
  /\ Goto(c, "close")
  /\ UNCHANGED << mode, kids, nk, then, got, status, mishaps >>

\* Mutant: the reader is left alone.
FinishCloseOnly(c) ==
  /\ At(c, "close")
  /\ dev' = [dev EXCEPT !.pipe = 0, !.pid = -1]
  /\ Goto(c, "finished")
  /\ UNCHANGED << mode, kids, nk, then, got, status, mishaps >>

FinishClose(c) ==
  /\ At(c, "close")
  /\ dev' = [dev EXCEPT !.pipe = 0]
  /\ Goto(c, IF dev.pid # -1 THEN "kill" ELSE "finished")
  /\ UNCHANGED << mode, kids, nk, then, got, status, mishaps >>

\* Mutant: the reader is only waited for.
FinishKillNot(c) ==
  /\ At(c, "kill")
  /\ Goto(c, "wait")
  /\ UNCHANGED << mode, dev, kids, nk, then, got, status, mishaps >>

\* sanei_thread_kill (SIGTERM)
FinishKill(c) ==
  /\ At(c, "kill")
  /\ kids' = [k \in Pid |-> [kids[k] EXCEPT !.term = @ \/ k = dev.pid]]
  /\ Goto(c, "wait")
  /\ UNCHANGED << mode, dev, nk, then, got, status, mishaps >>

\* sanei_thread_waitpid; its result does not matter.
FinishWait(c) ==
  /\ At(c, "wait")
  /\ dev.pid \in Pid => ~Live(dev.pid)
  /\ kids' = [k \in Pid |-> IF k = dev.pid THEN [NoKid EXCEPT !.st = "gone"] ELSE kids[k]]
  /\ dev' = [dev EXCEPT !.pid = -1]
  /\ Goto(c, "finished")
  /\ UNCHANGED << mode, nk, then, got, status, mishaps >>

FinishDone(c) ==
  /\ At(c, "finished")
  /\ dev' = [dev EXCEPT !.wfd = 0]
  /\ Goto(c, then[c])
  /\ then' = [then EXCEPT ![c] = "none"]
  /\ UNCHANGED << mode, kids, nk, got, status, mishaps >>

finish_pass(c) == \/ FinishMark(c) \/ FinishClose(c) \/ FinishKill(c)
                  \/ FinishWait(c) \/ FinishDone(c)

-------------------------------------------------------------------------------
(* sane_read.                                                              *)

ReadChecks ==
  /\ At("main", "read")
  /\ \/ dev.cancelled /\ Returns("cancelled", "readDone")
     \/ ~dev.cancelled /\ dev.eof /\ Returns("eof", "readDone")
     \/ ~dev.cancelled /\ ~dev.eof /\ ~dev.scanning /\ Returns("inval", "readDone")
     \/ /\ ~dev.cancelled /\ ~dev.eof /\ dev.scanning
        /\ Goto("main", "read2") /\ UNCHANGED status
  /\ UNCHANGED << mode, dev, kids, nk, then, got, mishaps >>

\* All write ends of the pipe are closed.
Hangup(k) == dev.wfd # k /\ ~(Live(k) /\ kids[k].fd)

ReadPipe ==
  /\ At("main", "read2")
  /\ LET k == dev.pipe
     IN \/ /\ k # 0
           /\ \E n \in 1..(kids[k].wrote - kids[k].taken) :
                got' = n /\ kids' = [kids EXCEPT ![k].taken = @ + n]
        \/ /\ k # 0 /\ kids[k].wrote = kids[k].taken /\ Hangup(k)
           /\ got' = 0 /\ UNCHANGED kids
        \/ k = 0 /\ got' = -1 /\ UNCHANGED kids     \* closed by the handler
  /\ Goto("main", "read3")
  /\ UNCHANGED << mode, dev, nk, then, status, mishaps >>

EofReached == got = 0 \/ got + dev.bytes >= Total

ReadTakes ==
  /\ At("main", "read3")
  /\ \/ /\ EofReached
        /\ Goto("main", "finish") /\ then' = [then EXCEPT !["main"] = "eof"]
        /\ UNCHANGED << dev, status >>
     \/ /\ ~EofReached /\ got < 0
        /\ Returns("io_error", "readDone") /\ UNCHANGED << dev, then >>
     \/ /\ ~EofReached /\ got > 0
        /\ dev' = [dev EXCEPT !.bytes = @ + got]
        /\ Returns("good", "readDone") /\ UNCHANGED then
  /\ UNCHANGED << mode, kids, nk, got, mishaps >>

\* Mutant: the pass is not reset after the third.
ReadEofCounts ==
  /\ At("main", "eof")
  /\ dev' = [dev EXCEPT !.eof = TRUE, !.bytes = @ + got, !.pass = IF three THEN @ + 1 ELSE @]
  /\ Returns(IF got = 0 THEN "eof" ELSE "good", "readDone")
  /\ UNCHANGED << mode, kids, nk, then, got, mishaps >>

\* After finish_pass; the next pass of three.
ReadEof ==
  /\ At("main", "eof")
  /\ dev' = [dev EXCEPT !.eof = TRUE, !.bytes = @ + got,
                        !.pass = IF three THEN (@ + 1) % 3 ELSE @]
  /\ Returns(IF got = 0 THEN "eof" ELSE "good", "readDone")
  /\ UNCHANGED << mode, kids, nk, then, got, mishaps >>

sane_read == ReadChecks \/ ReadPipe \/ ReadTakes \/ ReadEof

-------------------------------------------------------------------------------
(* sane_cancel; it returns to the label ret.                               *)

CancelStarts(c, ret) ==
  /\ At(c, "cancel")
  /\ \/ /\ dev.cancelled \/ ~dev.scanning
        /\ Goto(c, ret) /\ UNCHANGED then
     \/ /\ ~dev.cancelled /\ dev.scanning
        /\ Goto(c, "finish") /\ then' = [then EXCEPT ![c] = "cancelled"]
  /\ UNCHANGED << mode, dev, kids, nk, got, status, mishaps >>

\* Mutant: the scan is not marked as cancelled.
CancelDoneUnmarked(c, ret) ==
  /\ At(c, "cancelled")
  /\ dev' = [dev EXCEPT !.scanning = FALSE, !.pass = 0]
  /\ Goto(c, ret)
  /\ UNCHANGED << mode, kids, nk, then, got, status, mishaps >>

CancelDone(c, ret) ==
  /\ At(c, "cancelled")
  /\ dev' = [dev EXCEPT !.cancelled = TRUE, !.scanning = FALSE, !.eof = FALSE, !.pass = 0]
  /\ Goto(c, ret)
  /\ UNCHANGED << mode, kids, nk, then, got, status, mishaps >>

sane_cancel(c, ret) == CancelStarts(c, ret) \/ CancelDone(c, ret)

-------------------------------------------------------------------------------
(* reader_task and reader_process, in the child k.                         *)

Child(k, kid) == /\ kids' = [kids EXCEPT ![k] = kid]
                 /\ UNCHANGED << mode, dev, nk, at, then, got, status >>
Ended(kid) == [NoKid EXCEPT !.st = "dead", !.wrote = kid.wrote, !.taken = kid.taken]
Dead(k) == Ended(kids[k])

\* SIGTERM is set to its default; init_picture_buffer may lack memory.
KidStarts(k) ==
  /\ kids[k].st = "born" /\ ~kids[k].term
  /\ \/ Child(k, [kids[k] EXCEPT !.st = "writing"]) /\ UNCHANGED mishaps
     \/ Child(k, Dead(k)) /\ mishaps' = mishaps \cup {"reader"}

ReadEndOpen(k) == dev.pipe = k /\ at["main"] # "exited"

KidWrites(k) ==
  /\ kids[k].st = "writing" /\ ~kids[k].term /\ kids[k].wrote < Total
  /\ \/ /\ kids[k].fd /\ ReadEndOpen(k) /\ kids[k].wrote - kids[k].taken < Cap
        /\ Child(k, [kids[k] EXCEPT !.wrote = @ + 1])
     \/ ~kids[k].fd /\ Child(k, Dead(k))                          \* EBADF
     \/ kids[k].fd /\ ~ReadEndOpen(k) /\ Child(k, Dead(k))        \* EPIPE
  /\ UNCHANGED mishaps

KidFinished(k) ==
  /\ kids[k].st = "writing" /\ ~kids[k].term /\ kids[k].wrote = Total
  /\ Child(k, [kids[k] EXCEPT !.st = "sleep"])
  /\ UNCHANGED mishaps

\* What a handler that calls sane_cancel does in the child: it closes
\* reader_fds, or ends a child forked after the first signal.
InChild(kid) == IF ~kid.first THEN Ended(kid)
                ELSE IF kid.scan THEN [kid EXCEPT !.fd = FALSE, !.scan = FALSE, !.first = FALSE]
                ELSE [kid EXCEPT !.first = FALSE]

\* SIGTERM before reader_task has reset its handler, or after.
KidTerm(k) ==
  /\ Live(k) /\ kids[k].term
  /\ \/ kids[k].st = "born" /\ Child(k, [InChild(kids[k]) EXCEPT !.term = FALSE])
     \/ kids[k].st # "born" /\ Child(k, Dead(k))
  /\ UNCHANGED mishaps

KidInt(k) ==
  /\ Live(k) /\ kids[k].int
  /\ Child(k, [InChild(kids[k]) EXCEPT !.int = FALSE])
  /\ UNCHANGED mishaps

reader_task(k) == \/ KidStarts(k) \/ KidWrites(k) \/ KidFinished(k)
                  \/ KidTerm(k) \/ KidInt(k)
===============================================================================
