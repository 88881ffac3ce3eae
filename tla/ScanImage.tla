------------------------------- MODULE ScanImage -------------------------------
(***************************************************************************)
(* frontend/scanimage.c in batch mode with the test backend: pages of one  *)
(* or three frames are scanned to .part files that get their name when the *)
(* page is complete.  The first signal calls sane_cancel from the handler, *)
(* the second one ends the program.                                        *)
(***************************************************************************)
EXTENDS TestBackend

CONSTANTS
  Batch,       \* batch_count
  MaxSignals   \* bound on the signals

ASSUME ScanAssumption == Batch \in Nat \ {0} /\ MaxSignals \in Nat

VARIABLES
  n,           \* the page
  first_frame, \* no frame of the page is complete yet
  last,        \* parm.last_frame
  img,         \* bytes of the page
  part,        \* there is a .part file
  pages,       \* the pages that have got their name: the bytes in them
  first_time,  \* of sighandler
  pend, nsig,  \* signals to be delivered, and sent so far
  hit,         \* a cancel came in the middle of sane_start
  stopped,     \* a cancel from the handler has ended a pass
  aborted      \* ended by _exit

program == << n, first_frame, last, img, part, pages >>
signals == << first_time, pend, nsig, hit, stopped, aborted >>
vars    == << backend, program, signals >>

ScanInit ==
  /\ Init
  /\ n = 1 /\ first_frame = TRUE /\ last = FALSE /\ img = 0
  /\ part = FALSE /\ pages = << >>
  /\ first_time = TRUE /\ pend = 0 /\ nsig = 0
  /\ hit = FALSE /\ stopped = FALSE /\ aborted = FALSE

Same == got' = 0 /\ UNCHANGED << mode, dev, kids, nk, then, signals >>
Fails(what) == mishaps' = mishaps \cup {what}

-------------------------------------------------------------------------------
BeginPage == /\ At("main", "begin")
             /\ Goto("main", "start")
             /\ first_frame' = TRUE /\ img' = 0
             /\ Same /\ UNCHANGED << status, mishaps, n, last, part, pages >>

StartFailed == /\ At("main", "started") /\ status # "good"
               /\ Goto("main", IF first_frame THEN "cancel" ELSE "pageEnd")
               /\ Same /\ UNCHANGED << status, mishaps, program >>

\* The .part file for the first frame, then sane_get_parameters.
StartSucceeded ==
  /\ At("main", "started") /\ status = "good"
  /\ \/ /\ part' = TRUE
        /\ last' = (~three \/ dev.pass > 1)
        /\ Goto("main", "read") /\ UNCHANGED mishaps
     \/ /\ first_frame
        /\ Goto("main", "cancel") /\ Fails("file")
        /\ UNCHANGED << part, last >>
  /\ Same /\ UNCHANGED << status, n, first_frame, img, pages >>

\* Mutant: any status ends the frame as EOF does.
ReadReturnedEof ==
  /\ At("main", "readDone")
  /\ \/ /\ status = "good"
        /\ img' = img + got /\ Goto("main", "read")
        /\ UNCHANGED << status, first_frame >>
     \/ /\ status # "good"
        /\ first_frame' = FALSE
        /\ IF last THEN Returns("good", "pageEnd") ELSE Goto("main", "start") /\ UNCHANGED status
        /\ UNCHANGED img
  /\ Same /\ UNCHANGED << mishaps, n, last, part, pages >>

ReadReturned ==
  /\ At("main", "readDone")
  /\ \/ /\ status = "good"
        /\ img' = img + got /\ Goto("main", "read")
        /\ UNCHANGED << status, first_frame >>
     \/ /\ status = "eof"
        /\ first_frame' = FALSE
        /\ IF last THEN Returns("good", "pageEnd") ELSE Goto("main", "start") /\ UNCHANGED status
        /\ UNCHANGED img
     \/ /\ status \notin {"good", "eof"}
        /\ Goto("main", "pageEnd")
        /\ UNCHANGED << status, img, first_frame >>
  /\ Same /\ UNCHANGED << mishaps, n, last, part, pages >>

\* Mutant: the .part file of a failed page stays.
PageEndKeeps ==
  /\ At("main", "pageEnd")
  /\ \/ /\ status = "good"
        /\ part' = FALSE /\ pages' = Append(pages, img)
        /\ n' = n + 1
        /\ Goto("main", IF n < Batch THEN "begin" ELSE "cancel")
        /\ UNCHANGED mishaps
     \/ /\ status = "good"
        /\ Goto("main", "cancel") /\ Fails("file")
        /\ UNCHANGED << part, pages, n >>
     \/ /\ status # "good"
        /\ n' = n + 1 /\ Goto("main", "cancel")
        /\ UNCHANGED << part, pages, mishaps >>
  /\ Same /\ UNCHANGED << status, first_frame, last, img >>

\* freopen and rename, or unlink.
PageEnd ==
  /\ At("main", "pageEnd")
  /\ \/ /\ status = "good"
        /\ part' = FALSE /\ pages' = Append(pages, img)
        /\ n' = n + 1
        /\ Goto("main", IF n < Batch THEN "begin" ELSE "cancel")
        /\ UNCHANGED mishaps
     \/ /\ status = "good"
        /\ Goto("main", "cancel") /\ Fails("file")
        /\ UNCHANGED << part, pages, n >>
     \/ /\ status # "good"
        /\ part' = FALSE
        /\ n' = n + 1 /\ Goto("main", "cancel")
        /\ UNCHANGED << pages, mishaps >>
  /\ Same /\ UNCHANGED << status, first_frame, last, img >>

\* sane_cancel, then scanimage_exit at the end of the program.
Main == \/ BeginPage \/ StartFailed \/ StartSucceeded \/ ReadReturned \/ PageEnd
        \/ /\ \/ sane_start(first_time) \/ sane_read
              \/ finish_pass("main") \/ sane_cancel("main", "exited")
           /\ UNCHANGED << program, signals >>

-------------------------------------------------------------------------------
(* Signals: SIGTERM for the program, SIGINT for the readers too.           *)

Signal(kind) ==
  /\ nsig < MaxSignals /\ at["main"] # "exited"
  /\ nsig' = nsig + 1 /\ pend' = pend + 1
  /\ \/ kind = "term" /\ UNCHANGED << kids, mishaps >>
     \/ /\ kind = "int"
        /\ kids' = [k \in Pid |-> [kids[k] EXCEPT !.int = Live(k)]]
        /\ Fails("int")
  /\ UNCHANGED << mode, dev, nk, at, then, got, status, program, first_time, hit, stopped,
                  aborted >>

InStart == at["main"] \in {"start2", "start3", "start4", "start5", "start6"}

sighandler ==
  /\ pend > 0 /\ at["main"] # "exited"
  /\ pend' = pend - 1
  /\ IF first_time
     THEN /\ Goto("hand", "cancel")
          /\ hit' = InStart
          /\ UNCHANGED aborted
     ELSE Goto("main", "exited") /\ aborted' = TRUE /\ UNCHANGED hit
  /\ first_time' = FALSE
  /\ UNCHANGED << mode, dev, kids, nk, then, got, status, mishaps, program, nsig, stopped >>

Handler == /\ at["main"] # "exited"
           /\ finish_pass("hand") \/ sane_cancel("hand", "none")
           /\ stopped' = (stopped \/ at["hand"] = "cancelled")
           /\ UNCHANGED << program, first_time, pend, nsig, hit, aborted >>

Reader == \E k \in Pid : reader_task(k) /\ UNCHANGED << program, signals >>

Terminated == at["main"] = "exited" /\ UNCHANGED vars

Next == Main \/ sighandler \/ Handler \/ Reader \/ Terminated
        \/ Signal("term") \/ Signal("int")

\* Every process runs, and a signal is delivered.
Spec == /\ ScanInit /\ [][Next]_vars
        /\ WF_vars(Main) /\ WF_vars(Handler) /\ WF_vars(sighandler)
        /\ \A k \in Pid : WF_vars(reader_task(k) /\ UNCHANGED << program, signals >>)

-------------------------------------------------------------------------------
(* Properties.                                                             *)

ScanTypeOK ==
  /\ dev.pass \in 0..2 /\ dev.pid \in Pid \cup {-1} /\ dev.bytes \in 0..Total
  /\ dev.pipe \in 0..MaxKids /\ dev.wfd \in 0..MaxKids /\ nk \in 0..MaxKids
  /\ kids \in [Pid -> [st : {"none", "born", "writing", "sleep", "dead", "gone"},
                       wrote : 0..Total, taken : 0..Total, fd : BOOLEAN, term : BOOLEAN,
                       int : BOOLEAN, scan : BOOLEAN, first : BOOLEAN]]
  /\ n \in 1..(Batch + 1) /\ img \in 0..(MaxKids * Total)
  /\ pages \in Seq(0..(MaxKids * Total))

(***************************************************************************)
(* finish_pass sends SIGTERM to a reader of its own that has not been      *)
(* waited for, though the handler may run finish_pass in between: the pid  *)
(* it tested is not -1, every process of the user, when kill uses it.      *)
(***************************************************************************)
KillsOwnReader ==
  \A c \in Ctx : at[c] = "kill" => dev.pid \in Pid /\ kids[dev.pid].st \notin {"none", "gone"}

(***************************************************************************)
(* When scanimage has ended, no reader process is left that would live on: *)
(* the reader sleeps for ever after its last byte, so it ends only when it *)
(* is killed.  (A cancel in the middle of sane_start, and _exit at the     *)
(* second signal, leave one behind.)                                       *)
(***************************************************************************)
NoReaderLeft ==
  at["main"] = "exited" /\ ~aborted /\ ~hit => \A k \in Pid : ~Live(k)

(***************************************************************************)
(* "let the fully scanned file show up": a page that gets its name has all *)
(* bytes of all its frames, whatever signals come in.  (A reader that dies *)
(* by itself or from SIGINT is taken for the end of the frame.)            *)
(***************************************************************************)
PageBytes == IF three THEN 3 * Total ELSE Total
CompletePages ==
  mishaps \cap {"reader", "int"} = {} => \A i \in DOMAIN pages : pages[i] = PageBytes

(***************************************************************************)
(* No .part file remains when scanimage ends by itself and the file system *)
(* does what it is asked to do.                                            *)
(***************************************************************************)
PartRemoved ==
  at["main"] = "exited" /\ ~aborted /\ "file" \notin mishaps => ~part

(***************************************************************************)
(* Once the handler has cancelled a pass no other frame or page is         *)
(* started.                                                                *)
(***************************************************************************)
CancelStops ==
  [][stopped /\ mishaps \cap {"reader", "int"} = {}
       => ~(at'["main"] = "start" /\ at["main"] # "start")]_vars

(***************************************************************************)
(* scanimage ends: neither sane_read nor the waitpid of finish_pass, in    *)
(* main or in the handler, waits for ever for a reader.                    *)
(***************************************************************************)
ProgramEnds == <>(at["main"] = "exited")
===============================================================================
