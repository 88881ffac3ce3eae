------------------------------ MODULE MustekReader -----------------------------
(***************************************************************************)
(* reader_process of backend/mustek.c, the process that reads the image    *)
(* through the SCSI command queue with two buffers, and the SIGTERM with   *)
(* which do_stop ends it.  A read command is named by its first line.      *)
(***************************************************************************)
EXTENDS ScsiQueue, FiniteSets

CONSTANTS
  Lines,           \* s->hw->lines
  LinesPerBuffer,  \* lines_per_buffer
  MaxBuffers       \* max_buffers of a block

ASSUME ReaderAssumption == {Lines, LinesPerBuffer, MaxBuffers} \subseteq Nat \ {0}

VARIABLES
  single,   \* disable_double_buffering
  line,     \* s->line
  bstat,    \* the two buffers
  bn,       \* buffernumber
  count,    \* buffer_count
  rpc,      \* where reader_process is
  out,      \* the lines written to the pipe: for each buffer the command whose
            \* data it held
  term,     \* SIGTERM: "no", "sent", "caught"
  result    \* exit status

reader == << single, line, bstat, bn, count, rpc, out, term, result >>
vars   == << queueVars, reader >>

NoBuf == [id |-> 0, ready |-> FALSE, finished |-> FALSE]

ReaderInit ==
  /\ Init
  /\ single \in BOOLEAN
  /\ line = 0 /\ bn = 0 /\ count = 0
  /\ bstat = [b \in 0..1 |-> NoBuf]
  /\ rpc = "block" /\ out = << >>
  /\ term = "no" /\ result = "none"

Toggle(b, when) == IF when THEN 1 - b ELSE b
Exit(st) == rpc' = "exited" /\ result' = st

-------------------------------------------------------------------------------
\* The next block; dev_block_read_start may fail.
BlockStart ==
  /\ rpc = "block" /\ line < Lines
  /\ \/ /\ rpc' = "top" /\ UNCHANGED result
        /\ bstat' = [b \in 0..1 |-> [bstat[b] EXCEPT !.ready = FALSE, !.finished = FALSE]]
        /\ bn' = 0 /\ count' = 0
     \/ Exit("io_error") /\ UNCHANGED << bstat, bn, count >>
  /\ UNCHANGED << queueVars, single, line, out, term >>

AllRead ==
  /\ rpc = "block" /\ line >= Lines
  /\ Exit("good")
  /\ UNCHANGED << queueVars, single, line, bstat, bn, count, out, term >>

StartWait ==
  /\ rpc = "top" /\ bstat[bn].ready
  /\ req_wait(bstat[bn].id)
  /\ rpc' = "wait"
  /\ UNCHANGED << single, line, bstat, bn, count, out, term, result >>

NotReady ==
  /\ rpc = "top" /\ ~bstat[bn].ready
  /\ rpc' = "enter"
  /\ bn' = Toggle(bn, single)
  /\ UNCHANGED << queueVars, single, line, bstat, count, out, term, result >>

\* dev_req_wait has returned: output_data, or the end of the process.
Waited ==
  /\ rpc = "wait" /\ Idle
  /\ \/ /\ ret.status = "good"
        /\ out' = Append(out, ret.got)
        /\ rpc' = IF bstat[bn].finished THEN "block" ELSE "enter"
        /\ bn' = Toggle(bn, single /\ ~bstat[bn].finished)
        /\ UNCHANGED result
     \/ /\ ret.status # "good"
        /\ Exit(ret.status)
        /\ UNCHANGED << out, bn >>
  /\ UNCHANGED << queueVars, single, line, bstat, count, term >>

Last  == line + LinesPerBuffer >= Lines
Wants == line < Lines /\ count < MaxBuffers

\* Mutant: only the last buffer of the image finishes a block.
BufferEnteredLast ==
  [bstat EXCEPT ![bn].ready = TRUE, ![bn].finished = Last \/ bstat[bn].finished]

\* The last lines, or the last buffer of the block.
BufferEntered ==
  [bstat EXCEPT ![bn].ready = TRUE,
                ![bn].finished = Last \/ count + 1 >= MaxBuffers \/ bstat[bn].finished]

\* SIGTERM is blocked while dev_read_req_enter runs.
StartEnter ==
  /\ rpc = "enter" /\ Wants
  /\ bstat' = BufferEntered
  /\ line' = line + (IF Last THEN Lines - line ELSE LinesPerBuffer)
  /\ count' = count + 1
  /\ req_enter(line + 1) \/ req_enter_no_mem(line + 1)
  /\ rpc' = "entering"
  /\ UNCHANGED << single, bn, out, term, result >>

Entered ==
  /\ rpc = "entering" /\ Idle
  /\ \/ /\ ret.status = "good"
        /\ bstat' = [bstat EXCEPT ![bn].id = fn.id]
        /\ rpc' = "top" /\ bn' = Toggle(bn, ~single)
        /\ UNCHANGED result
     \/ /\ ret.status # "good"
        /\ Exit(ret.status)
        /\ UNCHANGED << bstat, bn >>
  /\ UNCHANGED << queueVars, single, line, count, out, term >>

NothingToEnter ==
  /\ rpc = "enter" /\ ~Wants
  /\ rpc' = "top" /\ bn' = Toggle(bn, ~single)
  /\ UNCHANGED << queueVars, single, line, bstat, count, out, term, result >>

-------------------------------------------------------------------------------
\* do_stop: sanei_thread_kill.
Kill == /\ term = "no" /\ rpc # "exited"
        /\ term' = "sent"
        /\ UNCHANGED << queueVars, single, line, bstat, bn, count, rpc, out, result >>

sigterm_handler ==
  /\ term = "sent" /\ rpc \notin {"exited", "flush", "entering"}
  /\ term' = "caught" /\ rpc' = "flush"
  /\ flush_all
  /\ UNCHANGED << single, line, bstat, bn, count, out, result >>

\* _exit (SANE_STATUS_GOOD)
HandlerExits ==
  /\ rpc = "flush" /\ queue = << >>
  /\ Exit("killed")
  /\ UNCHANGED << queueVars, single, line, bstat, bn, count, out, term >>

Terminated == rpc = "exited" /\ driver = << >> /\ UNCHANGED vars

Process == \/ BlockStart \/ AllRead \/ StartWait \/ NotReady \/ Waited
           \/ StartEnter \/ Entered \/ NothingToEnter \/ HandlerExits

InQueue == rpc # "exited" /\ QueueStep /\ UNCHANGED reader

Next == \/ Process \/ InQueue
        \/ DeviceAnswers /\ UNCHANGED reader
        \/ Kill \/ sigterm_handler \/ Terminated

(***************************************************************************)
(* The process runs, the driver returns from what it is asked, the scanner *)
(* executes its commands, and a signal that is not blocked is delivered.   *)
(***************************************************************************)
Spec == /\ ReaderInit /\ [][Next]_vars
        /\ WF_vars(Process)
        /\ WF_vars(rpc # "exited" /\ UNCHANGED reader
                   /\ (QueueStep /\ ~WaitInterrupted))
        /\ WF_vars(DeviceAnswers /\ UNCHANGED reader)
        /\ SF_vars(sigterm_handler)

-------------------------------------------------------------------------------
(* Properties.                                                             *)

(***************************************************************************)
(* The assertion of sanei_scsi_req_wait: the buffer that reader_process is *)
(* about to wait for is the head of the queue, never one waited for        *)
(* already whose request has gone back to the free list.                   *)
(***************************************************************************)
WaitsForHead == rpc = "top" /\ bstat[bn].ready
                  => queue # << >> /\ bstat[bn].id = Head(queue)

(***************************************************************************)
(* sg_queue_used is the number of commands that the driver has and nobody  *)
(* has waited for, so that commands keep flowing to the driver and never   *)
(* more than it takes.  Upset: version 3 refuses a command or puts it off  *)
(* for good, or version 2 is interrupted waiting for one put off for good. *)
(***************************************************************************)
Upset == IF sg = 3 THEN mishaps # {} ELSE {"again", "interrupt"} \subseteq mishaps
DriverHas == { i \in DOMAIN queue : req[queue[i]].running /\ ~req[queue[i]].done }
UsedIsExact == ~Upset => used = Cardinality(DriverHas) /\ used <= max

(***************************************************************************)
(* The scanner executes the commands in the order in which they were       *)
(* entered and none of them twice, whatever the driver refuses meanwhile   *)
(* and however often issue() comes back to them.                           *)
(***************************************************************************)
RunsInOrder == \A i, j \in DOMAIN ran : i < j => ran[i] < ran[j]

(***************************************************************************)
(* What reader_process writes to the pipe are the lines of the image in    *)
(* order, none missing, all of them when it ends with SANE_STATUS_GOOD:    *)
(* every buffer holds the data of the command that was entered for it.     *)
(***************************************************************************)
Buffers == (Lines + LinesPerBuffer - 1) \div LinesPerBuffer
ImageInOrder ==
  ~Upset =>
    /\ Len(out) <= Buffers
    /\ \A i \in DOMAIN out : out[i] = (i - 1) * LinesPerBuffer + 1
    /\ result = "good" => Len(out) = Buffers

(***************************************************************************)
(* A reader ended by SIGTERM leaves no command with the driver and no      *)
(* answer to be taken for that of the next command, unless an answer did   *)
(* not come in time.                                                       *)
(***************************************************************************)
NothingPending ==
  result = "killed" /\ mishaps \cap {"timeout", "interrupt"} = {}
    => driver = << >> /\ answers = << >>

(***************************************************************************)
(* do_stop waits for the reader it has killed, and is not kept waiting.    *)
(***************************************************************************)
KillEnds == (term = "sent") ~> (rpc = "exited")

(***************************************************************************)
(* The reader ends by itself.  Only with version 2 it may hang, in select, *)
(* waiting for the answer to a command that the driver never took.         *)
(***************************************************************************)
ReaderEnds == <>(rpc = "exited" \/ (sg = 2 /\ "again" \in mishaps))
===============================================================================
