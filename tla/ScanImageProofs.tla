---------------------------- MODULE ScanImageProofs ----------------------------
(***************************************************************************)
(* Proofs about scanimage and the test backend, for every size of a frame, *)
(* number of pages, of readers and of signals, and every capacity of the   *)
(* pipe: the safety properties of ScanImage, all from one inductive        *)
(* invariant.                                                              *)
(***************************************************************************)
EXTENDS ScanImage, TLAPS

M == at["main"]
H == at["hand"]

Finishing == {"finish", "close", "kill", "wait", "finished"}
Closing   == {"close", "kill", "wait", "finished"}
Starting  == {"start2", "start3", "start4", "start5", "start6"}

MainLabels == {"begin", "start", "started", "read", "read2", "read3", "readDone", "eof",
               "pageEnd", "cancel", "cancelled", "exited"} \cup Starting \cup Finishing
HandLabels == {"none", "cancel", "cancelled"} \cup Finishing
Stati      == {"good", "inval", "no_docs", "io_error", "no_mem", "eof", "cancelled"}

\* In the sane_read that ends a frame; in the last sane_cancel, or behind it.
AtEof   == M = "eof" \/ (M \in Finishing /\ then["main"] = "eof")
Leaving == \/ M \in {"cancel", "cancelled", "exited"}
           \/ M \in Finishing /\ then["main"] = "cancelled"

\* sane_start has made the reader and succeeded, or will unless it is cancelled.
Started   == M = "started" /\ status = "good"
Reading   == M \in {"start5", "start6", "read", "read2", "readDone"} \/ Started
InFrame   == Reading \/ M \in {"start4", "read3"} \/ AtEof
Cancels   == H \in Finishing \cup {"cancelled"}
Clean     == mishaps \cap {"reader", "int"} = {}

-------------------------------------------------------------------------------
(* The inductive invariant.                                                *)

KidType == [st : {"none", "born", "writing", "sleep", "dead", "gone"},
            wrote : 0..Total, taken : 0..Total, fd : BOOLEAN, term : BOOLEAN,
            int : BOOLEAN, scan : BOOLEAN, first : BOOLEAN]
DevType == [scanning : BOOLEAN, cancelled : BOOLEAN, eof : BOOLEAN, bytes : 0..Total,
            pass : 0..2, scans : Nat, pid : Pid \cup {-1}, pipe : 0..MaxKids,
            wfd : 0..MaxKids]

Types ==
  /\ three \in BOOLEAN /\ adf \in BOOLEAN
  /\ dev \in DevType /\ kids \in [Pid -> KidType] /\ nk \in 0..MaxKids
  /\ at = [c \in Ctx |-> at[c]] /\ M \in MainLabels /\ H \in HandLabels
  /\ then \in [Ctx -> {"none", "eof", "cancelled"}]
  /\ got \in -1..Total /\ status \in Stati /\ mishaps \subseteq {"reader", "int", "file"}
  /\ n \in 1..(Batch + 1) /\ (~Leaving => n <= Batch)
  /\ first_frame \in BOOLEAN /\ last \in BOOLEAN /\ part \in BOOLEAN
  /\ first_time \in BOOLEAN /\ hit \in BOOLEAN /\ stopped \in BOOLEAN /\ aborted \in BOOLEAN
  /\ pend \in Nat /\ nsig \in Nat

\* Who may be where, and what that says of the marks of the device.
Control ==
  /\ H \in Finishing => then["hand"] = "cancelled"
  /\ M \in Finishing => then["main"] \in {"eof", "cancelled"}
  /\ H \in Closing \cup {"cancelled"} => ~dev.scanning
  /\ M \in Closing \cup {"cancelled", "eof", "begin", "start"} => ~dev.scanning /\ ~Cancels
  /\ first_time => H = "none" /\ ~hit
  /\ aborted => M = "exited"
  /\ M \notin {"start2", "exited"} /\ (dev.scanning \/ Cancels) => ~dev.eof /\ ~dev.cancelled
  /\ M \in {"start3", "start4", "start5", "start6", "read2", "read3"} \/ Started => ~dev.eof
  /\ (M = "readDone" /\ status = "eof") \/ (M = "pageEnd" /\ status = "good") => dev.eof

\* The pid the device has, and who closes the pipe.
Pids ==
  /\ dev.pid # -1 => dev.pid = nk /\ kids[dev.pid].st \notin {"none", "gone"}
  /\ dev.eof \/ M \in {"begin", "start", "start2", "start3", "start4", "start5"}
       => dev.pid = -1
  /\ \A k \in Pid : k > nk \/ (M = "start4" /\ k = nk) => kids[k].st = "none"
  /\ M \in {"start4", "start5", "start6"} => nk # 0
  /\ M = "start5" => kids[nk].st \notin {"none", "gone"}
  /\ M = "kill" \/ H = "kill" => dev.pid # -1
  /\ M \in {"finished", "cancelled", "eof"} \/ H \in {"finished", "cancelled"}
       => dev.pid = -1
  /\ M \in {"kill", "wait", "finished", "eof"} \/ H \in {"kill", "wait", "finished"}
       => dev.pipe = 0

\* Nothing lives but the reader of the pass that is to be cancelled.
Orphans ==
  ~hit /\ ~aborted =>
          /\ \A k \in Pid : Live(k) => k = dev.pid \/ (M = "start5" /\ k = nk)
          /\ dev.pid # -1 => \/ dev.scanning /\ ~dev.cancelled
                             \/ M \in Closing \/ H \in Closing
          /\ M \in Starting => H = "none" /\ dev.scanning
          /\ M \in Starting \ {"start2"} => ~dev.cancelled
          /\ M = "exited" => dev.pid = -1

\* What has been taken from the pipe.
Bytes ==
  /\ \A k \in Pid : kids[k].taken <= kids[k].wrote
  /\ Reading /\ dev.pipe # 0 => dev.pipe = nk /\ kids[dev.pipe].taken = dev.bytes
  /\ M = "start4" /\ dev.pipe # 0 => dev.pipe = nk /\ dev.wfd = nk
  /\ M \in {"start3", "start4", "start5", "start6"} \/ Started => dev.bytes = 0
  /\ M = "read3" /\ dev.pipe # 0
       => dev.pipe = nk /\ got >= 0 /\ kids[dev.pipe].taken = dev.bytes + got
  /\ M = "read3" \/ AtEof => dev.bytes + got <= Total
  /\ AtEof => got >= 0
  /\ M = "readDone" /\ status = "good" => got > 0

\* What the page will have when the read that is under way has been added.
Coming == IF M = "readDone" /\ status = "good" THEN img + got ELSE img

Image ==
  /\ img \in 0..(nk * Total)
  /\ InFrame => nk # 0 /\ Coming <= (nk - 1) * Total + dev.bytes
  /\ pages \in Seq(0..(MaxKids * Total))

\* Without a mishap the reader lives as long as its pipe is open.
Writer ==
  Clean =>
    /\ (Reading \/ M = "read3") /\ dev.pipe # 0
                      => /\ Live(dev.pipe) /\ kids[dev.pipe].fd
                         /\ ~kids[dev.pipe].term /\ ~kids[dev.pipe].int
    /\ M = "read3" \/ AtEof => got # 0

\* The bytes of the frames in front of this one.
Frames == IF dev.pass = 0 THEN 0 ELSE IF dev.pass = 1 THEN Total ELSE 2 * Total

InOrder == Coming = Frames + dev.bytes /\ last = (~three \/ dev.pass = 2)

Frame ==
  Clean =>
    /\ ~three => dev.pass = 0
    /\ M = "begin" => dev.pass = 0
    /\ M = "start" => img = Frames
    /\ (M \in Starting \/ Started) /\ dev.scanning => img = Frames
    /\ M \in {"read", "readDone"} /\ dev.scanning => InOrder
    /\ (M \in {"read2", "read3"} \/ AtEof) /\ ~dev.cancelled => InOrder
    /\ AtEof => got + dev.bytes = Total
    /\ M \in {"read", "readDone"} /\ dev.eof /\ ~dev.cancelled =>
         IF last THEN dev.pass = 0 /\ Coming = PageBytes ELSE Coming = Frames
    /\ M = "readDone" /\ status = "eof" => ~dev.cancelled
    /\ M = "pageEnd" /\ status = "good" => dev.pass = 0 /\ img = PageBytes
    /\ \A i \in DOMAIN pages : pages[i] = PageBytes

\* What a cancel from the handler leaves behind.
Stopped ==
  Clean /\ stopped =>
    /\ ~dev.scanning
    /\ M \notin {"begin", "start"}
    /\ ~(M = "readDone" /\ status = "eof")
    /\ ~(M = "pageEnd" /\ status = "good")
    /\ dev.eof \/ AtEof \/ M \in {"read2", "read3"} => dev.cancelled

PartFile ==
  part /\ "file" \notin mishaps =>
    /\ M # "begin"
    /\ M \in {"start", "started"} \cup Starting => ~first_frame
    /\ Leaving => aborted

IInv == /\ Types /\ Control /\ Pids /\ Orphans /\ Bytes /\ Image
        /\ Writer /\ Frame /\ Stopped /\ PartFile

USE DEF Finishing, Closing, Starting, AtEof, Leaving, Started, Reading, InFrame, Cancels

-------------------------------------------------------------------------------
(* Every step keeps it.                                                    *)

LEMMA Sizes == Total \in Nat /\ Total > 0 /\ MaxKids \in Nat /\ MaxKids > 0
BY BackendAssumption

\* A page has no more than the readers have sent.
LEMMA ImageBound ==
  ASSUME IInv
  PROVE  img \in 0..(MaxKids * Total)
<1>1. nk \in Nat /\ MaxKids \in Nat /\ nk <= MaxKids /\ Total \in Nat
  BY Sizes DEF IInv, Types
<1>2. nk * Total <= MaxKids * Total
  BY <1>1
<1> QED
  BY <1>1, <1>2 DEF IInv, Image

\* sane_start refuses: a scan is under way, or the feeder is empty.
LEMMA StartRefusedKeeps ==
  ASSUME IInv, StartRefused, UNCHANGED << program, signals >>
  PROVE  IInv'
<1>1. /\ M = "start" /\ H = "none" /\ M' = "started" /\ H' = "none"
      /\ at' = [x \in Ctx |-> at'[x]]
  BY DEF IInv, Types, StartRefused, At, Goto, Returns, Ctx, M, H
<1>2. NextScan \in Nat
  BY DEF IInv, Types, DevType, NextScan
<1>3. /\ dev' \in DevType /\ dev'.scanning = dev.scanning
      /\ dev'.cancelled = dev.cancelled /\ dev'.eof = dev.eof
      /\ dev'.bytes = dev.bytes /\ dev'.pass = dev.pass /\ dev'.pid = dev.pid
      /\ dev'.pipe = dev.pipe /\ dev'.wfd = dev.wfd
  BY <1>1, <1>2 DEF IInv, Types, DevType, StartRefused
<1>4. /\ UNCHANGED << three, adf, kids, nk, then, got, mishaps, n, first_frame,
                     last, img, part, pages, first_time, pend, nsig, hit,
                     stopped, aborted >>
      /\ status' \in {"inval", "no_docs"}
  BY <1>1, <1>2 DEF StartRefused, mode, program, signals, Returns
<1>5. Types'
  BY <1>1, <1>2, <1>3, <1>4 DEF IInv, Types, MainLabels, HandLabels, Stati
<1>6. Control' /\ Pids' /\ Orphans' /\ Stopped' /\ PartFile'
  BY <1>1, <1>2, <1>3, <1>4
     DEF IInv, Control, Pids, Orphans, Live, Pid, Writer, Stopped, Clean, Types, PartFile
<1>7. Bytes' /\ Image' /\ Writer' /\ Frame'
  BY <1>1, <1>2, <1>3, <1>4
     DEF IInv, Control, Pids, Bytes, Types, Image, Coming, Writer, Live, Clean, Frame,
         InOrder, Frames, PageBytes
<1> QED
  BY <1>5, <1>6, <1>7 DEF IInv

\* sane_start marks the device.
LEMMA StartScanningKeeps ==
  ASSUME IInv, StartScanning, UNCHANGED << program, signals >>
  PROVE  IInv'
<1>1. /\ M = "start" /\ H = "none" /\ M' = "start2" /\ H' = "none"
      /\ at' = [x \in Ctx |-> at'[x]]
  BY DEF IInv, Types, StartScanning, At, Goto, Returns, Ctx, M, H
<1>2. NextScan \in Nat
  BY DEF IInv, Types, DevType, NextScan
<1>3. /\ dev' \in DevType /\ dev'.scanning = TRUE
      /\ dev'.cancelled = dev.cancelled /\ dev'.eof = dev.eof
      /\ dev'.bytes = dev.bytes /\ dev'.pass = dev.pass /\ dev'.pid = dev.pid
      /\ dev'.pipe = dev.pipe /\ dev'.wfd = dev.wfd
  BY <1>1, <1>2 DEF IInv, Types, DevType, StartScanning
<1>4. /\ UNCHANGED << three, adf, kids, nk, then, got, status, mishaps, n,
                     first_frame, last, img, part, pages, first_time, pend,
                     nsig, hit, stopped, aborted >>
  BY <1>1, <1>2 DEF StartScanning, mode, program, signals, Returns
<1>5. Types'
  BY <1>1, <1>2, <1>3, <1>4 DEF IInv, Types, MainLabels, HandLabels, Stati
<1>6. Control' /\ Pids' /\ Orphans' /\ Stopped' /\ PartFile'
  BY <1>1, <1>2, <1>3, <1>4
     DEF IInv, Control, Pids, Orphans, Live, Pid, Writer, Stopped, Clean, Types, PartFile
<1>7. Bytes' /\ Image' /\ Writer' /\ Frame'
  BY <1>1, <1>2, <1>3, <1>4
     DEF IInv, Control, Pids, Bytes, Types, Image, Coming, Writer, Live, Clean, Frame,
         InOrder, Frames, PageBytes
<1> QED
  BY <1>5, <1>6, <1>7 DEF IInv

\* sane_start forgets the last scan, a cancel by the handler included.
LEMMA StartResetKeeps ==
  ASSUME IInv, StartReset, UNCHANGED << program, signals >>
  PROVE  IInv'
<1>1. /\ M = "start2" /\ H = "none" /\ M' = "start3" /\ H' = "none"
      /\ at' = [x \in Ctx |-> at'[x]]
  BY DEF IInv, Types, StartReset, At, Goto, Returns, Ctx, M, H
<1>2. 0 \in 0..Total
  BY Sizes
<1>3. /\ dev' \in DevType /\ dev'.scanning = dev.scanning
      /\ dev'.cancelled = FALSE /\ dev'.eof = FALSE /\ dev'.bytes = 0
      /\ dev'.pass = dev.pass /\ dev'.pid = dev.pid /\ dev'.pipe = dev.pipe
      /\ dev'.wfd = dev.wfd
  BY <1>1, <1>2 DEF IInv, Types, DevType, StartReset
<1>4. /\ UNCHANGED << three, adf, kids, nk, then, got, status, mishaps, n,
                     first_frame, last, img, part, pages, first_time, pend,
                     nsig, hit, stopped, aborted >>
  BY <1>1, <1>2 DEF StartReset, mode, program, signals, Returns
<1>5. Types'
  BY <1>1, <1>2, <1>3, <1>4 DEF IInv, Types, MainLabels, HandLabels, Stati
<1>6. Control' /\ Pids' /\ Orphans' /\ Stopped' /\ PartFile'
  BY <1>1, <1>2, <1>3, <1>4
     DEF IInv, Control, Pids, Orphans, Live, Pid, Writer, Stopped, Clean, Types, PartFile
<1>7. Bytes' /\ Image' /\ Writer' /\ Frame'
  BY <1>1, <1>2, <1>3, <1>4
     DEF IInv, Control, Pids, Bytes, Types, Image, Coming, Writer, Live, Clean, Frame,
         InOrder, Frames, PageBytes
<1> QED
  BY <1>5, <1>6, <1>7 DEF IInv

\* The pipe is there: the bytes of a further reader may come.
LEMMA StartPipeMadeKeeps ==
  ASSUME IInv, StartPipe, UNCHANGED << program, signals >>, M' = "start4"
  PROVE  IInv'
<1>1. /\ M = "start3" /\ H = "none" /\ M' = "start4" /\ H' = "none"
      /\ at' = [x \in Ctx |-> at'[x]]
  BY DEF IInv, Types, StartPipe, At, Goto, Returns, Ctx, M, H
<1>2. nk \in Nat /\ nk + 1 \in Pid /\ nk + 1 \in 0..MaxKids
  BY <1>1, Sizes DEF IInv, Types, StartPipe, Returns, Goto, Ctx, M, Pid
<1>3. /\ nk' = nk + 1 /\ dev' = [dev EXCEPT !.pipe = nk + 1, !.wfd = nk + 1]
      /\ UNCHANGED << three, adf, kids, then, got, status, mishaps, n,
                     first_frame, last, img, part, pages, first_time, pend,
                     nsig, hit, stopped, aborted >>
  <2>1. ~Returns("io_error", "started")
    <3>1. at' = [at EXCEPT !["main"] = "started"] => at'["main"] = "started"
      BY DEF IInv, Types, Ctx
    <3> QED
      BY <1>1, <3>1 DEF Goto, Returns, M
  <2> QED
    BY <2>1 DEF StartPipe, mode, program, signals
<1>4. /\ dev' \in DevType /\ dev'.scanning = dev.scanning
      /\ dev'.cancelled = dev.cancelled /\ dev'.eof = dev.eof
      /\ dev'.bytes = dev.bytes /\ dev'.pass = dev.pass /\ dev'.pid = dev.pid
      /\ dev'.pipe = nk + 1 /\ dev'.wfd = nk + 1
  BY <1>2, <1>3 DEF IInv, Types, DevType
<1>5. Types'
  BY <1>1, <1>2, <1>3, <1>4 DEF IInv, Types, MainLabels, HandLabels, Stati, Pid
<1>6. Control' /\ Pids' /\ Orphans' /\ Stopped' /\ PartFile'
  BY <1>1, <1>2, <1>3, <1>4
     DEF IInv, Control, Pids, Types, Pid, Orphans, Live, Writer, Stopped, Clean, PartFile
<1>7. Bytes' /\ Writer' /\ Frame'
  BY <1>1, <1>2, <1>3, <1>4
     DEF IInv, Control, Pids, Bytes, Pid, Writer, Live, Clean, Types, Frame, InOrder,
         Coming, Frames, PageBytes
<1>8. Image'
  <2> DEFINE t == nk * Total
  <2>1. t \in Nat /\ nk' * Total = t + Total /\ (nk' - 1) * Total = t
    BY <1>1, <1>2, <1>3, <1>4, Sizes
  <2>2. img \in 0..t /\ dev.bytes = 0
    BY <1>1 DEF IInv, Image, Bytes
  <2>3. img' \in 0..(nk' * Total)
    BY <2>1, <2>2, <1>1, <1>2, <1>3, <1>4, Sizes
  <2>4. Coming' <= (nk' - 1) * Total + dev'.bytes
    BY <2>1, <2>2, <1>1, <1>2, <1>3, <1>4, Sizes DEF Coming
  <2> QED
    BY <2>3, <2>4, <1>1, <1>2, <1>3, <1>4 DEF IInv, Image
<1> QED
  BY <1>5, <1>6, <1>7, <1>8 DEF IInv

LEMMA StartPipeFailedKeeps ==
  ASSUME IInv, StartPipe, UNCHANGED << program, signals >>, M' = "started"
  PROVE  IInv'
<1>1. /\ M = "start3" /\ H = "none" /\ M' = "started" /\ H' = "none"
      /\ at' = [x \in Ctx |-> at'[x]]
  BY DEF IInv, Types, StartPipe, At, Goto, Returns, Ctx, M, H
<1>2. /\ UNCHANGED << three, adf, dev, kids, nk, then, got, mishaps, n,
                     first_frame, last, img, part, pages, first_time, pend,
                     nsig, hit, stopped, aborted >>
      /\ status' = "io_error"
  BY <1>1 DEF StartPipe, mode, program, signals, IInv, Types, Goto, Returns, Ctx, M
<1>3. Types'
  BY <1>1, <1>2 DEF IInv, Types, MainLabels, HandLabels, Stati
<1>4. Control' /\ Pids' /\ Orphans' /\ Stopped' /\ PartFile'
  BY <1>1, <1>2
     DEF IInv, Control, Pids, Orphans, Live, Pid, Writer, Stopped, Clean, Types, PartFile
<1>5. Bytes' /\ Image' /\ Writer' /\ Frame'
  BY <1>1, <1>2
     DEF IInv, Control, Pids, Bytes, Types, Image, Coming, Writer, Live, Clean, Frame,
         InOrder, Frames, PageBytes
<1> QED
  BY <1>3, <1>4, <1>5 DEF IInv

\* The device gets the pid.
LEMMA StartForkedKeeps ==
  ASSUME IInv, StartForked, UNCHANGED << program, signals >>
  PROVE  IInv'
<1>1. /\ M = "start5" /\ H = "none" /\ M' = "start6" /\ H' = "none"
      /\ at' = [x \in Ctx |-> at'[x]]
  BY DEF IInv, Types, StartForked, At, Goto, Returns, Ctx, M, H
<1>2. nk \in Pid /\ nk # -1 /\ dev.pid = -1 /\ kids[nk].st \notin {"none", "gone"}
  BY <1>1 DEF IInv, Types, Pids, Pid
<1>3. /\ dev' \in DevType /\ dev'.scanning = dev.scanning
      /\ dev'.cancelled = dev.cancelled /\ dev'.eof = dev.eof
      /\ dev'.bytes = dev.bytes /\ dev'.pass = dev.pass /\ dev'.pid = nk
      /\ dev'.pipe = dev.pipe /\ dev'.wfd = dev.wfd
  BY <1>1, <1>2 DEF IInv, Types, DevType, StartForked
<1>4. /\ UNCHANGED << three, adf, kids, nk, then, got, status, mishaps, n,
                     first_frame, last, img, part, pages, first_time, pend,
                     nsig, hit, stopped, aborted >>
  BY <1>1, <1>2 DEF StartForked, mode, program, signals, Returns
<1>5. Types'
  BY <1>1, <1>2, <1>3, <1>4 DEF IInv, Types, MainLabels, HandLabels, Stati
<1>6. Control' /\ Pids' /\ Orphans' /\ Stopped' /\ PartFile'
  BY <1>1, <1>2, <1>3, <1>4
     DEF IInv, Control, Pids, Orphans, Live, Pid, Writer, Stopped, Clean, Types, PartFile
<1>7. Bytes' /\ Image' /\ Writer' /\ Frame'
  BY <1>1, <1>2, <1>3, <1>4
     DEF IInv, Control, Pids, Bytes, Types, Image, Coming, Writer, Live, Clean, Frame,
         InOrder, Frames, PageBytes
<1> QED
  BY <1>5, <1>6, <1>7 DEF IInv

LEMMA StartDoneKeeps ==
  ASSUME IInv, StartDone, UNCHANGED << program, signals >>
  PROVE  IInv'
<1>1. /\ M = "start6" /\ H = "none" /\ M' = "started" /\ H' = "none"
      /\ at' = [x \in Ctx |-> at'[x]]
  BY DEF IInv, Types, StartDone, At, Goto, Returns, Ctx, M, H
<1>2. 0 \in 0..MaxKids
  BY Sizes
<1>3. /\ dev' \in DevType /\ dev'.scanning = dev.scanning
      /\ dev'.cancelled = dev.cancelled /\ dev'.eof = dev.eof
      /\ dev'.bytes = dev.bytes /\ dev'.pass = dev.pass /\ dev'.pid = dev.pid
      /\ dev'.pipe = dev.pipe /\ dev'.wfd = 0
  BY <1>1, <1>2 DEF IInv, Types, DevType, StartDone
<1>4. /\ UNCHANGED << three, adf, kids, nk, then, got, mishaps, n, first_frame,
                     last, img, part, pages, first_time, pend, nsig, hit,
                     stopped, aborted >>
      /\ status' = "good"
  BY <1>1, <1>2 DEF StartDone, mode, program, signals, Returns
<1>5. Types'
  BY <1>1, <1>2, <1>3, <1>4 DEF IInv, Types, MainLabels, HandLabels, Stati
<1>6. Control' /\ Pids' /\ Orphans' /\ Stopped' /\ PartFile'
  BY <1>1, <1>2, <1>3, <1>4
     DEF IInv, Control, Pids, Orphans, Live, Pid, Writer, Stopped, Clean, Types, PartFile
<1>7. Bytes' /\ Image' /\ Writer' /\ Frame'
  BY <1>1, <1>2, <1>3, <1>4
     DEF IInv, Control, Pids, Bytes, Types, Image, Coming, Writer, Live, Clean, Frame,
         InOrder, Frames, PageBytes
<1> QED
  BY <1>5, <1>6, <1>7 DEF IInv

\* The reader is born; only start5 knows of it.
LEMMA StartForkMadeKeeps ==
  ASSUME IInv, StartFork(first_time), UNCHANGED << program, signals >>, M' = "start5"
  PROVE  IInv'
<1>1. /\ M = "start4" /\ H = "none" /\ M' = "start5" /\ H' = "none"
      /\ at' = [x \in Ctx |-> at'[x]]
  BY DEF IInv, Types, StartFork, At, Goto, Returns, Ctx, M, H
<1>2. nk \in Pid
  BY <1>1 DEF IInv, Types, Pids, Pid
<1>3. /\ kids' \in [Pid -> KidType] /\ kids'[nk].st = "born"
      /\ kids'[nk].taken = 0 /\ kids'[nk].wrote = 0
      /\ kids'[nk].fd = (dev.wfd # 0) /\ kids'[nk].term = FALSE
      /\ kids'[nk].int = FALSE
      /\ \A k \in Pid : k # nk => kids'[k] = kids[k]
  <2> DEFINE kid == [NoKid EXCEPT !.st = "born", !.fd = dev.wfd # 0, !.first = first_time,
                                  !.scan = dev.scanning /\ ~dev.cancelled]
  <2>1. kids' = [kids EXCEPT ![nk] = kid]
    BY <1>1 DEF StartFork, Goto, Returns, IInv, Types, Ctx, M
  <2>2. /\ kid.st = "born" /\ kid.taken = 0 /\ kid.wrote = 0 /\ kid.fd = (dev.wfd # 0)
        /\ kid.term = FALSE /\ kid.int = FALSE
    BY DEF NoKid
  <2>3. kid \in KidType
    <3>1. first_time \in BOOLEAN /\ 0 \in 0..Total
      BY Sizes DEF IInv, Types
    <3> QED
      BY <3>1 DEF NoKid, KidType
  <2> HIDE DEF kid
  <2> QED
    BY <1>2, <2>1, <2>2, <2>3 DEF IInv, Types
<1>4. /\ UNCHANGED << three, adf, dev, nk, then, got, status, mishaps, n,
                     first_frame, last, img, part, pages, first_time, pend,
                     nsig, hit, stopped, aborted >>
  BY <1>1, <1>2, <1>3
     DEF StartFork, mode, program, signals, IInv, Types, Goto, Returns, Ctx, M
<1>5. Types'
  BY <1>1, <1>2, <1>3, <1>4 DEF IInv, Types, MainLabels, HandLabels, Stati
<1>6. Control' /\ Pids' /\ Orphans' /\ Stopped' /\ PartFile'
  BY <1>1, <1>2, <1>3, <1>4
     DEF IInv, Control, Pids, Types, Pid, Orphans, Live, Writer, Stopped, Clean, PartFile
<1>7. Bytes'
  BY <1>1, <1>2, <1>3, <1>4 DEF IInv, Control, Pids, Bytes, Types, Pid
<1>8. Image'
  BY <1>1, <1>2, <1>3, <1>4 DEF IInv, Types, Bytes, Image, Coming
<1>9. Writer'
  BY <1>1, <1>2, <1>3, <1>4 DEF IInv, Control, Pids, Bytes, Writer, Live, Clean, Pid
<1>10. Frame'
  BY <1>1, <1>2, <1>3, <1>4
     DEF IInv, Types, Control, Bytes, Writer, Frame, InOrder, Coming, Clean, Frames,
         PageBytes
<1> QED
  BY <1>5, <1>6, <1>7, <1>8, <1>9, <1>10 DEF IInv

LEMMA StartForkFailedKeeps ==
  ASSUME IInv, StartFork(first_time), UNCHANGED << program, signals >>, M' = "started"
  PROVE  IInv'
<1>1. /\ M = "start4" /\ H = "none" /\ M' = "started" /\ H' = "none"
      /\ at' = [x \in Ctx |-> at'[x]]
  BY DEF IInv, Types, StartFork, At, Goto, Returns, Ctx, M, H
<1>2. /\ dev' \in DevType /\ dev'.scanning = dev.scanning
      /\ dev'.cancelled = dev.cancelled /\ dev'.eof = dev.eof
      /\ dev'.bytes = dev.bytes /\ dev'.pass = dev.pass /\ dev'.pid = -1
      /\ dev'.pipe = dev.pipe /\ dev'.wfd = dev.wfd
  BY <1>1 DEF IInv, Types, DevType, StartFork, Goto, Returns, Ctx, M
<1>3. /\ UNCHANGED << three, adf, kids, nk, then, got, mishaps, n, first_frame,
                     last, img, part, pages, first_time, pend, nsig, hit,
                     stopped, aborted >>
      /\ status' = "no_mem"
  BY <1>1 DEF StartFork, mode, program, signals, IInv, Types, Goto, Returns, Ctx, M
<1>4. Types'
  BY <1>1, <1>2, <1>3 DEF IInv, Types, MainLabels, HandLabels, Stati
<1>5. Control' /\ Pids' /\ Orphans' /\ Stopped' /\ PartFile'
  BY <1>1, <1>2, <1>3
     DEF IInv, Control, Pids, Orphans, Live, Pid, Writer, Stopped, Clean, Types, PartFile
<1>6. Bytes' /\ Image' /\ Writer' /\ Frame'
  BY <1>1, <1>2, <1>3
     DEF IInv, Control, Pids, Bytes, Types, Image, Coming, Writer, Live, Clean, Frame,
         InOrder, Frames, PageBytes
<1> QED
  BY <1>4, <1>5, <1>6 DEF IInv

LEMMA BeginPageKeeps ==
  ASSUME IInv, BeginPage
  PROVE  IInv'
<1>1. /\ M = "begin" /\ H = "none" /\ M' = "start" /\ H' = "none"
      /\ at' = [x \in Ctx |-> at'[x]]
  BY DEF IInv, Types, BeginPage, At, Goto, Returns, Ctx, M, H, Same
<1>2. /\ UNCHANGED << three, adf, dev, kids, nk, then, status, mishaps, n, last,
                     part, pages, first_time, pend, nsig, hit, stopped, aborted >>
      /\ first_frame' = TRUE /\ img' = 0 /\ got' = 0
  BY <1>1, Sizes DEF BeginPage, mode, program, signals, Returns, Same
<1>3. Types'
  BY <1>1, <1>2, Sizes DEF IInv, Types, MainLabels, HandLabels, Stati
<1>4. Control' /\ Pids' /\ Orphans' /\ Stopped' /\ PartFile'
  BY <1>1, <1>2
     DEF IInv, Control, Pids, Orphans, Live, Pid, Writer, Stopped, Clean, Types, PartFile
<1>5. Bytes' /\ Image' /\ Writer' /\ Frame'
  BY <1>1, <1>2, Sizes
     DEF IInv, Control, Pids, Bytes, Types, Image, Coming, Writer, Live, Clean, Frame,
         InOrder, Frames, PageBytes
<1> QED
  BY <1>3, <1>4, <1>5 DEF IInv

LEMMA StartFailedFirstKeeps ==
  ASSUME IInv, StartFailed, M' = "cancel"
  PROVE  IInv'
<1>1. /\ M = "started" /\ H = "none" /\ M' = "cancel" /\ H' = "none"
      /\ at' = [x \in Ctx |-> at'[x]]
  BY DEF IInv, Types, StartFailed, At, Goto, Returns, Ctx, M, H, Same
<1>2. /\ UNCHANGED << three, adf, dev, kids, nk, then, status, mishaps, n,
                     first_frame, last, img, part, pages, first_time, pend,
                     nsig, hit, stopped, aborted >>
      /\ got' = 0 /\ first_frame /\ status # "good"
  BY <1>1
     DEF StartFailed, mode, program, signals, IInv, Types, Goto, Returns, Ctx, M, Same
<1>3. Types'
  BY <1>1, <1>2, Sizes DEF IInv, Types, MainLabels, HandLabels, Stati
<1>4. Control' /\ Pids' /\ Orphans' /\ Stopped' /\ PartFile'
  BY <1>1, <1>2
     DEF IInv, Control, Pids, Orphans, Live, Pid, Writer, Stopped, Clean, Types, PartFile
<1>5. Bytes' /\ Image' /\ Writer' /\ Frame'
  BY <1>1, <1>2
     DEF IInv, Control, Pids, Bytes, Types, Image, Coming, Writer, Live, Clean, Frame,
         InOrder, Frames, PageBytes
<1> QED
  BY <1>3, <1>4, <1>5 DEF IInv

LEMMA StartFailedLaterKeeps ==
  ASSUME IInv, StartFailed, M' = "pageEnd"
  PROVE  IInv'
<1>1. /\ M = "started" /\ H = "none" /\ M' = "pageEnd" /\ H' = "none"
      /\ at' = [x \in Ctx |-> at'[x]]
  BY DEF IInv, Types, StartFailed, At, Goto, Returns, Ctx, M, H, Same
<1>2. /\ UNCHANGED << three, adf, dev, kids, nk, then, status, mishaps, n,
                     first_frame, last, img, part, pages, first_time, pend,
                     nsig, hit, stopped, aborted >>
      /\ got' = 0 /\ status # "good"
  BY <1>1
     DEF StartFailed, mode, program, signals, IInv, Types, Goto, Returns, Ctx, M, Same
<1>3. Types'
  BY <1>1, <1>2, Sizes DEF IInv, Types, MainLabels, HandLabels, Stati
<1>4. Control' /\ Pids' /\ Orphans' /\ Stopped' /\ PartFile'
  BY <1>1, <1>2
     DEF IInv, Control, Pids, Orphans, Live, Pid, Writer, Stopped, Clean, Types, PartFile
<1>5. Bytes' /\ Image' /\ Writer' /\ Frame'
  BY <1>1, <1>2
     DEF IInv, Control, Pids, Bytes, Types, Image, Coming, Writer, Live, Clean, Frame,
         InOrder, Frames, PageBytes
<1> QED
  BY <1>3, <1>4, <1>5 DEF IInv

LEMMA StartSucceededFileKeeps ==
  ASSUME IInv, StartSucceeded, M' = "read"
  PROVE  IInv'
<1>1. /\ M = "started" /\ H = "none" /\ M' = "read" /\ H' = "none"
      /\ at' = [x \in Ctx |-> at'[x]]
  BY DEF IInv, Types, StartSucceeded, At, Goto, Returns, Ctx, M, H, Same
<1>2. (dev.pass > 1) = (dev.pass = 2)
  BY DEF IInv, Types, DevType
<1>3. /\ UNCHANGED << three, adf, dev, kids, nk, then, status, mishaps, n,
                     first_frame, img, pages, first_time, pend, nsig, hit,
                     stopped, aborted >>
      /\ got' = 0 /\ status = "good" /\ part' = TRUE
      /\ last' = (~three \/ dev.pass = 2)
  BY <1>1, <1>2
     DEF StartSucceeded, mode, program, signals, IInv, Types, Goto, Returns, Ctx, M, Same
<1>4. Types'
  BY <1>1, <1>2, <1>3, Sizes DEF IInv, Types, MainLabels, HandLabels, Stati
<1>5. Control' /\ Pids' /\ Orphans' /\ Stopped' /\ PartFile'
  BY <1>1, <1>2, <1>3
     DEF IInv, Control, Pids, Orphans, Live, Pid, Writer, Stopped, Clean, Types, PartFile
<1>6. Bytes' /\ Image' /\ Writer'
  BY <1>1, <1>2, <1>3
     DEF IInv, Control, Pids, Bytes, Types, Image, Coming, Writer, Live, Clean
<1>7. Frame'
  <2>1. Clean' = Clean /\ Frames' = Frames /\ PageBytes' = PageBytes /\ Coming' = img
    BY <1>1, <1>2, <1>3 DEF Clean, Frames, PageBytes, Coming
  <2>2. ~dev.eof /\ dev.bytes = 0
    BY <1>1, <1>2, <1>3 DEF IInv, Control, Bytes
  <2>3. ASSUME Clean, dev.scanning PROVE InOrder'
    <3>1. img = Frames /\ img \in Int
      BY <2>3, <1>1, <1>2, <1>3 DEF IInv, Frame, Image
    <3>2. Coming' = Frames' + dev'.bytes
      BY <2>1, <2>2, <3>1, <1>1, <1>2, <1>3
    <3> QED
      BY <3>2, <1>1, <1>2, <1>3 DEF InOrder
  <2> QED
    BY <2>1, <2>2, <2>3, <1>1, <1>2, <1>3 DEF IInv, Frame
<1> QED
  BY <1>4, <1>5, <1>6, <1>7 DEF IInv

LEMMA StartSucceededNotKeeps ==
  ASSUME IInv, StartSucceeded, M' = "cancel"
  PROVE  IInv'
<1>1. /\ M = "started" /\ H = "none" /\ M' = "cancel" /\ H' = "none"
      /\ at' = [x \in Ctx |-> at'[x]]
  BY DEF IInv, Types, StartSucceeded, At, Goto, Returns, Ctx, M, H, Same, Fails
<1>2. /\ UNCHANGED << three, adf, dev, kids, nk, then, status, n, first_frame,
                     last, img, part, pages, first_time, pend, nsig, hit,
                     stopped, aborted >>
      /\ got' = 0 /\ status = "good" /\ mishaps' = mishaps \cup {"file"}
  BY <1>1
     DEF StartSucceeded, mode, program, signals, IInv, Types, Goto, Returns, Ctx, M,
         Same, Fails
<1>3. Types'
  BY <1>1, <1>2, Sizes DEF IInv, Types, MainLabels, HandLabels, Stati
<1>4. Control' /\ Pids' /\ Orphans' /\ Stopped' /\ PartFile'
  BY <1>1, <1>2
     DEF IInv, Control, Pids, Orphans, Live, Pid, Writer, Stopped, Clean, Types, PartFile
<1>5. Bytes' /\ Image' /\ Writer' /\ Frame'
  BY <1>1, <1>2
     DEF IInv, Control, Pids, Bytes, Types, Image, Coming, Writer, Live, Clean, Frame,
         InOrder, Frames, PageBytes
<1> QED
  BY <1>3, <1>4, <1>5 DEF IInv

\* scanimage adds what was read to the page.
LEMMA ReadReturnedDataKeeps ==
  ASSUME IInv, ReadReturned, M' = "read"
  PROVE  IInv'
<1>1. /\ M = "readDone" /\ H = "none" /\ M' = "read" /\ H' = "none"
      /\ at' = [x \in Ctx |-> at'[x]]
  BY DEF IInv, Types, ReadReturned, At, Goto, Returns, Ctx, M, H, Same
<1>2. /\ UNCHANGED << three, adf, dev, kids, nk, then, status, mishaps, n,
                     first_frame, last, part, pages, first_time, pend, nsig,
                     hit, stopped, aborted >>
      /\ got' = 0 /\ img' = img + got /\ status = "good"
  BY <1>1
     DEF ReadReturned, mode, program, signals, IInv, Types, Goto, Returns, Ctx, M, Same
<1>3. Types'
  BY <1>1, <1>2, Sizes DEF IInv, Types, MainLabels, HandLabels, Stati
<1>4. Control' /\ Pids' /\ Orphans' /\ Stopped' /\ PartFile'
  BY <1>1, <1>2
     DEF IInv, Control, Pids, Orphans, Live, Pid, Writer, Stopped, Clean, Types, PartFile
<1>5. Bytes' /\ Writer' /\ Frame'
  BY <1>1, <1>2
     DEF IInv, Control, Pids, Bytes, Writer, Live, Clean, Types, Frame, InOrder, Coming,
         Frames, PageBytes
<1>6. Image'
  <2> DEFINE t == (nk - 1) * Total
  <2>1. /\ nk \in Nat /\ t \in Int /\ nk * Total = t + Total
        /\ dev.bytes \in 0..Total /\ got \in Int
    BY Sizes DEF IInv, Types, DevType
  <2>2. img >= 0 /\ got > 0 /\ nk # 0 /\ img + got <= t + dev.bytes
    BY <1>1, <1>2 DEF IInv, Image, Bytes, Coming
  <2>3. img \in Nat /\ img' = img + got /\ nk' * Total = nk * Total
        /\ (nk' - 1) * Total + dev'.bytes = t + dev.bytes /\ Coming' = img'
    BY <1>1, <1>2 DEF IInv, Image, Coming
  <2> HIDE DEF t
  <2>4. img' \in 0..(nk' * Total)
    BY <2>1, <2>2, <2>3, Sizes
  <2>5. Coming' <= (nk' - 1) * Total + dev'.bytes
    BY <2>1, <2>2, <2>3
  <2> QED
    BY <2>2, <2>4, <2>5, <1>1, <1>2 DEF IInv, Image
<1> QED
  BY <1>3, <1>4, <1>5, <1>6 DEF IInv

\* A frame that is not the last.
LEMMA ReadReturnedFrameKeeps ==
  ASSUME IInv, ReadReturned, M' = "start"
  PROVE  IInv'
<1>1. /\ M = "readDone" /\ H = "none" /\ M' = "start" /\ H' = "none"
      /\ at' = [x \in Ctx |-> at'[x]]
  BY DEF IInv, Types, ReadReturned, At, Goto, Returns, Ctx, M, H, Same
<1>2. /\ UNCHANGED << three, adf, dev, kids, nk, then, status, mishaps, n, last,
                     img, part, pages, first_time, pend, nsig, hit, stopped,
                     aborted >>
      /\ got' = 0 /\ first_frame' \in BOOLEAN /\ ~first_frame' /\ status = "eof"
      /\ ~last
  BY <1>1
     DEF ReadReturned, mode, program, signals, IInv, Types, Goto, Returns, Ctx, M, Same
<1>3. Types'
  BY <1>1, <1>2, Sizes DEF IInv, Types, MainLabels, HandLabels, Stati
<1>4. Control' /\ Pids' /\ Orphans' /\ Stopped' /\ PartFile'
  BY <1>1, <1>2
     DEF IInv, Control, Pids, Orphans, Live, Pid, Writer, Stopped, Clean, Types, PartFile
<1>5. Bytes' /\ Image' /\ Writer' /\ Frame'
  BY <1>1, <1>2
     DEF IInv, Control, Pids, Bytes, Types, Image, Coming, Writer, Live, Clean, Frame,
         InOrder, Frames, PageBytes
<1> QED
  BY <1>3, <1>4, <1>5 DEF IInv

\* The last frame, or an error.
LEMMA ReadReturnedPageKeeps ==
  ASSUME IInv, ReadReturned, M' = "pageEnd"
  PROVE  IInv'
<1>1. /\ M = "readDone" /\ H = "none" /\ M' = "pageEnd" /\ H' = "none"
      /\ at' = [x \in Ctx |-> at'[x]]
  BY DEF IInv, Types, ReadReturned, At, Goto, Returns, Ctx, M, H, Same
<1>2. /\ UNCHANGED << three, adf, dev, kids, nk, then, mishaps, n, last, img,
                     part, pages, first_time, pend, nsig, hit, stopped, aborted >>
      /\ got' = 0 /\ first_frame' \in BOOLEAN
      /\ \/ status = "eof" /\ last /\ status' = "good"
         \/ status \notin {"good", "eof"} /\ status' = status
  BY <1>1
     DEF ReadReturned, mode, program, signals, IInv, Types, Goto, Returns, Ctx, M, Same
<1>3. Types'
  BY <1>1, <1>2, Sizes DEF IInv, Types, MainLabels, HandLabels, Stati
<1>4. Control' /\ Pids' /\ Orphans' /\ Stopped' /\ PartFile'
  BY <1>1, <1>2
     DEF IInv, Control, Pids, Orphans, Live, Pid, Writer, Stopped, Clean, Types, PartFile
<1>5. Bytes' /\ Image' /\ Writer' /\ Frame'
  BY <1>1, <1>2
     DEF IInv, Control, Pids, Bytes, Types, Image, Coming, Writer, Live, Clean, Frame,
         InOrder, Frames, PageBytes
<1> QED
  BY <1>3, <1>4, <1>5 DEF IInv

\* The page gets its name, and another one follows.
LEMMA PageEndNextKeeps ==
  ASSUME IInv, PageEnd, M' = "begin"
  PROVE  IInv'
<1>1. /\ M = "pageEnd" /\ H = "none" /\ M' = "begin" /\ H' = "none"
      /\ at' = [x \in Ctx |-> at'[x]]
  BY DEF IInv, Types, PageEnd, At, Goto, Returns, Ctx, M, H, Same
<1>2. /\ UNCHANGED << three, adf, dev, kids, nk, then, status, mishaps,
                     first_frame, last, img, first_time, pend, nsig, hit,
                     stopped, aborted >>
      /\ got' = 0 /\ part' \in BOOLEAN /\ ~part' /\ pages' = Append(pages, img)
      /\ n' = n + 1 /\ n < Batch /\ status = "good"
  BY <1>1 DEF PageEnd, mode, program, signals, IInv, Types, Goto, Returns, Ctx, M, Same
<1>3. Types'
  <2>1. n' \in 1..(Batch + 1) /\ n' <= Batch
    BY <1>1, <1>2, ScanAssumption DEF IInv, Types
  <2> QED
    BY <1>1, <1>2, <2>1, Sizes DEF IInv, Types, MainLabels, HandLabels
<1>4. Control' /\ Pids' /\ Orphans' /\ Stopped' /\ PartFile'
  BY <1>1, <1>2
     DEF IInv, Control, Pids, Orphans, Live, Pid, Writer, Stopped, Clean, Types, PartFile
<1>5. Bytes' /\ Writer' /\ Frame'
  BY <1>1, <1>2
     DEF IInv, Control, Pids, Bytes, Writer, Live, Clean, Types, Frame, InOrder, Coming,
         Frames, PageBytes
<1>6. Image'
  <2>1. img \in 0..(MaxKids * Total)
    BY ImageBound
  <2>2. pages' \in Seq(0..(MaxKids * Total))
    BY <2>1, <1>1, <1>2 DEF IInv, Image
  <2> QED
    BY <2>2, <1>1, <1>2 DEF IInv, Image, Coming
<1> QED
  BY <1>3, <1>4, <1>5, <1>6 DEF IInv

\* The page gets its name, and is the last.
LEMMA PageEndNamedKeeps ==
  ASSUME IInv, PageEnd, status = "good", part' = FALSE, pages' = Append(pages, img),
         n' = n + 1, UNCHANGED mishaps, M' = "cancel"
  PROVE  IInv'
<1>1. /\ M = "pageEnd" /\ H = "none" /\ M' = "cancel" /\ H' = "none"
      /\ at' = [x \in Ctx |-> at'[x]]
  BY DEF IInv, Types, PageEnd, At, Goto, Returns, Ctx, M, H, Same
<1>2. part' \in BOOLEAN /\ ~part'
  OBVIOUS
<1>3. n' \in 1..(Batch + 1) /\ pages' = Append(pages, img)
  BY <1>1, ScanAssumption DEF IInv, Types
<1>4. n <= Batch /\ n \in 1..(Batch + 1)
  BY <1>1 DEF IInv, Types
<1>5. /\ UNCHANGED << three, adf, dev, kids, nk, then, status, mishaps,
                     first_frame, last, img, first_time, pend, nsig, hit,
                     stopped, aborted >>
      /\ got' = 0
  BY <1>1, <1>2, <1>3, <1>4
     DEF PageEnd, mode, program, signals, IInv, Types, Goto, Returns, Ctx, M, Same
<1>6. Types'
  BY <1>1, <1>2, <1>3, <1>4, <1>5, Sizes DEF IInv, Types, MainLabels, HandLabels, Stati
<1>7. Control' /\ Pids' /\ Orphans' /\ Stopped' /\ PartFile'
  BY <1>1, <1>2, <1>3, <1>4, <1>5
     DEF IInv, Control, Pids, Orphans, Live, Pid, Writer, Stopped, Clean, Types, PartFile
<1>8. Bytes' /\ Writer' /\ Frame'
  BY <1>1, <1>2, <1>3, <1>4, <1>5
     DEF IInv, Control, Pids, Bytes, Writer, Live, Clean, Types, Frame, InOrder, Coming,
         Frames, PageBytes
<1>9. Image'
  <2>1. img \in 0..(MaxKids * Total)
    BY ImageBound
  <2>2. pages' \in Seq(0..(MaxKids * Total))
    BY <2>1, <1>1, <1>2, <1>3, <1>4, <1>5 DEF IInv, Image
  <2> QED
    BY <2>2, <1>1, <1>2, <1>3, <1>4, <1>5 DEF IInv, Image, Coming
<1> QED
  BY <1>6, <1>7, <1>8, <1>9 DEF IInv

\* The page gets no name.
LEMMA PageEndNotKeeps ==
  ASSUME IInv, PageEnd, pages' = pages, n' \in {n, n + 1}, part' \in BOOLEAN,
         mishaps \subseteq mishaps', mishaps' \subseteq mishaps \cup {"file"},
         "file" \notin mishaps' => ~part', M' = "cancel"
  PROVE  IInv'
<1>1. /\ M = "pageEnd" /\ H = "none" /\ M' = "cancel" /\ H' = "none"
      /\ at' = [x \in Ctx |-> at'[x]]
  BY DEF IInv, Types, PageEnd, At, Goto, Returns, Ctx, M, H, Same
<1>2. n <= Batch /\ n \in 1..(Batch + 1)
  BY <1>1 DEF IInv, Types
<1>3. mishaps' \subseteq {"reader", "int", "file"}
  BY DEF IInv, Types
<1>4. /\ mishaps \subseteq mishaps' /\ mishaps' \subseteq mishaps \cup {"file"}
      /\ "file" \notin mishaps' => ~part'
  OBVIOUS
<1>5. /\ UNCHANGED << three, adf, dev, kids, nk, then, status, first_frame, last,
                     img, pages, first_time, pend, nsig, hit, stopped, aborted >>
      /\ got' = 0 /\ part' \in BOOLEAN /\ n' \in 1..(Batch + 1)
  BY <1>1, <1>2, <1>3, <1>4, ScanAssumption
     DEF PageEnd, mode, program, signals, IInv, Types, Goto, Returns, Ctx, M, Same
<1>6. Types'
  BY <1>1, <1>3, <1>5, Sizes DEF IInv, Types, MainLabels, HandLabels
<1>7. Control' /\ Pids' /\ Orphans' /\ Stopped' /\ PartFile'
  BY <1>1, <1>2, <1>3, <1>4, <1>5
     DEF IInv, Control, Pids, Orphans, Live, Pid, Writer, Stopped, Clean, Types, PartFile
<1>8. Bytes' /\ Image' /\ Writer' /\ Frame'
  BY <1>1, <1>2, <1>3, <1>4, <1>5
     DEF IInv, Control, Pids, Bytes, Types, Image, Coming, Writer, Live, Clean, Frame,
         InOrder, Frames, PageBytes
<1> QED
  BY <1>6, <1>7, <1>8 DEF IInv

LEMMA ReadChecksGoodKeeps ==
  ASSUME IInv, ReadChecks, UNCHANGED << program, signals >>, M' = "read2"
  PROVE  IInv'
<1>1. /\ M = "read" /\ H = "none" /\ M' = "read2" /\ H' = "none"
      /\ at' = [x \in Ctx |-> at'[x]]
  BY DEF IInv, Types, ReadChecks, At, Goto, Returns, Ctx, M, H
<1>2. /\ UNCHANGED << three, adf, dev, kids, nk, then, got, status, mishaps, n,
                     first_frame, last, img, part, pages, first_time, pend,
                     nsig, hit, stopped, aborted >>
      /\ ~dev.cancelled /\ ~dev.eof /\ dev.scanning
  BY <1>1 DEF ReadChecks, mode, program, signals, IInv, Types, Goto, Returns, Ctx, M
<1>3. Types'
  BY <1>1, <1>2 DEF IInv, Types, MainLabels, HandLabels, Stati
<1>4. Control' /\ Pids' /\ Orphans' /\ Stopped' /\ PartFile'
  BY <1>1, <1>2
     DEF IInv, Control, Pids, Orphans, Live, Pid, Writer, Stopped, Clean, Types, PartFile
<1>5. Bytes' /\ Image' /\ Writer' /\ Frame'
  BY <1>1, <1>2
     DEF IInv, Control, Pids, Bytes, Types, Image, Coming, Writer, Live, Clean, Frame,
         InOrder, Frames, PageBytes
<1> QED
  BY <1>3, <1>4, <1>5 DEF IInv

LEMMA ReadChecksEndKeeps ==
  ASSUME IInv, ReadChecks, UNCHANGED << program, signals >>, M' = "readDone"
  PROVE  IInv'
<1>1. /\ M = "read" /\ H = "none" /\ M' = "readDone" /\ H' = "none"
      /\ at' = [x \in Ctx |-> at'[x]]
  BY DEF IInv, Types, ReadChecks, At, Goto, Returns, Ctx, M, H
<1>2. /\ UNCHANGED << three, adf, dev, kids, nk, then, got, mishaps, n,
                     first_frame, last, img, part, pages, first_time, pend,
                     nsig, hit, stopped, aborted >>
      /\ \/ dev.cancelled /\ status' = "cancelled"
         \/ ~dev.cancelled /\ dev.eof /\ status' = "eof"
         \/ ~dev.cancelled /\ ~dev.eof /\ ~dev.scanning /\ status' = "inval"
  BY <1>1 DEF ReadChecks, mode, program, signals, IInv, Types, Goto, Returns, Ctx, M
<1>3. Types'
  BY <1>1, <1>2 DEF IInv, Types, MainLabels, HandLabels, Stati
<1>4. Control' /\ Pids' /\ Orphans' /\ Stopped' /\ PartFile'
  BY <1>1, <1>2
     DEF IInv, Control, Pids, Orphans, Live, Pid, Writer, Stopped, Clean, Types, PartFile
<1>5. Bytes' /\ Image' /\ Writer' /\ Frame'
  BY <1>1, <1>2
     DEF IInv, Control, Pids, Bytes, Types, Image, Coming, Writer, Live, Clean, Frame,
         InOrder, Frames, PageBytes
<1> QED
  BY <1>3, <1>4, <1>5 DEF IInv

\* What read takes from the pipe; without a mishap it is something.
LEMMA ReadPipeKeeps ==
  ASSUME IInv, ReadPipe, UNCHANGED << program, signals >>
  PROVE  IInv'
<1>1. /\ M = "read2" /\ H = "none" /\ M' = "read3" /\ H' = "none"
      /\ at' = [x \in Ctx |-> at'[x]]
  BY DEF IInv, Types, ReadPipe, At, Goto, Returns, Ctx, M, H
<1>2. dev.pipe \in 0..MaxKids /\ dev.bytes \in 0..Total /\ dev.pid \in Pid \cup {-1}
      /\ (dev.pipe # 0 => dev.pipe \in Pid)
  BY DEF IInv, Types, DevType, Pid
<1>3. /\ kids \in [Pid -> KidType]
      /\ \A k \in Pid : /\ kids[k] \in KidType /\ kids[k].taken <= kids[k].wrote
                        /\ kids[k].taken \in 0..Total /\ kids[k].wrote \in 0..Total
  BY DEF IInv, Types, Bytes, KidType
<1>4. dev.pipe = 0 => UNCHANGED kids /\ got' = -1
  BY DEF ReadPipe
<1>5. ASSUME dev.pipe # 0
      PROVE  /\ kids[dev.pipe].taken = dev.bytes /\ dev.pipe = nk
             /\ got' \in 0..(kids[dev.pipe].wrote - dev.bytes)
             /\ kids' = [kids EXCEPT ![dev.pipe].taken = @ + got']
             /\ Clean => got' # 0
  <2> DEFINE kid == kids[dev.pipe]
  <2>1. kid.taken = dev.bytes /\ dev.pipe = nk
    BY <1>1, <1>5 DEF IInv, Bytes
  <2>2. kid.wrote - kid.taken \in Nat /\ kid \in KidType
    BY <1>2, <1>3, <1>5, Sizes
  <2>3. CASE kid.wrote = kid.taken /\ Hangup(dev.pipe) /\ got' = 0 /\ UNCHANGED kids
    <3>1. kid.taken + 0 = kid.taken
      BY <1>2, <1>3, <1>5
    <3>2. [kids EXCEPT ![dev.pipe].taken = @ + got'] = kids
      BY <2>3, <3>1, <1>2, <1>3, <1>5 DEF KidType
    <3>3. ~Clean
      BY <1>1, <1>5, <2>3 DEF Hangup, IInv, Writer
    <3> QED
      BY <2>1, <2>2, <2>3, <3>2, <3>3
  <2>4. ASSUME NEW m \in 1..(kid.wrote - kid.taken), got' = m,
               kids' = [kids EXCEPT ![dev.pipe].taken = @ + m]
        PROVE  got' \in 0..(kid.wrote - dev.bytes) /\ got' # 0
    BY <2>1, <2>2, <2>4
  <2> QED
    BY <1>5, <2>1, <2>3, <2>4 DEF ReadPipe
<1>6. /\ got' \in -1..Total /\ dev.bytes + got' <= Total
      /\ dev.pipe # 0 => got' >= 0
      /\ Clean => got' # 0
  BY <1>2, <1>3, <1>4, <1>5, Sizes
<1>7. /\ kids' \in [Pid -> KidType]
  <2>1. CASE dev.pipe # 0
    <3>1. kids[dev.pipe].taken + got' \in 0..Total
      BY <2>1, <1>2, <1>3, <1>5, Sizes
    <3> QED
      BY <2>1, <3>1, <1>2, <1>3, <1>5 DEF KidType
  <2> QED
    BY <2>1, <1>3, <1>4
<1>8. \A k \in Pid : /\ kids'[k].st = kids[k].st /\ kids'[k].wrote = kids[k].wrote
                     /\ kids'[k].fd = kids[k].fd /\ kids'[k].term = kids[k].term
                     /\ kids'[k].int = kids[k].int
                     /\ kids'[k].taken = IF k = dev.pipe THEN kids[k].taken + got'
                                                        ELSE kids[k].taken
                     /\ kids'[k].taken <= kids'[k].wrote
  <2> TAKE k \in Pid
  <2>1. CASE k = dev.pipe /\ dev.pipe # 0
    <3>1. kids'[k] = [kids[k] EXCEPT !.taken = @ + got']
      BY <2>1, <1>3, <1>5
    <3>2. kids[k].taken + got' <= kids[k].wrote
      BY <2>1, <1>2, <1>3, <1>5, Sizes
    <3> QED
      BY <2>1, <3>1, <3>2, <1>3 DEF KidType
  <2>2. CASE k # dev.pipe
    BY <2>2, <1>3, <1>4, <1>5
  <2> QED
    BY <2>1, <2>2 DEF Pid
<1>9. /\ UNCHANGED << three, adf, dev, nk, then, status, mishaps, n, first_frame,
                     last, img, part, pages, first_time, pend, nsig, hit,
                     stopped, aborted >>
  BY <1>1, <1>2, <1>3, <1>4, <1>5, <1>6, <1>7, <1>8
     DEF ReadPipe, mode, program, signals, Returns
<1>10. Types'
  BY <1>1, <1>2, <1>3, <1>4, <1>5, <1>6, <1>7, <1>8, <1>9
     DEF IInv, Types, MainLabels, HandLabels, Stati
<1>11. Control' /\ Pids' /\ Orphans' /\ Stopped' /\ PartFile'
  <2>1. Control' /\ Stopped' /\ PartFile'
    BY <1>1, <1>2, <1>3, <1>9 DEF IInv, Control, Types, Stopped, Clean, PartFile
  <2>2. \A k \in Pid : kids'[k].st = kids[k].st
    BY <1>8
  <2>3. dev.pid # -1 => dev.pid \in Pid
    BY DEF IInv, Types, DevType
  <2>4. Pids'
    BY <1>1, <1>2, <1>3, <1>9, <2>2, <2>3 DEF IInv, Pids, Types
  <2>5. Orphans'
    BY <1>1, <1>2, <1>3, <1>9, <2>2 DEF IInv, Orphans, Live, Types
  <2> QED
    BY <2>1, <2>4, <2>5
<1>12. Image' /\ Writer' /\ Frame'
  BY <1>1, <1>2, <1>3, <1>4, <1>5, <1>6, <1>7, <1>8, <1>9
     DEF IInv, Types, Bytes, Image, Coming, Control, Pids, Writer, Live, Clean, Pid,
         Frame, InOrder, Frames, PageBytes
<1>13. Bytes'
  <2>1. \A k \in Pid : kids'[k].taken <= kids'[k].wrote
    BY <1>8
  <2>2. dev.pipe # 0 => dev.pipe = nk /\ kids'[dev.pipe].taken = dev.bytes + got'
    BY <1>2, <1>5, <1>8
  <2>3. dev.bytes + got' <= Total /\ (dev.pipe # 0 => got' >= 0)
    BY <1>6
  <2>4. UNCHANGED << dev, nk, then, status >>
    BY <1>9
  <2> QED
    BY <1>1, <2>1, <2>2, <2>3, <2>4 DEF Bytes
<1> QED
  BY <1>10, <1>11, <1>12, <1>13 DEF IInv

\* The read that completes the frame turns to finish_pass.
LEMMA ReadTakesLastKeeps ==
  ASSUME IInv, ReadTakes, UNCHANGED << program, signals >>, M' = "finish"
  PROVE  IInv'
<1>1. /\ M = "read3" /\ H = "none" /\ M' = "finish" /\ H' = "none"
      /\ at' = [x \in Ctx |-> at'[x]]
  BY DEF IInv, Types, ReadTakes, At, Goto, Returns, Ctx, M, H
<1>2. got \in -1..Total /\ dev.bytes \in 0..Total
  BY DEF IInv, Types, DevType
<1>3. /\ UNCHANGED << three, adf, dev, kids, nk, got, status, mishaps, n,
                     first_frame, last, img, part, pages, first_time, pend,
                     nsig, hit, stopped, aborted >>
      /\ then' = [then EXCEPT !["main"] = "eof"] /\ EofReached
  BY <1>1, <1>2 DEF ReadTakes, mode, program, signals, IInv, Types, Goto, Returns, Ctx, M
<1>4. Types'
  BY <1>1, <1>2, <1>3 DEF IInv, Types, MainLabels, HandLabels, Stati, Ctx
<1>5. Control' /\ Pids' /\ Orphans' /\ Stopped' /\ PartFile'
  BY <1>1, <1>2, <1>3
     DEF IInv, Control, Ctx, Types, Pids, Orphans, Live, Pid, Writer, Stopped, Clean,
         PartFile
<1>6. Image' /\ Writer'
  BY <1>1, <1>2, <1>3
     DEF IInv, Types, Bytes, Image, Coming, Ctx, Control, Pids, Writer, Live, Clean
<1>7. Bytes'
  <2>1. dev.bytes + got <= Total /\ got >= 0
    BY <1>1, <1>2, <1>3, Sizes DEF IInv, Bytes, EofReached
  <2> QED
    BY <2>1, <1>1, <1>2, <1>3 DEF IInv, Bytes
<1>8. Frame'
  <2>1. Clean => got + dev.bytes = Total
    BY <1>1, <1>2, <1>3, Sizes DEF IInv, Bytes, Writer, EofReached
  <2>2. Coming' = img /\ Coming = img /\ Frames' = Frames /\ PageBytes' = PageBytes
    BY <1>1, <1>2, <1>3 DEF Coming, Frames, PageBytes
  <2> QED
    BY <2>1, <2>2, <1>1, <1>2, <1>3 DEF IInv, Frame, InOrder, Clean
<1> QED
  BY <1>4, <1>5, <1>6, <1>7, <1>8 DEF IInv

LEMMA ReadTakesNoneKeeps ==
  ASSUME IInv, ReadTakes, UNCHANGED << program, signals >>, got < 0, M' = "readDone"
  PROVE  IInv'
<1>1. /\ M = "read3" /\ H = "none" /\ M' = "readDone" /\ H' = "none"
      /\ at' = [x \in Ctx |-> at'[x]]
  BY DEF IInv, Types, ReadTakes, At, Goto, Returns, Ctx, M, H
<1>2. got \in -1..Total /\ dev.pipe \in 0..MaxKids
  BY DEF IInv, Types, DevType
<1>3. /\ UNCHANGED << three, adf, dev, kids, nk, then, got, mishaps, n,
                     first_frame, last, img, part, pages, first_time, pend,
                     nsig, hit, stopped, aborted >>
      /\ got < 0 /\ status' = "io_error"
  BY <1>1, <1>2 DEF ReadTakes, mode, program, signals, IInv, Types, Goto, Returns, Ctx, M
<1>4. Types'
  BY <1>1, <1>2, <1>3 DEF IInv, Types, MainLabels, HandLabels, Stati
<1>5. Control' /\ Pids' /\ Orphans' /\ Stopped' /\ PartFile'
  BY <1>1, <1>2, <1>3
     DEF IInv, Control, Pids, Orphans, Live, Pid, Writer, Stopped, Clean, Types, PartFile
<1>6. Bytes' /\ Image' /\ Writer' /\ Frame'
  BY <1>1, <1>2, <1>3
     DEF IInv, Control, Pids, Bytes, Types, Image, Coming, Writer, Live, Clean, Frame,
         InOrder, Frames, PageBytes
<1> QED
  BY <1>4, <1>5, <1>6 DEF IInv

\* A read in the middle of a frame.
LEMMA ReadTakesDataKeeps ==
  ASSUME IInv, ReadTakes, UNCHANGED << program, signals >>, got > 0, M' = "readDone"
  PROVE  IInv'
<1>1. /\ M = "read3" /\ H = "none" /\ M' = "readDone" /\ H' = "none"
      /\ at' = [x \in Ctx |-> at'[x]]
  BY DEF IInv, Types, ReadTakes, At, Goto, Returns, Ctx, M, H
<1>2. got \in -1..Total /\ dev.bytes \in 0..Total /\ img \in Int
  BY DEF IInv, Types, DevType, Image
<1>3. dev.bytes + got \in 0..Total
  BY <1>1, <1>2, Sizes DEF IInv, Bytes
<1>4. /\ dev' \in DevType /\ dev'.scanning = dev.scanning
      /\ dev'.cancelled = dev.cancelled /\ dev'.eof = dev.eof
      /\ dev'.bytes = dev.bytes + got /\ dev'.pass = dev.pass
      /\ dev'.pid = dev.pid /\ dev'.pipe = dev.pipe /\ dev'.wfd = dev.wfd
  BY <1>1, <1>2, <1>3 DEF IInv, Types, DevType, ReadTakes, Goto, Returns, Ctx, M
<1>5. /\ UNCHANGED << three, adf, kids, nk, then, got, mishaps, n, first_frame,
                     last, img, part, pages, first_time, pend, nsig, hit,
                     stopped, aborted >>
      /\ got > 0 /\ status' = "good"
  BY <1>1, <1>2, <1>3
     DEF ReadTakes, mode, program, signals, IInv, Types, Goto, Returns, Ctx, M
<1>6. Types'
  BY <1>1, <1>2, <1>3, <1>4, <1>5 DEF IInv, Types, MainLabels, HandLabels, Stati
<1>7. Control' /\ Pids' /\ Orphans' /\ Stopped' /\ PartFile'
  BY <1>1, <1>2, <1>3, <1>4, <1>5
     DEF IInv, Control, Pids, Orphans, Live, Pid, Writer, Stopped, Clean, Types, PartFile
<1>8. Bytes' /\ Writer'
  BY <1>1, <1>2, <1>3, <1>4, <1>5 DEF IInv, Control, Pids, Bytes, Writer, Live, Clean
<1>9. Image'
  <2> DEFINE t == (nk - 1) * Total
  <2>1. t \in Int /\ img <= t + dev.bytes /\ nk # 0
    BY <1>1, Sizes DEF IInv, Types, Image, Coming
  <2>2. Coming' <= (nk' - 1) * Total + dev'.bytes
    BY <2>1, <1>1, <1>2, <1>3, <1>4, <1>5, Sizes DEF Coming
  <2> QED
    BY <2>1, <2>2, <1>1, <1>2, <1>3, <1>4, <1>5 DEF IInv, Image
<1>10. Frame'
  <2>1. Coming' = img + got /\ Coming = img /\ Frames' = Frames /\ PageBytes' = PageBytes
    BY <1>1, <1>2, <1>3, <1>4, <1>5 DEF Coming, Frames, PageBytes
  <2>2. Clean' = Clean /\ (dev.scanning => ~dev.cancelled /\ ~dev.eof)
    BY <1>1, <1>2, <1>3, <1>4, <1>5 DEF IInv, Control, Clean
  <2>3. ASSUME Clean, ~dev.cancelled PROVE InOrder'
    <3>1. img = Frames + dev.bytes /\ last = (~three \/ dev.pass = 2)
      BY <2>1, <2>3, <1>1, <1>2, <1>3, <1>4, <1>5 DEF IInv, Frame, InOrder
    <3>2. Frames \in Int
      BY Sizes DEF Frames
    <3>3. Coming' = Frames' + dev'.bytes
      BY <2>1, <3>1, <3>2, <1>1, <1>2, <1>3, <1>4, <1>5
    <3> QED
      BY <3>1, <3>3, <1>1, <1>2, <1>3, <1>4, <1>5 DEF InOrder
  <2> QED
    BY <2>1, <2>2, <2>3, <1>1, <1>2, <1>3, <1>4, <1>5 DEF IInv, Control, Frame
<1> QED
  BY <1>6, <1>7, <1>8, <1>9, <1>10 DEF IInv

\* The end of a frame, and the next pass of three.
LEMMA ReadEofKeeps ==
  ASSUME IInv, ReadEof, UNCHANGED << program, signals >>
  PROVE  IInv'
<1>1. /\ M = "eof" /\ H = "none" /\ M' = "readDone" /\ H' = "none"
      /\ at' = [x \in Ctx |-> at'[x]]
  BY DEF IInv, Types, ReadEof, At, Goto, Returns, Ctx, M, H
<1>2. /\ dev.bytes + got \in 0..Total
      /\ (IF three THEN (dev.pass + 1) % 3 ELSE dev.pass) \in 0..2
  BY <1>1 DEF IInv, Types, DevType, Bytes
<1>3. /\ got \in 0..Total /\ dev.bytes \in 0..Total /\ dev.pass \in 0..2
      /\ dev.pipe = 0 /\ img \in Int
  BY <1>1 DEF IInv, Types, DevType, Bytes, Pids, Image
<1>4. /\ dev' \in DevType /\ dev'.scanning = dev.scanning
      /\ dev'.cancelled = dev.cancelled /\ dev'.eof = TRUE
      /\ dev'.bytes = dev.bytes + got
      /\ dev'.pass = IF three THEN (dev.pass + 1) % 3 ELSE dev.pass
      /\ dev'.pid = dev.pid /\ dev'.pipe = dev.pipe /\ dev'.wfd = dev.wfd
  BY <1>1, <1>2, <1>3 DEF IInv, Types, DevType, ReadEof
<1>5. /\ UNCHANGED << three, adf, kids, nk, then, got, mishaps, n, first_frame,
                     last, img, part, pages, first_time, pend, nsig, hit,
                     stopped, aborted >>
      /\ status' = IF got = 0 THEN "eof" ELSE "good"
  BY <1>1, <1>2, <1>3 DEF ReadEof, mode, program, signals, Returns
<1>6. Types'
  BY <1>1, <1>2, <1>3, <1>4, <1>5 DEF IInv, Types, MainLabels, HandLabels, Stati
<1>7. Control' /\ Pids' /\ Orphans' /\ Stopped' /\ PartFile'
  BY <1>1, <1>2, <1>3, <1>4, <1>5
     DEF IInv, Control, Pids, Orphans, Live, Pid, Writer, Stopped, Clean, Types, PartFile
<1>8. Bytes' /\ Writer'
  BY <1>1, <1>2, <1>3, <1>4, <1>5 DEF IInv, Control, Pids, Bytes, Writer, Live, Clean
<1>9. Image'
  <2> DEFINE t == (nk - 1) * Total
  <2>1. t \in Int /\ img <= t + dev.bytes /\ nk # 0
    BY <1>1, Sizes DEF IInv, Types, Image, Coming
  <2>2. Coming' <= (nk' - 1) * Total + dev'.bytes
    BY <2>1, <1>1, <1>2, <1>3, <1>4, <1>5, Sizes DEF Coming
  <2> QED
    BY <2>1, <2>2, <1>1, <1>2, <1>3, <1>4, <1>5 DEF IInv, Image
<1>10. Frame'
  <2>1. Clean' = Clean /\ (Clean => got # 0) /\ PageBytes' = PageBytes
    BY <1>1, <1>2, <1>3, <1>4, <1>5 DEF IInv, Writer, Clean, PageBytes
  <2>2. ASSUME Clean, ~dev.cancelled
        PROVE  IF last THEN dev'.pass = 0 /\ Coming' = PageBytes' ELSE Coming' = Frames'
    <3>1. Coming' = img + got
      BY <2>1, <2>2, <1>1, <1>2, <1>3, <1>4, <1>5 DEF Coming
    <3>2. /\ img = Frames + dev.bytes /\ got + dev.bytes = Total
          /\ last = (~three \/ dev.pass = 2) /\ (~three => dev.pass = 0)
      BY <2>2, <1>1, <1>2, <1>3, <1>4, <1>5 DEF IInv, Frame, InOrder, Coming
    <3>3. dev'.pass = IF ~three \/ dev.pass = 2 THEN 0 ELSE dev.pass + 1
      BY <3>2, <1>1, <1>2, <1>3, <1>4, <1>5
    <3>7. /\ ~three \/ dev.pass = 2 => last
          /\ three /\ dev.pass # 2 => ~last
      BY <3>2
    <3>4. CASE ~three
      BY <1>3, <2>1, <3>1, <3>2, <3>3, <3>4, <3>7, Sizes DEF Frames, PageBytes
    <3>5. CASE three /\ dev.pass = 2
      BY <1>3, <2>1, <3>1, <3>2, <3>3, <3>5, <3>7, Sizes DEF Frames, PageBytes
    <3>6. CASE three /\ dev.pass # 2
      <4>1. ~last /\ dev'.pass = dev.pass + 1 /\ dev.pass \in {0, 1}
        BY <1>3, <3>3, <3>6, <3>7
      <4>2. Frames' = Frames + Total
        BY <4>1, Sizes DEF Frames
      <4> QED
        BY <1>3, <3>1, <3>2, <4>1, <4>2, Sizes DEF Frames
    <3> QED
      BY <3>4, <3>5, <3>6
  <2> QED
    BY <2>1, <2>2, <1>1, <1>2, <1>3, <1>4, <1>5 DEF IInv, Control, Frame
<1> QED
  BY <1>6, <1>7, <1>8, <1>9, <1>10 DEF IInv

\* finish_pass in main or in the handler, which then owns the device.
LEMMA FinishMarkKeeps ==
  ASSUME IInv, NEW c \in Ctx, FinishMark(c), c = "hand" => M # "exited",
         UNCHANGED << program, signals >>
  PROVE  IInv'
<1>1. \/ c = "main" /\ M = "finish" /\ H = "none" /\ M' = "close" /\ H' = "none"
      \/ c = "hand" /\ H = "finish" /\ M # "exited" /\ H' = "close" /\ M' = M
  BY DEF IInv, Types, FinishMark, At, Goto, Ctx, M, H
<1>2. at' = [x \in Ctx |-> at'[x]]
  BY DEF IInv, Types, FinishMark, Goto
<1>3. /\ dev' \in DevType /\ dev'.scanning = FALSE
      /\ dev'.cancelled = dev.cancelled /\ dev'.eof = dev.eof
      /\ dev'.bytes = dev.bytes /\ dev'.pass = dev.pass /\ dev'.pid = dev.pid
      /\ dev'.pipe = dev.pipe /\ dev'.wfd = dev.wfd
  BY <1>1, <1>2 DEF IInv, Types, DevType, FinishMark
<1>4. /\ UNCHANGED << three, adf, kids, nk, then, got, status, mishaps, n,
                     first_frame, last, img, part, pages, first_time, pend,
                     nsig, hit, stopped, aborted >>
  BY DEF FinishMark, mode, program, signals
<1>5. Types'
  BY <1>1, <1>2, <1>3, <1>4 DEF IInv, Types, MainLabels, HandLabels, Stati
<1>6. Control' /\ Pids' /\ Orphans' /\ Stopped' /\ PartFile'
  BY <1>1, <1>2, <1>3, <1>4
     DEF IInv, Control, Pids, Orphans, Live, Pid, Writer, Stopped, Clean, Types, PartFile
<1>7. Bytes' /\ Image' /\ Writer' /\ Frame'
  BY <1>1, <1>2, <1>3, <1>4
     DEF IInv, Control, Pids, Bytes, Types, Image, Coming, Writer, Live, Clean, Frame,
         InOrder, Frames, PageBytes
<1> QED
  BY <1>5, <1>6, <1>7 DEF IInv

LEMMA FinishCloseKeeps ==
  ASSUME IInv, NEW c \in Ctx, FinishClose(c), c = "hand" => M # "exited",
         UNCHANGED << program, signals >>
  PROVE  IInv'
<1>1. \/ /\ c = "main" /\ M = "close" /\ H = "none" /\ H' = "none"
         /\ M' = IF dev.pid # -1 THEN "kill" ELSE "finished"
      \/ /\ c = "hand" /\ H = "close" /\ M # "exited" /\ M' = M
         /\ H' = IF dev.pid # -1 THEN "kill" ELSE "finished"
  BY DEF IInv, Types, FinishClose, At, Goto, Ctx, M, H
<1>2. at' = [x \in Ctx |-> at'[x]]
  BY DEF IInv, Types, FinishClose, Goto
<1>3. 0 \in 0..MaxKids
  BY Sizes
<1>4. /\ dev' \in DevType /\ dev'.scanning = dev.scanning
      /\ dev'.cancelled = dev.cancelled /\ dev'.eof = dev.eof
      /\ dev'.bytes = dev.bytes /\ dev'.pass = dev.pass /\ dev'.pid = dev.pid
      /\ dev'.pipe = 0 /\ dev'.wfd = dev.wfd
  BY <1>1, <1>2, <1>3 DEF IInv, Types, DevType, FinishClose
<1>5. /\ UNCHANGED << three, adf, kids, nk, then, got, status, mishaps, n,
                     first_frame, last, img, part, pages, first_time, pend,
                     nsig, hit, stopped, aborted >>
  BY DEF FinishClose, mode, program, signals
<1>6. Types'
  BY <1>1, <1>2, <1>3, <1>4, <1>5 DEF IInv, Types, MainLabels, HandLabels, Stati
<1>7. Control' /\ Pids' /\ Orphans' /\ Stopped' /\ PartFile'
  BY <1>1, <1>2, <1>3, <1>4, <1>5
     DEF IInv, Control, Pids, Orphans, Live, Pid, Writer, Stopped, Clean, Types, PartFile
<1>8. Bytes' /\ Image' /\ Writer' /\ Frame'
  BY <1>1, <1>2, <1>3, <1>4, <1>5
     DEF IInv, Control, Pids, Bytes, Types, Image, Coming, Writer, Live, Clean, Frame,
         InOrder, Frames, PageBytes
<1> QED
  BY <1>6, <1>7, <1>8 DEF IInv

LEMMA FinishKillKeeps ==
  ASSUME IInv, NEW c \in Ctx, FinishKill(c), c = "hand" => M # "exited",
         UNCHANGED << program, signals >>
  PROVE  IInv'
<1>1. \/ c = "main" /\ M = "kill" /\ H = "none" /\ M' = "wait" /\ H' = "none"
      \/ c = "hand" /\ H = "kill" /\ M # "exited" /\ H' = "wait" /\ M' = M
  BY DEF IInv, Types, FinishKill, At, Goto, Ctx, M, H
<1>2. at' = [x \in Ctx |-> at'[x]]
  BY DEF IInv, Types, FinishKill, Goto
<1>3. kids' \in [Pid -> KidType]
  <2>1. ASSUME NEW k \in Pid PROVE [kids[k] EXCEPT !.term = @ \/ k = dev.pid] \in KidType
    <3>1. kids[k] \in KidType /\ (kids[k].term \/ k = dev.pid) \in BOOLEAN
      BY DEF IInv, Types
    <3> QED
      BY <3>1 DEF KidType
  <2> QED
    BY <2>1 DEF FinishKill
<1>4. \A k \in Pid : /\ kids'[k].st = kids[k].st /\ kids'[k].wrote = kids[k].wrote
                     /\ kids'[k].taken = kids[k].taken /\ kids'[k].fd = kids[k].fd
                     /\ kids'[k].int = kids[k].int
  BY DEF IInv, Types, FinishKill, KidType
<1>5. dev.pid \in Pid \cup {-1} /\ dev.pipe = 0 /\ dev.pid # -1 /\ nk \in 0..MaxKids
  BY <1>1 DEF IInv, Types, DevType, Pids
<1>6. /\ UNCHANGED << three, adf, dev, nk, then, got, status, mishaps, n,
                     first_frame, last, img, part, pages, first_time, pend,
                     nsig, hit, stopped, aborted >>
  BY DEF FinishKill, mode, program, signals
<1>7. Types'
  BY <1>1, <1>2, <1>3, <1>4, <1>5, <1>6 DEF IInv, Types, MainLabels, HandLabels, Stati
<1>8. Control' /\ Pids' /\ Orphans' /\ Stopped' /\ PartFile'
  BY <1>1, <1>2, <1>3, <1>4, <1>5, <1>6
     DEF IInv, Control, Pids, Pid, Orphans, Live, Writer, Stopped, Clean, Types, PartFile
<1>9. Bytes' /\ Image' /\ Writer' /\ Frame'
  BY <1>1, <1>2, <1>3, <1>4, <1>5, <1>6
     DEF IInv, Control, Pids, Bytes, Types, Pid, Image, Coming, Writer, Live, Clean,
         Frame, InOrder, Frames, PageBytes
<1> QED
  BY <1>7, <1>8, <1>9 DEF IInv

\* The reader has been waited for.
LEMMA FinishWaitKeeps ==
  ASSUME IInv, NEW c \in Ctx, FinishWait(c), c = "hand" => M # "exited",
         UNCHANGED << program, signals >>
  PROVE  IInv'
<1>1. \/ c = "main" /\ M = "wait" /\ H = "none" /\ M' = "finished" /\ H' = "none"
      \/ c = "hand" /\ H = "wait" /\ M # "exited" /\ H' = "finished" /\ M' = M
  BY DEF IInv, Types, FinishWait, At, Goto, Ctx, M, H
<1>2. at' = [x \in Ctx |-> at'[x]]
  BY DEF IInv, Types, FinishWait, Goto
<1>3. dev.pid \in Pid \cup {-1} /\ dev.pipe = 0 /\ nk \in 0..MaxKids
  BY <1>1 DEF IInv, Types, DevType, Pids
<1>4. [NoKid EXCEPT !.st = "gone"] \in KidType
  <2>1. 0 \in 0..Total
    BY Sizes
  <2> QED
    BY <2>1 DEF NoKid, KidType
<1>5. kids' \in [Pid -> KidType]
  BY <1>4 DEF IInv, Types, FinishWait
<1>6. \A k \in Pid : IF k = dev.pid THEN /\ ~Live(k) /\ kids'[k].st = "gone"
                                          /\ kids'[k].taken = 0 /\ kids'[k].wrote = 0
                   ELSE kids'[k] = kids[k]
  BY DEF IInv, Types, FinishWait, NoKid
<1>7. /\ dev' \in DevType /\ dev'.scanning = dev.scanning
      /\ dev'.cancelled = dev.cancelled /\ dev'.eof = dev.eof
      /\ dev'.bytes = dev.bytes /\ dev'.pass = dev.pass /\ dev'.pid = -1
      /\ dev'.pipe = dev.pipe /\ dev'.wfd = dev.wfd
  BY <1>1, <1>2, <1>3, <1>4, <1>5, <1>6 DEF IInv, Types, DevType, FinishWait
<1>8. /\ UNCHANGED << three, adf, nk, then, got, status, mishaps, n, first_frame,
                     last, img, part, pages, first_time, pend, nsig, hit,
                     stopped, aborted >>
  BY DEF FinishWait, mode, program, signals
<1>9. Types'
  BY <1>1, <1>2, <1>3, <1>4, <1>5, <1>6, <1>7, <1>8
     DEF IInv, Types, MainLabels, HandLabels, Stati
<1>10. Control' /\ Pids' /\ Orphans' /\ Stopped' /\ PartFile'
  BY <1>1, <1>2, <1>3, <1>4, <1>5, <1>6, <1>7, <1>8
     DEF IInv, Control, Pids, Pid, Orphans, Live, Writer, Stopped, Clean, Types, PartFile
<1>11. Bytes' /\ Image' /\ Writer' /\ Frame'
  BY <1>1, <1>2, <1>3, <1>4, <1>5, <1>6, <1>7, <1>8
     DEF IInv, Control, Pids, Bytes, Types, Pid, Image, Coming, Writer, Live, Clean,
         Frame, InOrder, Frames, PageBytes
<1> QED
  BY <1>9, <1>10, <1>11 DEF IInv

\* finish_pass returns to its caller.
LEMMA FinishDoneKeeps ==
  ASSUME IInv, NEW c \in Ctx, FinishDone(c), c = "hand" => M # "exited",
         UNCHANGED << program, signals >>
  PROVE  IInv'
<1>1. \/ c = "main" /\ M = "finished" /\ H = "none" /\ M' = then[c] /\ H' = "none"
      \/ c = "hand" /\ H = "finished" /\ M # "exited" /\ H' = then[c] /\ M' = M
  BY DEF IInv, Types, FinishDone, At, Goto, Ctx, M, H
<1>2. at' = [x \in Ctx |-> at'[x]]
  BY DEF IInv, Types, FinishDone, Goto
<1>3. 0 \in 0..MaxKids
  BY Sizes
<1>4. /\ then' \in [Ctx -> {"none", "eof", "cancelled"}]
      /\ \A x \in Ctx : x # c => then'[x] = then[x]
      /\ then["hand"] = "cancelled" \/ H # "finished"
      /\ then["main"] \in {"eof", "cancelled"} \/ M # "finished"
  BY DEF IInv, Types, Control, FinishDone, Ctx
<1>5. /\ dev' \in DevType /\ dev'.scanning = dev.scanning
      /\ dev'.cancelled = dev.cancelled /\ dev'.eof = dev.eof
      /\ dev'.bytes = dev.bytes /\ dev'.pass = dev.pass /\ dev'.pid = dev.pid
      /\ dev'.pipe = dev.pipe /\ dev'.wfd = 0
  BY <1>1, <1>2, <1>3, <1>4 DEF IInv, Types, DevType, FinishDone
<1>6. /\ UNCHANGED << three, adf, kids, nk, got, status, mishaps, n, first_frame,
                     last, img, part, pages, first_time, pend, nsig, hit,
                     stopped, aborted >>
  BY DEF FinishDone, mode, program, signals
<1>7. Types'
  BY <1>1, <1>2, <1>3, <1>4, <1>5, <1>6
     DEF IInv, Types, MainLabels, HandLabels, Stati, Ctx
<1>8. Control' /\ Pids' /\ Orphans' /\ Stopped' /\ PartFile'
  BY <1>1, <1>2, <1>3, <1>4, <1>5, <1>6
     DEF IInv, Control, Ctx, Pids, Orphans, Live, Pid, Writer, Stopped, Clean, Types,
         PartFile
<1>9. Bytes' /\ Image' /\ Writer' /\ Frame'
  BY <1>1, <1>2, <1>3, <1>4, <1>5, <1>6
     DEF IInv, Control, Pids, Bytes, Ctx, Types, Image, Coming, Writer, Live, Clean,
         Frame, InOrder, Frames, PageBytes
<1> QED
  BY <1>7, <1>8, <1>9 DEF IInv

\* sane_cancel has nothing to do.
LEMMA CancelNotKeeps ==
  ASSUME IInv, NEW c \in Ctx, NEW ret,
         (c = "main" /\ ret = "exited") \/ (c = "hand" /\ ret = "none"),
         CancelStarts(c, ret), c = "hand" => M # "exited",
         UNCHANGED << program, signals >>, at'[c] = ret
  PROVE  IInv'
<1>1. \/ c = "main" /\ M = "cancel" /\ H = "none" /\ M' = "exited" /\ H' = "none"
      \/ c = "hand" /\ H = "cancel" /\ M # "exited" /\ H' = "none" /\ M' = M
  BY DEF IInv, Types, CancelStarts, At, Goto, Ctx, M, H
<1>2. at' = [x \in Ctx |-> at'[x]]
  BY DEF IInv, Types, CancelStarts, Goto
<1>3. /\ UNCHANGED << three, adf, dev, kids, nk, then, got, status, mishaps, n,
                     first_frame, last, img, part, pages, first_time, pend,
                     nsig, hit, stopped, aborted >>
      /\ dev.cancelled \/ ~dev.scanning
  BY <1>1 DEF CancelStarts, mode, program, signals, IInv, Types, Goto, Ctx, M, H
<1>4. Types'
  BY <1>1, <1>2, <1>3 DEF IInv, Types, MainLabels, HandLabels, Stati
<1>5. Control' /\ Pids' /\ Orphans' /\ Stopped' /\ PartFile'
  BY <1>1, <1>2, <1>3
     DEF IInv, Control, Pids, Orphans, Live, Pid, Writer, Stopped, Clean, Types, PartFile
<1>6. Bytes' /\ Image' /\ Writer' /\ Frame'
  BY <1>1, <1>2, <1>3
     DEF IInv, Control, Pids, Bytes, Types, Image, Coming, Writer, Live, Clean, Frame,
         InOrder, Frames, PageBytes
<1> QED
  BY <1>4, <1>5, <1>6 DEF IInv

\* sane_cancel ends the pass that is under way.
LEMMA CancelPassKeeps ==
  ASSUME IInv, NEW c \in Ctx, NEW ret,
         (c = "main" /\ ret = "exited") \/ (c = "hand" /\ ret = "none"),
         CancelStarts(c, ret), c = "hand" => M # "exited",
         UNCHANGED << program, signals >>, at'[c] = "finish"
  PROVE  IInv'
<1>1. \/ c = "main" /\ M = "cancel" /\ H = "none" /\ M' = "finish" /\ H' = "none"
      \/ c = "hand" /\ H = "cancel" /\ M # "exited" /\ H' = "finish" /\ M' = M
  BY DEF IInv, Types, CancelStarts, At, Goto, Ctx, M, H
<1>2. at' = [x \in Ctx |-> at'[x]]
  BY DEF IInv, Types, CancelStarts, Goto
<1>3. /\ UNCHANGED << three, adf, dev, kids, nk, got, status, mishaps, n,
                     first_frame, last, img, part, pages, first_time, pend,
                     nsig, hit, stopped, aborted >>
      /\ then' = [then EXCEPT ![c] = "cancelled"] /\ ~dev.cancelled
      /\ dev.scanning
  BY <1>1 DEF CancelStarts, mode, program, signals, IInv, Types, Goto, Ctx, M, H
<1>4. Types'
  BY <1>1, <1>2, <1>3 DEF IInv, Types, MainLabels, HandLabels, Stati, Ctx
<1>5. Control' /\ Pids' /\ Orphans' /\ Stopped' /\ PartFile'
  BY <1>1, <1>2, <1>3
     DEF IInv, Control, Ctx, Types, Pids, Orphans, Live, Pid, Writer, Stopped, Clean,
         PartFile
<1>6. Bytes' /\ Image' /\ Writer' /\ Frame'
  BY <1>1, <1>2, <1>3
     DEF IInv, Control, Pids, Bytes, Ctx, Types, Image, Coming, Writer, Live, Clean,
         Frame, InOrder, Frames, PageBytes
<1> QED
  BY <1>4, <1>5, <1>6 DEF IInv

\* The pass is marked as cancelled, in the middle of whatever main does.
LEMMA CancelDoneKeeps ==
  ASSUME IInv, NEW c \in Ctx, NEW ret,
         (c = "main" /\ ret = "exited") \/ (c = "hand" /\ ret = "none"),
         CancelDone(c, ret), c = "hand" => M # "exited",
         UNCHANGED << program, first_time, pend, nsig, hit, aborted >>,
         stopped' = (stopped \/ c = "hand")
  PROVE  IInv'
<1>1. \/ c = "main" /\ M = "cancelled" /\ H = "none" /\ M' = "exited" /\ H' = "none"
      \/ c = "hand" /\ H = "cancelled" /\ M # "exited" /\ H' = "none" /\ M' = M
  BY DEF IInv, Types, CancelDone, At, Goto, Ctx, M, H
<1>2. at' = [x \in Ctx |-> at'[x]]
  BY DEF IInv, Types, CancelDone, Goto
<1>3. 0 \in 0..2
  OBVIOUS
<1>4. /\ dev' \in DevType /\ dev'.scanning = FALSE /\ dev'.cancelled = TRUE
      /\ dev'.eof = FALSE /\ dev'.bytes = dev.bytes /\ dev'.pass = 0
      /\ dev'.pid = dev.pid /\ dev'.pipe = dev.pipe /\ dev'.wfd = dev.wfd
  BY <1>1, <1>2, <1>3 DEF IInv, Types, DevType, CancelDone
<1>5. /\ UNCHANGED << three, adf, kids, nk, then, got, status, mishaps, n,
                     first_frame, last, img, part, pages, first_time, pend,
                     nsig, hit, aborted >>
      /\ stopped' = (stopped \/ c = "hand")
  BY <1>1 DEF CancelDone, mode, program, signals, IInv, Types, Goto, Ctx, M, H
<1>6. Types'
  BY <1>1, <1>2, <1>3, <1>4, <1>5 DEF IInv, Types, MainLabels, HandLabels, Stati
<1>7. Control' /\ Pids' /\ Orphans' /\ Stopped' /\ PartFile'
  BY <1>1, <1>2, <1>3, <1>4, <1>5
     DEF IInv, Control, Pids, Orphans, Live, Pid, Writer, Stopped, Clean, Types, PartFile
<1>8. Bytes' /\ Image' /\ Writer' /\ Frame'
  BY <1>1, <1>2, <1>3, <1>4, <1>5
     DEF IInv, Control, Pids, Bytes, Types, Image, Coming, Writer, Live, Clean, Frame,
         InOrder, Frames, PageBytes
<1> QED
  BY <1>6, <1>7, <1>8 DEF IInv

LEMMA SignalTermKeeps ==
  ASSUME IInv, Signal("term")
  PROVE  IInv'
<1>1. /\ M' = M /\ H' = H /\ at' = [x \in Ctx |-> at'[x]]
  BY DEF IInv, Types, Signal, M, H
<1>2. /\ UNCHANGED << three, adf, dev, kids, nk, then, got, status, mishaps, n,
                     first_frame, last, img, part, pages, first_time, hit,
                     stopped, aborted >>
      /\ pend' \in Nat /\ nsig' \in Nat
  BY DEF IInv, Types, Signal, mode, program
<1>3. Types'
  BY <1>1, <1>2 DEF IInv, Types, MainLabels, HandLabels, Stati
<1>4. Control' /\ Pids' /\ Orphans' /\ Stopped' /\ PartFile'
  BY <1>1, <1>2
     DEF IInv, Control, Pids, Orphans, Live, Pid, Writer, Stopped, Clean, Types, PartFile
<1>5. Bytes' /\ Image' /\ Writer' /\ Frame'
  BY <1>1, <1>2
     DEF IInv, Control, Pids, Bytes, Types, Image, Coming, Writer, Live, Clean, Frame,
         InOrder, Frames, PageBytes
<1> QED
  BY <1>3, <1>4, <1>5 DEF IInv

\* SIGINT reaches the readers too; from then on nothing is clean.
LEMMA SignalIntKeeps ==
  ASSUME IInv, Signal("int")
  PROVE  IInv'
<1>1. /\ M' = M /\ H' = H /\ at' = [x \in Ctx |-> at'[x]]
  BY DEF IInv, Types, Signal, M, H
<1>2. kids' \in [Pid -> KidType]
  <2>1. ASSUME NEW k \in Pid PROVE [kids[k] EXCEPT !.int = Live(k)] \in KidType
    <3>1. kids[k] \in KidType /\ Live(k) \in BOOLEAN
      BY DEF IInv, Types, Live
    <3> QED
      BY <3>1 DEF KidType
  <2> QED
    BY <2>1 DEF Signal
<1>3. \A k \in Pid : /\ kids'[k].st = kids[k].st /\ kids'[k].wrote = kids[k].wrote
                     /\ kids'[k].taken = kids[k].taken /\ kids'[k].fd = kids[k].fd
                     /\ kids'[k].term = kids[k].term
  BY DEF IInv, Types, Signal, KidType
<1>4. /\ mishaps' \subseteq {"reader", "int", "file"} /\ "int" \in mishaps'
      /\ "file" \in mishaps' <=> "file" \in mishaps
  BY DEF IInv, Types, Signal, Fails
<1>5. dev.pid \in Pid \cup {-1} /\ dev.pipe \in 0..MaxKids /\ nk \in 0..MaxKids
  BY DEF IInv, Types, DevType
<1>6. /\ UNCHANGED << three, adf, dev, nk, then, got, status, n, first_frame,
                     last, img, part, pages, first_time, hit, stopped, aborted >>
      /\ pend' \in Nat /\ nsig' \in Nat
  BY DEF IInv, Types, Signal, mode, program
<1>7. Types'
  BY <1>1, <1>2, <1>3, <1>4, <1>5, <1>6 DEF IInv, Types, MainLabels, HandLabels, Stati
<1>8. Control' /\ Pids' /\ Orphans' /\ Stopped' /\ PartFile'
  BY <1>1, <1>2, <1>3, <1>4, <1>5, <1>6
     DEF IInv, Control, Pids, Pid, Orphans, Live, Writer, Stopped, Clean, Types, PartFile
<1>9. Bytes' /\ Image' /\ Writer' /\ Frame'
  BY <1>1, <1>2, <1>3, <1>4, <1>5, <1>6
     DEF IInv, Control, Pids, Bytes, Pid, Types, Image, Coming, Writer, Live, Clean,
         Frame, InOrder, Frames, PageBytes
<1> QED
  BY <1>7, <1>8, <1>9 DEF IInv

\* The first signal: the handler takes over.
LEMMA HandlerFirstKeeps ==
  ASSUME IInv, sighandler, first_time
  PROVE  IInv'
<1>1. /\ M' = M /\ H' = "cancel" /\ H = "none" /\ M # "exited"
      /\ at' = [x \in Ctx |-> at'[x]]
  BY DEF IInv, Types, Control, sighandler, Goto, Ctx, M, H
<1>2. /\ first_time' \in BOOLEAN /\ ~first_time' /\ hit' \in BOOLEAN
      /\ hit' <=> M \in Starting
  <2>1. first_time' = FALSE /\ hit' = InStart
    BY DEF sighandler
  <2>2. InStart \in BOOLEAN /\ (InStart <=> M \in Starting)
    BY DEF InStart, M
  <2> HIDE DEF Starting
  <2> QED
    BY <2>1, <2>2
<1>3. /\ UNCHANGED << three, adf, dev, kids, nk, then, got, status, mishaps, n,
                     first_frame, last, img, part, pages, nsig, stopped, aborted >>
      /\ pend' \in Nat
  BY DEF IInv, Types, sighandler, mode, program
<1>4. Types'
  BY <1>1, <1>2, <1>3 DEF IInv, Types, MainLabels, HandLabels, Stati
<1>5. Control' /\ Pids' /\ Orphans' /\ Stopped' /\ PartFile'
  BY <1>1, <1>2, <1>3
     DEF IInv, Control, Pids, Orphans, Live, Pid, Writer, Stopped, Clean, Types, PartFile
<1>6. Bytes' /\ Image' /\ Writer' /\ Frame'
  BY <1>1, <1>2, <1>3
     DEF IInv, Control, Pids, Bytes, Types, Image, Coming, Writer, Live, Clean, Frame,
         InOrder, Frames, PageBytes
<1> QED
  BY <1>4, <1>5, <1>6 DEF IInv

\* The second one ends the program.
LEMMA HandlerSecondKeeps ==
  ASSUME IInv, sighandler, ~first_time
  PROVE  IInv'
<1>1. /\ M' = "exited" /\ H' = H /\ M # "exited" /\ at' = [x \in Ctx |-> at'[x]]
  BY DEF IInv, Types, sighandler, Goto, Ctx, M, H
<1>2. /\ first_time' \in BOOLEAN /\ ~first_time' /\ aborted' \in BOOLEAN
      /\ aborted'
  BY DEF sighandler
<1>3. /\ UNCHANGED << three, adf, dev, kids, nk, then, got, status, mishaps, n,
                     first_frame, last, img, part, pages, nsig, hit, stopped >>
      /\ pend' \in Nat
  BY DEF IInv, Types, sighandler, mode, program
<1>4. Types'
  BY <1>1, <1>2, <1>3 DEF IInv, Types, MainLabels, HandLabels, Stati
<1>5. Control' /\ Pids' /\ Orphans' /\ Stopped' /\ PartFile'
  BY <1>1, <1>2, <1>3
     DEF IInv, Control, Pids, Orphans, Live, Pid, Writer, Stopped, Clean, Types, PartFile
<1>6. Bytes' /\ Image' /\ Writer' /\ Frame'
  BY <1>1, <1>2, <1>3
     DEF IInv, Control, Pids, Bytes, Types, Image, Coming, Writer, Live, Clean, Frame,
         InOrder, Frames, PageBytes
<1> QED
  BY <1>4, <1>5, <1>6 DEF IInv

\* What a step makes of a reader that lives: it takes nothing from the pipe, and
\* one that is neither signalled nor out of memory goes on.
Grows(k, kid) ==
  /\ kid \in KidType /\ kid.st \in {"born", "writing", "sleep", "dead"}
  /\ kid.taken = kids[k].taken /\ kid.taken <= kid.wrote

GoesOn(kid) == kid.st \in {"born", "writing", "sleep"} /\ kid.fd /\ ~kid.term /\ ~kid.int

Quiet(k) == /\ dev.pipe = k /\ M # "exited" /\ kids[k].fd
            /\ ~kids[k].term /\ ~kids[k].int

LEMMA DeadGrows ==
  ASSUME NEW k \in Pid, NEW kid \in KidType, kid.taken = kids[k].taken, kid.taken <= kid.wrote
  PROVE  Grows(k, Ended(kid))
<1>1. 0 \in 0..Total /\ kid.wrote \in 0..Total /\ kid.taken \in 0..Total
  BY Sizes DEF KidType
<1> QED
  BY <1>1 DEF Grows, Ended, NoKid, KidType

LEMMA InChildGrows ==
  ASSUME NEW k \in Pid, kids[k] \in KidType, Live(k), kids[k].taken <= kids[k].wrote
  PROVE  Grows(k, InChild(kids[k]))
<1>1. CASE ~kids[k].first
  BY <1>1, DeadGrows DEF InChild
<1>2. CASE kids[k].first /\ kids[k].scan
  BY <1>2 DEF InChild, Grows, Live, KidType
<1>3. CASE kids[k].first /\ ~kids[k].scan
  BY <1>3 DEF InChild, Grows, Live, KidType
<1> QED
  BY <1>1, <1>2, <1>3

LEMMA ReaderStep ==
  ASSUME IInv, NEW k \in Pid, reader_task(k)
  PROVE  /\ Live(k)
         /\ UNCHANGED << three, adf, dev, nk, at, then, got, status >>
         /\ \E kid : /\ kids' = [kids EXCEPT ![k] = kid] /\ Grows(k, kid)
                     /\ "reader" \notin mishaps' /\ Quiet(k) => GoesOn(kid)
         /\ mishaps' \in {mishaps, mishaps \cup {"reader"}}
<1>1. /\ kids[k] \in KidType /\ kids[k].taken <= kids[k].wrote
      /\ kids[k].wrote \in 0..Total /\ kids[k].taken \in 0..Total
  BY DEF IInv, Types, Bytes, KidType
<1>2. CASE KidStarts(k)
  <2>1. Grows(k, Dead(k))
    BY <1>1, DeadGrows DEF Dead
  <2>2. Grows(k, [kids[k] EXCEPT !.st = "writing"])
    BY <1>1 DEF Grows, KidType
  <2>3. Quiet(k) => GoesOn([kids[k] EXCEPT !.st = "writing"])
    BY <1>1 DEF Quiet, GoesOn, KidType
  <2>4. \/ Child(k, [kids[k] EXCEPT !.st = "writing"]) /\ UNCHANGED mishaps
        \/ Child(k, Dead(k)) /\ mishaps' = mishaps \cup {"reader"}
    BY <1>2 DEF KidStarts
  <2>5. Live(k)
    BY <1>2 DEF KidStarts, Live
  <2> QED
    BY <2>1, <2>2, <2>3, <2>4, <2>5 DEF Child, mode
<1>3. CASE KidWrites(k)
  <2>1. Grows(k, Dead(k))
    BY <1>1, DeadGrows DEF Dead
  <2>2. kids[k].st = "writing" /\ kids[k].wrote < Total /\ Live(k) /\ UNCHANGED mishaps
    BY <1>3 DEF KidWrites, Live
  <2> DEFINE more == [kids[k] EXCEPT !.wrote = @ + 1]
  <2>3. Grows(k, more)
    BY <1>1, <2>2, Sizes DEF Grows, KidType
  <2>4. Quiet(k) => GoesOn(more)
    BY <1>1, <2>2 DEF Quiet, GoesOn, KidType
  <2>5. Child(k, more) \/ (Child(k, Dead(k)) /\ ~Quiet(k))
    BY <1>3 DEF KidWrites, ReadEndOpen, Quiet, M
  <2> HIDE DEF more
  <2> QED
    BY <2>1, <2>2, <2>3, <2>4, <2>5 DEF Child, mode
<1>4. CASE KidFinished(k)
  <2> DEFINE kid == [kids[k] EXCEPT !.st = "sleep"]
  <2>1. Child(k, kid) /\ UNCHANGED mishaps /\ Live(k)
    BY <1>4 DEF KidFinished, Live
  <2>2. Grows(k, kid)
    BY <1>1 DEF Grows, KidType
  <2>3. Quiet(k) => GoesOn(kid)
    BY <1>1 DEF Quiet, GoesOn, KidType
  <2> HIDE DEF kid
  <2> QED
    BY <2>1, <2>2, <2>3 DEF Child, mode
<1>5. CASE KidTerm(k)
  <2> DEFINE kid == [InChild(kids[k]) EXCEPT !.term = FALSE]
  <2>1. Grows(k, Dead(k))
    BY <1>1, DeadGrows DEF Dead
  <2>2. Grows(k, kid)
    <3>1. Grows(k, InChild(kids[k]))
      BY <1>1, <1>5, InChildGrows DEF KidTerm
    <3> HIDE DEF InChild
    <3> QED
      BY <3>1 DEF Grows, KidType
  <2>3. (Child(k, kid) \/ Child(k, Dead(k))) /\ UNCHANGED mishaps /\ Live(k) /\ ~Quiet(k)
    BY <1>5 DEF KidTerm, Quiet
  <2> HIDE DEF kid
  <2> QED
    BY <2>1, <2>2, <2>3 DEF Child, mode
<1>6. CASE KidInt(k)
  <2> DEFINE kid == [InChild(kids[k]) EXCEPT !.int = FALSE]
  <2>1. Grows(k, kid)
    <3>1. Grows(k, InChild(kids[k]))
      BY <1>1, <1>6, InChildGrows DEF KidInt
    <3> HIDE DEF InChild
    <3> QED
      BY <3>1 DEF Grows, KidType
  <2>2. Child(k, kid) /\ UNCHANGED mishaps /\ Live(k) /\ ~Quiet(k)
    BY <1>6 DEF KidInt, Quiet
  <2> HIDE DEF kid
  <2> QED
    BY <2>1, <2>2 DEF Child, mode
<1> QED
  BY <1>2, <1>3, <1>4, <1>5, <1>6 DEF reader_task

\* A reader moves, and nobody else.
LEMMA ReaderKeeps ==
  ASSUME IInv, NEW k \in Pid, reader_task(k), UNCHANGED << program, signals >>
  PROVE  IInv'
<1>1. /\ M' = M /\ H' = H /\ at' = [x \in Ctx |-> at'[x]]
  BY ReaderStep DEF IInv, Types, M, H
<1>2. PICK kid : /\ kids' = [kids EXCEPT ![k] = kid] /\ Grows(k, kid)
                 /\ "reader" \notin mishaps' /\ Quiet(k) => GoesOn(kid)
  BY ReaderStep
<1>3. mishaps' \subseteq {"reader", "int", "file"} /\ mishaps' \in {mishaps, mishaps \cup {"reader"}}
  BY ReaderStep DEF IInv, Types
<1>4. /\ kids' \in [Pid -> KidType] /\ kids'[k] = kid
      /\ \A j \in Pid : j # k => kids'[j] = kids[j]
      /\ kids[k].st \in {"born", "writing", "sleep"}
  BY <1>2, ReaderStep DEF IInv, Types, Grows, Live
<1>5. /\ kids'[k].st \in {"born", "writing", "sleep", "dead"}
      /\ kids'[k].taken = kids[k].taken /\ kids'[k].taken <= kids'[k].wrote
  BY <1>2, <1>4 DEF Grows
<1>6. /\ UNCHANGED << three, adf, dev, nk, then, got, status, n, first_frame,
                     last, img, part, pages, first_time, pend, nsig, hit,
                     stopped, aborted >>
  BY ReaderStep DEF program, signals
<1>7. dev.pid \in Pid \cup {-1} /\ dev.pipe \in 0..MaxKids /\ nk \in 0..MaxKids
  BY DEF IInv, Types, DevType
<1>8. Types'
  BY <1>1, <1>2, <1>3, <1>4, <1>5, <1>6, <1>7
     DEF IInv, Types, MainLabels, HandLabels, Stati
<1>9. Control' /\ Pids' /\ Orphans' /\ Stopped' /\ PartFile'
  BY <1>1, <1>2, <1>3, <1>4, <1>5, <1>6, <1>7
     DEF IInv, Control, Pids, Pid, Orphans, Live, Writer, Stopped, Clean, Types, PartFile
<1>10. Bytes' /\ Image' /\ Frame'
  BY <1>1, <1>2, <1>3, <1>4, <1>5, <1>6, <1>7
     DEF IInv, Control, Pids, Bytes, Pid, Types, Image, Coming, Writer, Frame, InOrder,
         Clean, Frames, PageBytes
<1>11. Writer'
  <2>1. Clean' => Clean /\ "reader" \notin mishaps'
    BY <1>3 DEF Clean
  <2>2. CASE dev.pipe # k
    BY <1>1, <1>4, <1>6, <1>7, <2>1, <2>2 DEF IInv, Writer, Live, Pid
  <2>3. CASE dev.pipe = k
    <3>1. Clean' /\ (Reading \/ M = "read3") => Quiet(k)
      BY <2>1, <2>3 DEF IInv, Writer, Quiet, Pid
    <3>2. Clean' /\ (Reading \/ M = "read3") => GoesOn(kid)
      BY <1>2, <2>1, <3>1
    <3> QED
      BY <1>1, <1>4, <1>6, <2>1, <2>3, <3>2 DEF IInv, Writer, Live, GoesOn
  <2> QED
    BY <2>2, <2>3
<1> QED
  BY <1>8, <1>9, <1>10, <1>11 DEF IInv

-------------------------------------------------------------------------------
(* The invariant holds.                                                    *)

LEMMA InitHolds == ScanInit => IInv
<1> SUFFICES ASSUME ScanInit PROVE IInv
  OBVIOUS
<1> USE Sizes, ScanAssumption
<1>1. M = "begin" /\ H = "none" /\ at = [x \in Ctx |-> at[x]]
  BY DEF ScanInit, Init, M, H, Ctx
<1>2. /\ dev \in DevType /\ dev.scanning = FALSE /\ dev.cancelled = FALSE /\ dev.eof = FALSE
      /\ dev.bytes = 0 /\ dev.pass = 0 /\ dev.pid = -1 /\ dev.pipe = 0 /\ dev.wfd = 0
  BY DEF ScanInit, Init, DevType
<1>3. NoKid \in KidType /\ NoKid.st = "none" /\ NoKid.taken = 0 /\ NoKid.wrote = 0
  BY DEF NoKid, KidType
<1>4. kids = [k \in Pid |-> NoKid] /\ nk = 0 /\ mishaps = {} /\ status = "good"
      /\ img = 0 /\ pages = << >> /\ part = FALSE /\ aborted = FALSE /\ stopped = FALSE
      /\ hit = FALSE /\ then = [c \in Ctx |-> "none"]
  BY DEF ScanInit, Init
<1>5. Types
  <2>1. kids \in [Pid -> KidType] /\ nk \in 0..MaxKids
    BY <1>3, <1>4
  <2>2. n \in 1..(Batch + 1) /\ n <= Batch /\ got \in -1..Total
    BY DEF ScanInit, Init
  <2>3. then \in [Ctx -> {"none", "eof", "cancelled"}]
    BY <1>4
  <2>4. mishaps \subseteq {"reader", "int", "file"} /\ status \in Stati
    BY <1>4 DEF Stati
  <2> QED
    BY <1>1, <1>2, <2>1, <2>2, <2>3, <2>4
       DEF ScanInit, Init, Types, MainLabels, HandLabels
<1>6. Control /\ Pids /\ Orphans
  BY <1>1, <1>2, <1>3, <1>4 DEF Control, Pids, Orphans, Live
<1>7. Bytes /\ Image
  BY <1>1, <1>2, <1>3, <1>4 DEF Bytes, Image, Coming
<1>8. Writer /\ Frame /\ Stopped /\ PartFile
  BY <1>1, <1>2, <1>3, <1>4 DEF Writer, Frame, Stopped, PartFile
<1> QED
  BY <1>5, <1>6, <1>7, <1>8 DEF IInv

\* The calls of sane_start, sane_read and sane_cancel that main makes.
LEMMA CallsKeep ==
  ASSUME IInv, UNCHANGED << program, signals >>,
         sane_start(first_time) \/ sane_read \/ finish_pass("main") \/ sane_cancel("main", "exited")
  PROVE  IInv'
<1> USE DEF Ctx
<1>1. CASE sane_start(first_time)
  <2>1. CASE StartPipe
    <3>1. M' \in {"start4", "started"}
      BY <2>1 DEF IInv, Types, StartPipe, Goto, Returns, M
    <3> QED
      BY <2>1, <3>1, StartPipeMadeKeeps, StartPipeFailedKeeps
  <2>2. CASE StartFork(first_time)
    <3>1. M' \in {"start5", "started"}
      BY <2>2 DEF IInv, Types, StartFork, Goto, Returns, M
    <3> QED
      BY <2>2, <3>1, StartForkMadeKeeps, StartForkFailedKeeps
  <2> QED
    BY <1>1, <2>1, <2>2, StartRefusedKeeps, StartScanningKeeps, StartResetKeeps,
       StartForkedKeeps, StartDoneKeeps DEF sane_start
<1>2. CASE sane_read
  <2>1. CASE ReadChecks
    <3>1. M' \in {"read2", "readDone"}
      BY <2>1 DEF IInv, Types, ReadChecks, Goto, Returns, M
    <3> QED
      BY <2>1, <3>1, ReadChecksGoodKeeps, ReadChecksEndKeeps
  <2>2. CASE ReadTakes
    <3>1. M' = "finish" \/ (M' = "readDone" /\ (got < 0 \/ got > 0))
      BY <2>2 DEF IInv, Types, ReadTakes, Goto, Returns, M
    <3> QED
      BY <2>2, <3>1, ReadTakesLastKeeps, ReadTakesNoneKeeps, ReadTakesDataKeeps
  <2> QED
    BY <1>2, <2>1, <2>2, ReadPipeKeeps, ReadEofKeeps DEF sane_read
<1>3. CASE finish_pass("main")
  BY <1>3, FinishMarkKeeps, FinishCloseKeeps, FinishKillKeeps, FinishWaitKeeps,
     FinishDoneKeeps DEF finish_pass
<1>4. CASE sane_cancel("main", "exited")
  <2>1. CASE CancelStarts("main", "exited")
    <3>1. at'["main"] \in {"exited", "finish"}
      BY <2>1 DEF IInv, Types, CancelStarts, Goto
    <3> QED
      BY <2>1, <3>1, CancelNotKeeps, CancelPassKeeps
  <2>2. CASE CancelDone("main", "exited")
    <3>1. /\ UNCHANGED << program, first_time, pend, nsig, hit, aborted >>
          /\ stopped' = (stopped \/ "main" = "hand")
      BY DEF signals, IInv, Types
    <3> QED
      BY <2>2, <3>1, CancelDoneKeeps
  <2> QED
    BY <1>4, <2>1, <2>2 DEF sane_cancel
<1> QED
  BY <1>1, <1>2, <1>3, <1>4

LEMMA MainKeeps == ASSUME IInv, Main PROVE IInv'
<1> USE DEF Ctx
<1>1. CASE StartFailed
  <2>1. M' \in {"cancel", "pageEnd"}
    BY <1>1 DEF IInv, Types, StartFailed, Goto, M
  <2> QED
    BY <1>1, <2>1, StartFailedFirstKeeps, StartFailedLaterKeeps
<1>2. CASE StartSucceeded
  <2>1. M' \in {"read", "cancel"}
    BY <1>2 DEF IInv, Types, StartSucceeded, Goto, M
  <2> QED
    BY <1>2, <2>1, StartSucceededFileKeeps, StartSucceededNotKeeps
<1>3. CASE ReadReturned
  <2>1. M' \in {"read", "start", "pageEnd"}
    BY <1>3 DEF IInv, Types, ReadReturned, Goto, Returns, M
  <2> QED
    BY <1>3, <2>1, ReadReturnedDataKeeps, ReadReturnedFrameKeeps, ReadReturnedPageKeeps
<1>4. CASE PageEnd
  <2>1. CASE /\ status = "good" /\ part' = FALSE /\ pages' = Append(pages, img) /\ n' = n + 1
             /\ Goto("main", IF n < Batch THEN "begin" ELSE "cancel") /\ UNCHANGED mishaps
    <3>1. M' \in {"begin", "cancel"}
      BY <2>1 DEF IInv, Types, Goto, M
    <3> QED
      BY <1>4, <2>1, <3>1, PageEndNextKeeps, PageEndNamedKeeps
  <2>2. CASE /\ Goto("main", "cancel") /\ Fails("file") /\ UNCHANGED << part, pages, n >>
    <3>1. /\ M' = "cancel" /\ pages' = pages /\ n' \in {n, n + 1} /\ part' \in BOOLEAN
          /\ "file" \in mishaps' /\ mishaps \subseteq mishaps'
          /\ mishaps' \subseteq mishaps \cup {"file"}
      BY <2>2 DEF IInv, Types, Goto, M, Fails
    <3> QED
      BY <1>4, <3>1, PageEndNotKeeps
  <2>3. CASE /\ part' = FALSE /\ n' = n + 1 /\ Goto("main", "cancel")
             /\ UNCHANGED << pages, mishaps >>
    <3>1. /\ M' = "cancel" /\ pages' = pages /\ n' \in {n, n + 1} /\ part' \in BOOLEAN
          /\ ~part' /\ mishaps \subseteq mishaps' /\ mishaps' \subseteq mishaps \cup {"file"}
      BY <2>3 DEF IInv, Types, Goto, M
    <3> QED
      BY <1>4, <3>1, PageEndNotKeeps
  <2> QED
    BY <1>4, <2>1, <2>2, <2>3 DEF PageEnd
<1> QED
  BY <1>1, <1>2, <1>3, <1>4, BeginPageKeeps, CallsKeep DEF Main

LEMMA HandlerKeeps == ASSUME IInv, Handler PROVE IInv'
<1> USE DEF Ctx
<1>1. M # "exited" /\ UNCHANGED << program, first_time, pend, nsig, hit, aborted >>
  BY DEF Handler, M
<1>2. ASSUME at["hand"] # "cancelled" PROVE UNCHANGED << program, signals >>
  BY <1>2 DEF Handler, signals, IInv, Types
<1>3. CASE finish_pass("hand")
  <2>1. at["hand"] # "cancelled"
    BY <1>3
       DEF finish_pass, FinishMark, FinishClose, FinishKill, FinishWait, FinishDone, At
  <2> QED
    BY <1>1, <1>2, <1>3, <2>1, FinishMarkKeeps, FinishCloseKeeps, FinishKillKeeps,
       FinishWaitKeeps, FinishDoneKeeps DEF finish_pass
<1>4. CASE CancelStarts("hand", "none")
  <2>1. at["hand"] = "cancel" /\ at'["hand"] \in {"none", "finish"}
    BY <1>4 DEF IInv, Types, CancelStarts, At, Goto
  <2> QED
    BY <1>1, <1>2, <1>4, <2>1, CancelNotKeeps, CancelPassKeeps
<1>5. CASE CancelDone("hand", "none")
  <2>1. stopped' = (stopped \/ "hand" = "hand")
    BY <1>5 DEF Handler, CancelDone, At
  <2> QED
    BY <1>1, <1>5, <2>1, CancelDoneKeeps
<1> QED
  BY <1>3, <1>4, <1>5 DEF Handler, sane_cancel

LEMMA StepKeeps == IInv /\ [Next]_vars => IInv'
<1> SUFFICES ASSUME IInv, [Next]_vars PROVE IInv'
  OBVIOUS
<1>1. CASE UNCHANGED vars
  <2>1. M' = M /\ H' = H
    BY <1>1 DEF vars, backend, M, H
  <2> QED
    BY <1>1, <2>1
       DEF vars, backend, program, signals, IInv, Types, Control, Pids, Orphans,
       Bytes, Image, Writer, Frame, Stopped, PartFile, Live, Clean, Coming, Frames, InOrder,
       PageBytes
<1>2. CASE Reader
  BY <1>2, ReaderKeeps DEF Reader
<1>3. CASE sighandler
  BY <1>3, HandlerFirstKeeps, HandlerSecondKeeps
<1> QED
  BY <1>1, <1>2, <1>3, MainKeeps, HandlerKeeps, SignalTermKeeps, SignalIntKeeps
     DEF Next, Terminated

LEMMA InvariantHolds == Spec => []IInv
BY InitHolds, StepKeeps, PTL DEF Spec

-------------------------------------------------------------------------------
(* Theorems.                                                               *)

(***************************************************************************)
(* Every variable of the test backend and of scanimage has its type: no    *)
(* frame counts more than its bytes (ctr in sane_read), the pass stays     *)
(* within the three, and a page has no more than the readers have sent.    *)
(***************************************************************************)
THEOREM TypesHold == Spec => []ScanTypeOK
<1>1. IInv => ScanTypeOK
  <2> SUFFICES ASSUME IInv PROVE ScanTypeOK
    OBVIOUS
  <2>1. img \in 0..(MaxKids * Total)
    BY ImageBound
  <2> QED
    BY <2>1 DEF IInv, Types, Image, DevType, KidType, ScanTypeOK
<1> QED
  BY <1>1, InvariantHolds, PTL

(***************************************************************************)
(* finish_pass kills a reader that is its own and has not been waited for, *)
(* in main and in the handler that interrupts it anywhere.                 *)
(***************************************************************************)
THEOREM OwnReader == Spec => []KillsOwnReader
<1>1. IInv => KillsOwnReader
  BY DEF IInv, Types, DevType, Pids, KillsOwnReader, Ctx, M, H
<1> QED
  BY <1>1, InvariantHolds, PTL

(***************************************************************************)
(* scanimage leaves no reader behind, whatever signals come, unless one of *)
(* them falls into sane_start or is the second.                            *)
(***************************************************************************)
THEOREM NoneLeft == Spec => []NoReaderLeft
<1>1. IInv => NoReaderLeft
  BY DEF IInv, Orphans, NoReaderLeft, M, Pid
<1> QED
  BY <1>1, InvariantHolds, PTL

(***************************************************************************)
(* A page that is renamed from its .part file is complete, for every size  *)
(* of a frame and of the pipe and for every sequence of signals.           *)
(***************************************************************************)
THEOREM PagesComplete == Spec => []CompletePages
<1>1. IInv => CompletePages
  BY DEF IInv, Frame, Clean, CompletePages
<1> QED
  BY <1>1, InvariantHolds, PTL

(***************************************************************************)
(* No .part file is left when scanimage ends by itself.                    *)
(***************************************************************************)
THEOREM PartsRemoved == Spec => []PartRemoved
<1>1. IInv => PartRemoved
  BY DEF IInv, PartFile, PartRemoved, M
<1> QED
  BY <1>1, InvariantHolds, PTL

(***************************************************************************)
(* Once the handler has cancelled a pass, main starts no other frame.      *)
(***************************************************************************)
THEOREM CancelHolds == Spec => CancelStops
<1> DEFINE A == stopped /\ mishaps \cap {"reader", "int"} = {}
                  => ~(at'["main"] = "start" /\ at["main"] # "start")
<1>1. ASSUME IInv, [Next]_vars PROVE [A]_vars
  <2> SUFFICES ASSUME Next, stopped, Clean, M' = "start", M # "start" PROVE FALSE
    BY <1>1 DEF Clean, M
  <2>1. /\ M # "begin" /\ ~(M = "readDone" /\ status = "eof")
        /\ then["main"] # "start" /\ then["hand"] # "start"
    BY <1>1 DEF IInv, Stopped, Types, Ctx
  <2> USE DEF Ctx, M
  <2>2. CASE Main
    BY <1>1, <2>1, <2>2
       DEF IInv, Types, Main, At, Goto, Returns, BeginPage, StartFailed, StartSucceeded,
           ReadReturned, PageEnd, sane_start, StartRefused, StartScanning, StartReset,
           StartPipe, StartFork, StartForked, StartDone, sane_read, ReadChecks, ReadPipe,
           ReadTakes, ReadEof, finish_pass, FinishMark, FinishClose, FinishKill,
           FinishWait, FinishDone, sane_cancel, CancelStarts, CancelDone
  <2>3. CASE Handler
    BY <1>1, <2>1, <2>3
       DEF IInv, Types, Handler, Goto, finish_pass, FinishMark, FinishClose, FinishKill,
           FinishWait, FinishDone, sane_cancel, CancelStarts, CancelDone
  <2>4. CASE Reader
    BY <2>4, <1>1, ReaderStep DEF Reader
  <2> QED
    BY <1>1, <2>2, <2>3, <2>4 DEF Next, sighandler, Signal, Terminated, Goto, IInv, Types,
                              vars, backend
<1> QED
  BY <1>1, InvariantHolds, PTL DEF Spec, CancelStops
===============================================================================
