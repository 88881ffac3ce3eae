----------------------------- MODULE SessionProofs -----------------------------
(***************************************************************************)
(* Proofs about a session, for every number of handles, every frontend and *)
(* every set of failures.  First the server alone: its table accounts for  *)
(* the open backend handles, and no two nested scans read from the same    *)
(* one.  Then the server with its client: they agree on the open handles,  *)
(* docancel hits only scans that are to end, a busy handle is being        *)
(* scanned, and do_scan reads from open devices.                           *)
(***************************************************************************)
EXTENDS Session, SequenceTheorems, TLAPS

Entry == [inuse : BOOLEAN, scanning : BOOLEAN, docancel : BOOLEAN, be : Nat]
Frame_ == [h : Handles, be : Nat]

ServerTypes ==
  /\ handle \in [Handles -> Entry]
  /\ stack \in Seq(Frame_)
  /\ nopen \in Nat /\ lost \in BOOLEAN
  /\ pc \in {"serve", "accept", "auth", "authorized", "return", "exit"}
  /\ pc = "return" => stack # << >>

\* The backend's handles are numbered as they are given out.
Numbered == \A i \in Handles : handle[i].be <= nopen

\* The device of a do_scan is the one its entry has now, or an earlier one.
FrameOld == \A k \in Frames : stack[k].be <= handle[stack[k].h].be

\* An open device that some do_scan reads from is in that do_scan's entry and
\* marked as scanning.
FrameMarked ==
  \A k \in Frames, i \in Handles :
    handle[i].inuse /\ handle[i].be = stack[k].be
      => i = stack[k].h /\ handle[i].scanning

\* Of two do_scan calls for the same entry the inner one has the later device.
FrameOrder ==
  \A j, k \in Frames : j < k /\ stack[j].h = stack[k].h => stack[j].be < stack[k].be

\* The device that waits for its data connection is open, marked and not read yet.
AcceptFresh ==
  pc = "accept" => /\ acc \in Handles
                   /\ handle[acc].inuse /\ handle[acc].scanning
                   /\ \A k \in Frames : stack[k].be # handle[acc].be

IInv == /\ ServerTypes /\ BackendsAccounted /\ Numbered
        /\ FrameOld /\ FrameMarked /\ FrameOrder /\ AcceptFresh /\ OneReader

\* The facts about frames, as the proofs use them.
LEMMA FrameType ==
  ASSUME ServerTypes, NEW k \in Frames
  PROVE  /\ Len(stack) \in Nat /\ Frames = 1..Len(stack)
         /\ k \in 1..Len(stack)
         /\ stack[k].h \in Handles /\ stack[k].be \in Nat
<1>1. stack \in Seq(Frame_)
  BY DEF ServerTypes
<1>2. Len(stack) \in Nat /\ Frames = 1..Len(stack)
  BY <1>1, LenProperties DEF Frames
<1>3. stack[k] \in Frame_
  BY <1>1, <1>2, ElementOfSeq
<1> QED
  BY <1>2, <1>3 DEF Frame_

\* At the start nothing is open.
LEMMA InitHolds == SessionInit => IInv
<1> SUFFICES ASSUME SessionInit PROVE IInv
  OBVIOUS
<1>1. handle \in [Handles -> Entry] /\ \A i \in Handles : ~handle[i].inuse /\ handle[i].be = 0
  BY DEF SessionInit, Init, Entry
<1>2. Frames = {} /\ stack \in Seq(Frame_)
  BY DEF SessionInit, Init, Frames
<1>3. Inuse = {}
  BY <1>1 DEF Inuse
<1>4. ServerTypes /\ AcceptFresh
  BY <1>1, <1>2 DEF SessionInit, Init, ServerTypes, AcceptFresh
<1>5. BackendsAccounted
  BY <1>3 DEF SessionInit, Init, BackendsAccounted
<1> QED
  BY <1>1, <1>2, <1>4, <1>5
     DEF SessionInit, Init, IInv, Numbered, FrameOld, FrameMarked, FrameOrder, OneReader

\* A step that leaves the table, the scans and the backend alone.
LEMMA QuietKeeps ==
  ASSUME IInv, UNCHANGED << handle, lost, stack, opened, nopen >>, pc # "exit",
         pc' \in {"serve", "auth", "authorized", "return"},
         pc' = "return" => stack # << >>
  PROVE  IInv'
BY DEF IInv, ServerTypes, BackendsAccounted, Inuse, Numbered, FrameOld, FrameMarked,
       FrameOrder, AcceptFresh, OneReader, Frames

\* quit closes what the table has, if it is still there.
LEMMA QuitKeeps ==
  ASSUME IInv, quit, UNCHANGED << handle, lost, stack, nopen >>, pc # "exit"
  PROVE  IInv'
<1>1. ~lost => opened' = {}
  BY DEF IInv, BackendsAccounted, quit, Inuse
<1>2. BackendsAccounted'
  BY <1>1 DEF IInv, BackendsAccounted, quit, Inuse
<1> QED
  BY <1>2 DEF IInv, ServerTypes, quit, Numbered, FrameOld, FrameMarked,
              FrameOrder, AcceptFresh, OneReader, Frames

\* process_request has returned -1.
LEMMA FailKeeps ==
  ASSUME IInv, Fail, UNCHANGED << handle, lost, stack, nopen >>, pc # "exit"
  PROVE  IInv'
<1>1. CASE stack = << >>
  BY <1>1, QuitKeeps DEF Fail
<1>2. CASE stack # << >>
  BY <1>2, QuietKeeps DEF Fail
<1> QED
  BY <1>1, <1>2

\* Answering and leaving process_request.
LEMMA DoneKeeps ==
  ASSUME IInv, Done, UNCHANGED << handle, lost, stack, opened, nopen >>, pc # "exit"
  PROVE  IInv'
BY QuietKeeps DEF Done

\* A device with a new number cannot be the one of a scan in progress.
LEMMA OpenKeeps ==
  ASSUME IInv, NEW i \in Handles, Open(i)
  PROVE  IInv'
<1>1. /\ pc # "exit" /\ ~handle[i].inuse /\ handle \in [Handles -> Entry]
      /\ nopen \in Nat /\ nopen' = nopen + 1 /\ opened' = opened \cup {nopen + 1}
      /\ stack' = stack /\ ~lost /\ ~lost'
      /\ pc' \in {"serve", "return"} /\ (pc' = "return" => stack # << >>)
  BY DEF IInv, ServerTypes, Open, Request, Done
<1>2. /\ handle' \in [Handles -> Entry]
      /\ handle'[i].inuse /\ handle'[i].be = nopen + 1
      /\ \A j \in Handles \ {i} : handle'[j] = handle[j]
  BY <1>1 DEF Open, Entry
<1>3. ServerTypes'
  BY <1>1, <1>2 DEF IInv, ServerTypes, Open
<1>4. \A j \in Handles : handle[j].be \in Nat /\ handle[j].be <= nopen
  BY <1>1 DEF IInv, Numbered, Entry
<1>5. Numbered'
  BY <1>1, <1>2, <1>4 DEF Numbered
<1>6. Inuse' = Inuse \cup {i} /\ i \notin Inuse
  BY <1>1, <1>2 DEF Inuse
<1>7. BackendsAccounted'
  <2>1. opened = { handle[j].be : j \in Inuse }
    BY <1>1 DEF IInv, BackendsAccounted
  <2>2. { handle'[j].be : j \in Inuse' } = { handle[j].be : j \in Inuse } \cup {nopen + 1}
    BY <1>2, <1>6 DEF Inuse
  <2>3. \A j, k \in Inuse' : j # k => handle'[j].be # handle'[k].be
    BY <1>1, <1>2, <1>4, <1>6 DEF IInv, BackendsAccounted, Inuse
  <2> QED
    BY <1>1, <2>1, <2>2, <2>3 DEF BackendsAccounted
<1>8. \A k \in Frames : stack[k].be \in Nat /\ stack[k].h \in Handles /\ stack[k].be <= nopen
  BY <1>1, <1>4, FrameType DEF IInv, FrameOld
<1>9. FrameOld' /\ FrameMarked'
  BY <1>1, <1>2, <1>8 DEF IInv, FrameOld, FrameMarked, Frames
<1> QED
  BY <1>1, <1>3, <1>5, <1>7, <1>9 DEF IInv, FrameOrder, AcceptFresh, OneReader, Frames

\* The table cannot grow: the new device is the one that no entry has.
LEMMA NoEntryKeeps ==
  ASSUME IInv, OpenNoEntry
  PROVE  IInv'
<1>1. /\ pc # "exit" /\ ~lost /\ lost' = TRUE /\ nopen \in Nat /\ nopen' = nopen + 1
      /\ opened' = opened \cup {nopen + 1}
      /\ UNCHANGED << handle, stack >>
      /\ pc' \in {"serve", "return"} /\ (pc' = "return" => stack # << >>)
  BY DEF IInv, ServerTypes, OpenNoEntry, Request, Done
<1>2. ServerTypes'
  BY <1>1 DEF IInv, ServerTypes
<1>3. Numbered'
  <2>1. \A j \in Handles : handle[j].be \in Nat /\ handle[j].be <= nopen
    BY DEF IInv, ServerTypes, Numbered, Entry
  <2> QED
    BY <1>1, <2>1 DEF Numbered
<1>4. BackendsAccounted'
  BY <1>1 DEF IInv, BackendsAccounted, Inuse
<1> QED
  BY <1>1, <1>2, <1>3, <1>4
     DEF IInv, FrameOld, FrameMarked, FrameOrder, AcceptFresh, OneReader, Frames

\* The process ends over the lost table.
LEMMA SegfaultKeeps ==
  ASSUME IInv, Segfault \/ OpenSegfault
  PROVE  IInv'
<1>1. /\ lost /\ pc' = "exit" /\ UNCHANGED << handle, lost, stack >>
      /\ nopen \in Nat /\ nopen' \in {nopen, nopen + 1}
  BY DEF IInv, ServerTypes, Segfault, OpenSegfault
<1>2. ServerTypes'
  BY <1>1 DEF IInv, ServerTypes
<1>3. Numbered'
  <2>1. \A j \in Handles : handle[j].be \in Nat /\ handle[j].be <= nopen
    BY DEF IInv, ServerTypes, Numbered, Entry
  <2> QED
    BY <1>1, <2>1 DEF Numbered
<1>4. BackendsAccounted'
  BY <1>1 DEF IInv, BackendsAccounted, Inuse
<1> QED
  BY <1>1, <1>2, <1>3, <1>4
     DEF IInv, FrameOld, FrameMarked, FrameOrder, AcceptFresh, OneReader, Frames

\* An entry that is free needs no device.
LEMMA CloseKeeps ==
  ASSUME IInv, NEW i \in Handles, Close(i)
  PROVE  IInv'
<1>1. /\ pc # "exit" /\ handle[i].inuse /\ handle \in [Handles -> Entry]
      /\ nopen' = nopen /\ opened' = opened \ {handle[i].be}
      /\ stack' = stack /\ ~lost /\ lost' = lost
      /\ pc' \in {"serve", "return"} /\ (pc' = "return" => stack # << >>)
  BY DEF IInv, ServerTypes, Close, Closed, RequestFor, Request, Done
<1>2. /\ handle' \in [Handles -> Entry]
      /\ ~handle'[i].inuse /\ handle'[i].be = handle[i].be
      /\ \A j \in Handles \ {i} : handle'[j] = handle[j]
  BY <1>1 DEF Close, Entry
<1>3. Inuse' = Inuse \ {i} /\ i \in Inuse
  BY <1>1, <1>2 DEF Inuse
<1>4. BackendsAccounted'
  <2>1. opened = { handle[j].be : j \in Inuse }
    BY <1>1 DEF IInv, BackendsAccounted
  <2>2. \A j, k \in Inuse : j # k => handle[j].be # handle[k].be
    BY DEF IInv, BackendsAccounted
  <2>3. { handle'[j].be : j \in Inuse' } = { handle[j].be : j \in Inuse } \ {handle[i].be}
    BY <1>2, <1>3, <2>2 DEF Inuse
  <2> QED
    BY <1>1, <1>2, <1>3, <2>1, <2>2, <2>3 DEF BackendsAccounted, Inuse
<1>5. \A k \in Frames : stack[k].h \in Handles
  BY FrameType DEF IInv
<1> QED
  BY <1>1, <1>2, <1>4, <1>5
     DEF IInv, ServerTypes, Numbered, FrameOld, FrameMarked, FrameOrder, AcceptFresh,
         OneReader, Frames

\* Only flags of one entry change, and no mark of a scan is taken away.
LEMMA FlagsKeep ==
  ASSUME IInv, NEW i \in Handles, pc # "exit",
         handle' \in [Handles -> Entry],
         \A j \in Handles : /\ handle'[j].inuse = handle[j].inuse
                            /\ handle'[j].be = handle[j].be
                            /\ handle[j].scanning => handle'[j].scanning,
         UNCHANGED << lost, stack, opened, nopen >>,
         pc' \in {"serve", "return", "accept"}, pc' = "return" => stack # << >>,
         AcceptFresh'
  PROVE  IInv'
<1>1. Inuse' = Inuse
  BY DEF Inuse
<1>2. { handle'[j].be : j \in Inuse' } = { handle[j].be : j \in Inuse }
  BY <1>1 DEF Inuse
<1>3. BackendsAccounted'
  BY <1>1, <1>2 DEF IInv, BackendsAccounted, Inuse
<1>4. \A k \in Frames : stack[k].h \in Handles
  BY FrameType DEF IInv
<1> QED
  BY <1>3, <1>4 DEF IInv, ServerTypes, Numbered, FrameOld, FrameMarked, FrameOrder,
                    OneReader, Frames

\* The entry was not marked, so no scan reads from its device.
LEMMA StartKeeps ==
  ASSUME IInv, NEW i \in Handles, Start(i)
  PROVE  IInv'
<1>1. /\ pc # "exit" /\ handle[i].inuse /\ ~handle[i].scanning
      /\ handle \in [Handles -> Entry]
      /\ UNCHANGED << lost, stack, opened, nopen >>
      /\ pc' = "accept" /\ acc' = i
  BY DEF IInv, ServerTypes, Start, RequestFor, Request
<1>2. handle' \in [Handles -> Entry] /\ handle'[i].scanning
  BY <1>1 DEF Start, Started, Entry
<1>3. \A j \in Handles : /\ handle'[j].inuse = handle[j].inuse
                         /\ handle'[j].be = handle[j].be
                         /\ handle[j].scanning => handle'[j].scanning
  BY <1>1 DEF Start, Started, Entry
<1>4. AcceptFresh'
  BY <1>1, <1>2, <1>3 DEF IInv, FrameMarked, AcceptFresh, Frames
<1> QED
  BY <1>1, <1>2, <1>3, <1>4, FlagsKeep

\* docancel is no part of the invariant.
LEMMA CancelKeeps ==
  ASSUME IInv, NEW i \in Handles, Cancel(i)
  PROVE  IInv'
<1>1. /\ pc # "exit" /\ handle \in [Handles -> Entry]
      /\ UNCHANGED << lost, stack, opened, nopen >>
      /\ pc' \in {"serve", "return"} /\ (pc' = "return" => stack # << >>)
  BY DEF IInv, ServerTypes, Cancel, RequestFor, Request, Done
<1>2. handle' \in [Handles -> Entry]
  BY <1>1 DEF Cancel, Entry
<1>3. \A j \in Handles : /\ handle'[j].inuse = handle[j].inuse
                         /\ handle'[j].be = handle[j].be
                         /\ handle[j].scanning => handle'[j].scanning
  BY <1>1 DEF Cancel, Entry
<1>4. AcceptFresh'
  BY <1>1 DEF AcceptFresh
<1> QED
  BY <1>1, <1>2, <1>3, <1>4, FlagsKeep

\* A new innermost scan: its device is read by no other one.
LEMMA AcceptKeeps ==
  ASSUME IInv, Accept
  PROVE  IInv'
<1> DEFINE n == Len(stack)
<1>1. /\ pc = "accept" /\ acc \in Handles /\ handle \in [Handles -> Entry]
      /\ handle[acc].inuse /\ handle[acc].scanning
      /\ UNCHANGED << handle, lost, opened, nopen >> /\ pc' = "serve"
      /\ stack \in Seq(Frame_) /\ Frame(acc) \in Frame_
      /\ stack' = Append(stack, Frame(acc))
  BY DEF IInv, ServerTypes, AcceptFresh, Accept, Frame, Frame_, Entry
<1>2. /\ n \in Nat /\ Frames = 1..n /\ Frames' = 1..(n + 1)
      /\ stack' \in Seq(Frame_)
      /\ \A k \in 1..n : stack'[k] = stack[k]
      /\ stack'[n + 1].h = acc /\ stack'[n + 1].be = handle[acc].be
  BY <1>1, AppendProperties, LenProperties DEF Frames, Frame
<1>3. \A k \in 1..n : stack[k].h \in Handles /\ stack[k].be \in Nat
                      /\ stack[k].be # handle[acc].be
                      /\ stack[k].be <= handle[stack[k].h].be
  BY <1>1, <1>2, FrameType DEF IInv, AcceptFresh, FrameOld
<1>4. \A i \in Handles : handle[i].inuse /\ handle[i].be = handle[acc].be => i = acc
  BY <1>1 DEF IInv, BackendsAccounted, Inuse
<1>5. \A i \in Handles : handle[i].be \in Nat
  BY <1>1 DEF Entry
<1>6. ServerTypes' /\ Numbered' /\ AcceptFresh'
  BY <1>1, <1>2 DEF IInv, ServerTypes, Numbered, AcceptFresh
<1>7. BackendsAccounted'
  BY <1>1 DEF IInv, BackendsAccounted, Inuse
<1>8. FrameOld'
  <2> SUFFICES ASSUME NEW k \in 1..(n + 1)
               PROVE  stack'[k].be <= handle[stack'[k].h].be
    BY <1>1, <1>2 DEF FrameOld
  <2> QED
    BY <1>1, <1>2, <1>3, <1>5
<1>9. FrameMarked'
  <2> SUFFICES ASSUME NEW k \in 1..(n + 1), NEW i \in Handles,
                      handle[i].inuse, handle[i].be = stack'[k].be
               PROVE  i = stack'[k].h /\ handle[i].scanning
    BY <1>1, <1>2 DEF FrameMarked
  <2>1. CASE k \in 1..n
    BY <2>1, <1>2 DEF IInv, FrameMarked
  <2>2. CASE k = n + 1
    BY <2>2, <1>1, <1>2, <1>4
  <2> QED
    BY <2>1, <2>2, <1>2
<1>10. FrameOrder'
  <2> SUFFICES ASSUME NEW j \in 1..(n + 1), NEW k \in 1..(n + 1),
                      j < k, stack'[j].h = stack'[k].h
               PROVE  stack'[j].be < stack'[k].be
    BY <1>2 DEF FrameOrder
  <2>1. CASE k \in 1..n
    BY <2>1, <1>2 DEF IInv, FrameOrder
  <2>2. CASE k = n + 1
    BY <2>2, <1>1, <1>2, <1>3, <1>5
  <2> QED
    BY <2>1, <2>2, <1>2
<1>11. OneReader'
  <2> SUFFICES ASSUME NEW j \in 1..(n + 1), NEW k \in 1..(n + 1), j # k
               PROVE  stack'[j].be # stack'[k].be
    BY <1>2 DEF OneReader
  <2>1. CASE j \in 1..n /\ k \in 1..n
    BY <2>1, <1>2 DEF IInv, OneReader
  <2>2. CASE j = n + 1 \/ k = n + 1
    BY <2>2, <1>2, <1>3
  <2> QED
    BY <2>1, <2>2, <1>2
<1> QED
  BY <1>6, <1>7, <1>8, <1>9, <1>10, <1>11 DEF IInv

\* The innermost scan ends.  The mark it takes away is not that of a scan below:
\* that one has an earlier device of the entry, which is closed.
LEMMA EndScanKeeps ==
  ASSUME IInv, EndScan, stack # << >>, pc # "exit", UNCHANGED << lost, opened, nopen >>
  PROVE  IInv'
<1> DEFINE n == Len(stack)
<1>1. /\ handle \in [Handles -> Entry] /\ stack \in Seq(Frame_)
      /\ n \in Nat /\ n >= 1 /\ Frames = 1..n /\ stack[n].h \in Handles
  BY FrameType, LenProperties, EmptySeq DEF IInv, ServerTypes, Frames, Frame_
<1>2. /\ stack' = SubSeq(stack, 1, n - 1) /\ stack' \in Seq(Frame_)
      /\ Len(stack') = n - 1 /\ Frames' = 1..(n - 1)
      /\ \A k \in 1..(n - 1) : stack'[k] = stack[k]
  BY <1>1 DEF EndScan, Front, Frames
<1>t. PICK t \in Handles : t = stack[n].h
  BY <1>1
<1>e. handle' = [handle EXCEPT ![t].docancel = FALSE, ![t].scanning = FALSE]
  BY <1>t DEF EndScan, Top, Last
<1>a. handle' \in [Handles -> Entry]
  BY <1>1, <1>e DEF Entry
<1>3. \A j \in Handles : /\ handle'[j].inuse = handle[j].inuse
                         /\ handle'[j].be = handle[j].be
                         /\ j # t => handle'[j].scanning = handle[j].scanning
  BY <1>1, <1>e DEF Entry
<1>4. pc' \in {"serve", "return"} /\ (pc' = "return" => n # 1)
  BY DEF EndScan
<1>5. ServerTypes' /\ Numbered' /\ AcceptFresh'
  <2>1. ASSUME pc' = "return", stack' = << >> PROVE FALSE
    <3>1. Len(stack') = 0
      BY <2>1
    <3>2. Len(stack') = n - 1 /\ n \in Nat /\ n # 1
      BY <1>1, <1>2, <1>4, <2>1
    <3> QED
      BY <3>1, <3>2
  <2>2. ServerTypes'
    BY <1>2, <1>a, <1>4, <2>1 DEF IInv, ServerTypes
  <2>3. Numbered'
    BY <1>3 DEF IInv, Numbered
  <2> QED
    BY <1>4, <2>2, <2>3 DEF AcceptFresh
<1>6. BackendsAccounted'
  <2>1. Inuse' = Inuse /\ { handle'[j].be : j \in Inuse' } = { handle[j].be : j \in Inuse }
    BY <1>3 DEF Inuse
  <2> QED
    BY <1>3, <1>4, <2>1 DEF IInv, BackendsAccounted, Inuse
<1>7. \A k \in 1..n : stack[k].h \in Handles /\ stack[k].be \in Nat
                      /\ stack[k].be <= handle[stack[k].h].be
  BY <1>1, FrameType DEF IInv, FrameOld
<1>8. FrameOld' /\ FrameOrder' /\ OneReader'
  <2>1. \A k \in 1..(n - 1) : k \in 1..n
    BY <1>1
  <2>2. FrameOld'
    BY <1>2, <1>3, <1>7, <2>1 DEF FrameOld
  <2>3. FrameOrder'
    <3> SUFFICES ASSUME NEW j \in 1..(n - 1), NEW k \in 1..(n - 1),
                        j < k, stack[j].h = stack[k].h
                 PROVE  stack[j].be < stack[k].be
      BY <1>2 DEF FrameOrder
    <3>1. j \in Frames /\ k \in Frames
      BY <1>1, <2>1
    <3> QED
      BY <3>1 DEF IInv, FrameOrder
  <2>4. OneReader'
    BY <1>1, <1>2, <2>1 DEF IInv, OneReader
  <2> QED
    BY <2>2, <2>3, <2>4
<1>9. FrameMarked'
  <2> SUFFICES ASSUME NEW k \in 1..(n - 1), NEW i \in Handles,
                      handle[i].inuse, handle[i].be = stack[k].be
               PROVE  i = stack[k].h /\ handle'[i].scanning
    BY <1>2, <1>3 DEF FrameMarked
  <2>1. i = stack[k].h /\ handle[i].scanning
    BY <1>1 DEF IInv, FrameMarked
  <2>2. ASSUME i = t PROVE FALSE
    <3>0. k \in Frames /\ n \in Frames /\ k < n /\ stack[k].h = stack[n].h
      BY <1>1, <1>t, <2>1, <2>2
    <3>1. stack[k].be < stack[n].be
      BY <3>0 DEF IInv, FrameOrder
    <3>2. stack[n].be <= handle[i].be /\ stack[n].be \in Nat /\ stack[k].be \in Nat
      BY <1>1, <1>t, <1>7, <2>2
    <3> QED
      BY <3>1, <3>2
  <2> QED
    BY <1>3, <2>1, <2>2
<1> QED
  BY <1>5, <1>6, <1>8, <1>9 DEF IInv

\* do_scan after a request.
LEMMA ReturnKeeps ==
  ASSUME IInv, Return
  PROVE  IInv'
<1>1. stack # << >> /\ pc # "exit" /\ UNCHANGED << lost, opened, nopen >>
  BY DEF IInv, ServerTypes, Return
<1>2. CASE EndScan
  BY <1>1, <1>2, EndScanKeeps
<1>3. CASE pc' = "serve" /\ UNCHANGED << handle, stack >>
  BY <1>1, <1>3, QuietKeeps
<1> QED
  BY <1>2, <1>3 DEF Return

\* Every step of the server keeps the invariant.
LEMMA ServerKeeps ==
  ASSUME IInv, SanedNext
  PROVE  IInv'
<1>1. ASSUME NEW i \in Handles, Query(i) \/ Option(i) \/ StartBusy(i) \/ StartFails(i)
      PROVE  IInv'
  <2>1. Done /\ UNCHANGED << handle, lost, stack, opened, nopen >> /\ pc # "exit"
    BY <1>1 DEF Query, Option, StartBusy, StartFails, RequestFor, Request
  <2> QED
    BY <2>1, DoneKeeps
<1>2. CASE OpenRefused \/ OpenNoDevice
  <2>1. Done /\ UNCHANGED << handle, lost, stack, opened, nopen >> /\ pc # "exit"
    BY <1>2 DEF OpenRefused, OpenNoDevice, Request
  <2> QED
    BY <2>1, DoneKeeps
<1>3. CASE AcceptFails
  <2>1. Done /\ UNCHANGED << handle, lost, stack, opened, nopen >> /\ pc # "exit"
    BY <1>3 DEF AcceptFails
  <2> QED
    BY <2>1, DoneKeeps
<1>4. CASE Exit \/ AcceptStranger
  <2>1. Fail /\ UNCHANGED << handle, lost, stack, nopen >> /\ pc # "exit"
    BY <1>4 DEF Exit, AcceptStranger, Request
  <2> QED
    BY <2>1, FailKeeps
<1>5. CASE Challenge \/ Authorize
  BY <1>5, QuietKeeps DEF Challenge, Authorize
<1>6. CASE LoopEnds
  BY <1>6, EndScanKeeps DEF LoopEnds
<1>7. CASE Signal
  BY <1>7, QuitKeeps DEF Signal
<1> QED
  BY <1>1, <1>2, <1>3, <1>4, <1>5, <1>6, <1>7, OpenKeeps, CloseKeeps, CancelKeeps,
     StartKeeps, AcceptKeeps, ReturnKeeps, NoEntryKeeps, SegfaultKeeps DEF SanedNext, ServeRequest

\* The invariant looks at the server only, so a step of the client keeps it.
LEMMA StepKeeps == IInv /\ [SessionNext]_vars => IInv'
<1>1. ASSUME IInv, UNCHANGED server PROVE IInv'
  BY <1>1 DEF server, IInv, ServerTypes, BackendsAccounted, Inuse, Numbered, FrameOld,
              FrameMarked, FrameOrder, AcceptFresh, OneReader, Frames
<1> QED
  BY <1>1, ServerKeeps DEF SessionNext, vars

LEMMA InvariantHolds == Spec => []IInv
BY InitHolds, StepKeeps, PTL DEF Spec

(***************************************************************************)
(* Whatever a frontend asks for, in whatever order, from inside however    *)
(* many scans, and whatever fails but the allocation of the table: the     *)
(* open handles of the backend are those of the table of saned, each in    *)
(* one entry, and none is left when quit has run.  When the allocation     *)
(* fails, one open handle is in no entry until the process ends, and the   *)
(* process ends without closing any.                                       *)
(***************************************************************************)
THEOREM DevicesAccounted == Spec => []BackendsAccounted
<1>1. IInv => BackendsAccounted
  BY DEF IInv
<1> QED
  BY <1>1, InvariantHolds, PTL

(***************************************************************************)
(* No two of the do_scan calls that process_request nests read from the    *)
(* same backend handle, although entries are closed, reused and started    *)
(* again from inside the scans.                                            *)
(***************************************************************************)
THEOREM ScansApart == Spec => []OneReader
<1>1. IInv => OneReader
  BY DEF IInv
<1> QED
  BY <1>1, InvariantHolds, PTL

-------------------------------------------------------------------------------
(* The server and its client.                                              *)

Ops == { "none", "open", "close", "query", "option", "start", "cancel", "fetch",
         "authorize", "exit", "good", "error", "busy", "ack", "auth" }
Messages == { m \in [op : Ops, h : Handles \cup {-1}] : m.op = "none" => m = NoMsg }

\* A reply that ends a call has come; the server waits for a password.
Has == reply.op \notin {"none", "auth"}
Asking == pc \in {"auth", "authorized"}

\* m is the request of the call in progress.
ForCall(m) == m.op = (IF call.op = "fetch" THEN "query" ELSE call.op) /\ m.h = call.h

SessionTypes ==
  /\ req \in Messages /\ reply \in Messages /\ call \in Messages /\ asked \in Messages
  /\ scn \in [Handles -> {"none", "idle", "data", "done"}]
  /\ hup \in BOOLEAN
  /\ call.op \in {"none", "open", "close", "query", "option", "start", "cancel", "fetch"}
  /\ call.op \notin {"none", "open"} => call.h \in Handles

\* Client and server take turns on the control connection.
Turns ==
  /\ hup => call.op = "none"
  /\ ~hup /\ call.op = "none" => req.op = "none" /\ reply.op = "none" /\ ~Asking
  /\ ~hup /\ call.op # "none" /\ pc # "exit" /\ ~Asking =>
       \/ ForCall(req) /\ reply.op = "none"
       \/ req.op = "none" /\ Has
  /\ ~hup /\ Asking => call.op # "none" /\ ForCall(asked) /\ ~Has
  /\ Asking => req.op \in {"none", "authorize"} /\ asked.op \in {"open", "option", "start"}
  /\ ~hup /\ Has => req.op = "none"

\* What the client may rely on when a reply has come.
Answered ==
  ~hup /\ Has =>
    /\ call.op = "open" =>
         \/ reply.op = "error"
         \/ /\ reply.op = "good" /\ reply.h \in Handles
            /\ handle[reply.h].inuse /\ scn[reply.h] = "none"
    /\ call.op = "close" => ~handle[call.h].inuse
    /\ call.op = "start" /\ reply.op = "good" => ~handle[call.h].docancel
    /\ pc = "accept" => call.op = "start" /\ call.h = acc /\ reply.op = "good"

\* The scanners of the client are open at the server, and so is the handle that
\* a request names.
Known ==
  /\ ~hup => \A i \in Handles : scn[i] # "none" =>
               handle[i].inuse \/ (call.op = "close" /\ call.h = i /\ Has)
  /\ call.op = "fetch" => handle[call.h].inuse /\ scn[call.h] = "none"
  /\ call.op \in {"start", "cancel"} => scn[call.h] # "none"
  /\ req.h \in Handles => handle[req.h].inuse

\* And the other way round, unless the client loses one for want of memory.
NoneLost ==
  ~hup /\ "nomem" \notin may => \A i \in Handles : handle[i].inuse =>
    \/ scn[i] # "none"
    \/ call.op = "open" /\ Has /\ reply.op = "good" /\ reply.h = i
    \/ call.op \in {"fetch", "close"} /\ call.h = i

\* docancel is set for a scan that the client has cancelled or left.
Wanted ==
  \A i \in Handles : handle[i].docancel =>
    hup \/ scn[i] # "data" \/ (call.op = "cancel" /\ call.h = i)

(***************************************************************************)
(* A frontend that cancels each scan before it closes the scanner or       *)
(* starts another one: the server never nests scans, and the one do_scan   *)
(* is for an open handle with a scan that the client has not cancelled, or *)
(* is about to end.                                                        *)
(***************************************************************************)
Orderly == may \cap C!HabitKinds = {}
Active(i) == scn[i] \in {"data", "done"}
Pending == IF Asking THEN asked ELSE req

OneCall ==
  Orderly => /\ call.op = "start" => \A j \in Handles \ {call.h} : ~Active(j)
             /\ call.op = "close" => ~Active(call.h)

OnePending ==
  Orderly /\ pc # "exit" =>
    /\ Pending.op = "start" => \A j \in Handles \ {Pending.h} : ~Active(j)
    /\ Pending.op = "close" => ~Active(Pending.h)

OneAccept ==
  Orderly /\ pc = "accept" => stack = << >> /\ (dconn = "connected" => Active(acc))

OneFrame ==
  Orderly /\ pc # "exit" =>
    /\ Len(stack) <= 1
    /\ \A k \in Frames :
         /\ handle[stack[k].h].inuse /\ handle[stack[k].h].be = stack[k].be
         /\ \/ Active(stack[k].h)
            \/ pc = "return" /\ handle[stack[k].h].docancel
         /\ ~hup /\ call.op = "cancel" /\ call.h = stack[k].h /\ Has
              => pc = "return" /\ handle[stack[k].h].docancel

OneScan == OneCall /\ OnePending /\ OneAccept /\ OneFrame

CInv == /\ SessionTypes /\ Turns /\ Answered /\ Known /\ NoneLost /\ Wanted
        /\ OneScan /\ BusyMeansScanning

LEMMA SameNames == C!Handles = Handles /\ C!NoMsg = NoMsg
BY DEF C!Handles, Handles, C!NoMsg, NoMsg

LEMMA NoMsgIs == NoMsg.op = "none" /\ NoMsg.h = -1 /\ NoMsg \in Messages /\ -1 \notin Handles
<1>1. -1 \notin Handles
  BY SanedAssumption DEF Handles
<1> QED
  BY <1>1 DEF NoMsg, Messages, Ops

LEMMA MessageIs ==
  ASSUME NEW m \in Messages
  PROVE  /\ m.op \in Ops /\ m.h \in Handles \cup {-1}
         /\ m = NoMsg <=> m.op = "none"
         /\ m.op = "none" => m.h = -1
BY NoMsgIs DEF Messages

LEMMA MessageNew ==
  ASSUME NEW o \in Ops, o # "none", NEW i \in Handles \cup {-1},
         NEW m, m = [op |-> o, h |-> i]
  PROVE  m \in Messages /\ m.op = o /\ m.h = i
BY DEF Messages

\* The request that process_request works on is that of the call in progress.
LEMMA Serving ==
  ASSUME CInv, NEW o, o \notin {"none", "authorize", "exit"}, Request(o)
  PROVE  /\ pc \in {"serve", "authorized"}
         /\ Served.op = o /\ Served \in Messages /\ Pending = Served
         /\ Served.op # "none"
         /\ ~hup => /\ ~Has /\ call.op # "none"
                    /\ call.op = o \/ (o = "query" /\ call.op = "fetch")
                    /\ call.h = Served.h
BY MessageIs DEF CInv, SessionTypes, Turns, Request, Served, ForCall, Asking, Pending

\* After an answer.
LEMMA AnswerTurns ==
  ASSUME CInv, NEW o, o \notin {"none", "authorize", "exit"}, Request(o),
         NEW st \in {"good", "error", "busy", "ack"}, NEW i \in Handles \cup {-1},
         Answer(st, i), pc' \in {"serve", "return", "accept", "exit"},
         UNCHANGED << scn, call, may, hup >>
  PROVE  /\ SessionTypes' /\ Turns'
         /\ reply'.op = st /\ reply'.h = i /\ Has' /\ req'.op = "none" /\ req'.h = -1
         /\ ~Asking' /\ Pending'.op = "none" /\ Pending'.h = -1
<1>1. reply' \in Messages /\ reply'.op = st /\ reply'.h = i
  BY MessageNew DEF Answer, Ops
<1>2. req' \in Messages /\ asked' \in Messages /\ req'.op = "none" /\ req'.h = -1
  BY NoMsgIs DEF Answer
<1>3. SessionTypes'
  BY <1>1, <1>2 DEF CInv, SessionTypes
<1>4. Has' /\ ~Asking' /\ Pending' = req'
  BY <1>1 DEF Has, Asking, Pending
<1>5. Turns'
  <2>1. ~hup => call.op # "none"
    BY Serving
  <2> QED
    BY <1>1, <1>2, <1>4, <2>1 DEF CInv, Turns
<1> QED
  BY <1>1, <1>2, <1>3, <1>4, <1>5

\* An answer that says nothing new.
LEMMA QuietAnswer ==
  ASSUME IInv, CInv, NEW o \in {"open", "query", "option", "start"}, Request(o),
         NEW st \in {"good", "error", "busy"}, NEW i \in Handles \cup {-1},
         o = "open" => st = "error", o = "start" => st # "good",
         Answer(st, i), Done, UNCHANGED << handle, stack, acc, dconn, hup, scn, call, may >>
  PROVE  CInv'
<1>1. pc' \in {"serve", "return"} /\ pc \in {"serve", "authorized"}
  BY DEF Done, Request
<1>2. /\ SessionTypes' /\ Turns' /\ reply'.op = st /\ Has' /\ req'.h = -1
      /\ Pending'.op = "none"
  BY <1>1, AnswerTurns
<1>3. ~hup => ~Has /\ (call.op = o \/ (o = "query" /\ call.op = "fetch"))
  BY Serving
<1>4. Answered'
  BY <1>1, <1>2, <1>3 DEF Answered
<1>5. Known' /\ NoneLost' /\ Wanted'
  BY <1>2, <1>3, NoMsgIs DEF CInv, Known, NoneLost, Wanted, Turns
<1>6. OneScan'
  <2>1. OneCall' /\ OnePending' /\ OneAccept'
    BY <1>1, <1>2 DEF CInv, OneScan, OneCall, OnePending, OneAccept, Orderly, Active
  <2>2. OneFrame'
    BY <1>1, <1>3 DEF CInv, OneScan, OneFrame, Orderly, Active, Frames
  <2> QED
    BY <2>1, <2>2 DEF OneScan
<1>7. BusyMeansScanning'
  BY <1>1 DEF CInv, BusyMeansScanning, Inuse, Frames
<1> QED
  BY <1>2, <1>4, <1>5, <1>6, <1>7 DEF CInv

LEMMA OpenAgrees ==
  ASSUME IInv, CInv, NEW i \in Handles, Open(i), UNCHANGED << scn, call, may >>
  PROVE  CInv'
<1>1. /\ Request("open") /\ ~handle[i].inuse /\ Answer("good", i) /\ Done
      /\ UNCHANGED << stack, acc, dconn, hup >>
      /\ handle' = [handle EXCEPT ![i] = [inuse |-> TRUE, scanning |-> FALSE,
                                          docancel |-> FALSE, be |-> nopen + 1]]
  BY DEF Open
<1>2. /\ handle'[i].inuse /\ ~handle'[i].scanning /\ ~handle'[i].docancel
      /\ \A j \in Handles \ {i} : handle'[j] = handle[j]
  BY <1>1 DEF IInv, ServerTypes
<1>3. pc' \in {"serve", "return"} /\ pc \in {"serve", "authorized"}
  BY <1>1 DEF Done, Request
<1>4. /\ SessionTypes' /\ Turns' /\ reply'.op = "good" /\ reply'.h = i /\ Has' /\ req'.h = -1
      /\ Pending'.op = "none"
  BY <1>1, <1>3, AnswerTurns
<1>5. ~hup => ~Has /\ call.op = "open"
  BY <1>1, Serving
<1>6. ~hup => scn[i] = "none"
  BY <1>1, <1>5 DEF CInv, Known
<1>7. Answered'
  BY <1>1, <1>2, <1>3, <1>4, <1>5, <1>6 DEF Answered
<1>8. Known'
  BY <1>1, <1>2, <1>4, <1>5, NoMsgIs DEF CInv, Known, Turns
<1>9. NoneLost' /\ Wanted'
  BY <1>1, <1>2, <1>4, <1>5 DEF CInv, NoneLost, Wanted
<1>10. \A k \in Frames : stack[k].h \in Handles
  BY FrameType DEF IInv
<1>11. OneScan'
  <2>1. OneCall' /\ OnePending' /\ OneAccept'
    BY <1>1, <1>3, <1>4 DEF CInv, OneScan, OneCall, OnePending, OneAccept, Orderly, Active
  <2>2. OneFrame'
    <3> SUFFICES ASSUME Orderly PROVE OneFrame'
      BY DEF OneFrame, Orderly
    <3>1. \A k \in Frames : stack[k].h # i
      BY <1>1, <1>3 DEF CInv, OneScan, OneFrame
    <3> QED
      BY <1>1, <1>2, <1>3, <1>5, <1>10, <3>1
         DEF CInv, OneScan, OneFrame, Orderly, Active, Frames
  <2> QED
    BY <2>1, <2>2 DEF OneScan
<1>12. BusyMeansScanning'
  BY <1>1, <1>2, <1>3 DEF CInv, BusyMeansScanning, Inuse, Frames
<1> QED
  BY <1>4, <1>7, <1>8, <1>9, <1>11, <1>12 DEF CInv

LEMMA CloseAgrees ==
  ASSUME IInv, CInv, NEW i \in Handles, Close(i), UNCHANGED << scn, call, may >>
  PROVE  CInv'
<1>1. /\ Request("close") /\ Served.h = i /\ Answer("ack", i) /\ Done
      /\ UNCHANGED << stack, acc, dconn, hup >>
      /\ handle' = [handle EXCEPT ![i].inuse = FALSE]
  BY DEF Close, RequestFor
<1>2. /\ ~handle'[i].inuse
      /\ \A j \in Handles : /\ handle'[j].docancel = handle[j].docancel
                             /\ handle'[j].scanning = handle[j].scanning
                             /\ handle'[j].be = handle[j].be
                             /\ j # i => handle'[j].inuse = handle[j].inuse
  BY <1>1 DEF IInv, ServerTypes, Entry
<1>3. pc' \in {"serve", "return"} /\ pc \in {"serve", "authorized"}
  BY <1>1 DEF Done, Request
<1>4. /\ SessionTypes' /\ Turns' /\ reply'.op = "ack" /\ Has' /\ req'.h = -1
      /\ Pending'.op = "none"
  BY <1>1, <1>3, AnswerTurns
<1>5. Pending.op = "close" /\ Pending.h = i /\ (~hup => ~Has /\ call.op = "close" /\ call.h = i)
  BY <1>1, Serving
<1>7. Answered'
  BY <1>1, <1>2, <1>3, <1>4, <1>5 DEF Answered
<1>8. Known'
  BY <1>1, <1>2, <1>4, <1>5, NoMsgIs DEF CInv, Known, Turns
<1>9. NoneLost' /\ Wanted'
  BY <1>1, <1>2, <1>4, <1>5 DEF CInv, NoneLost, Wanted
<1>10. \A k \in Frames : stack[k].h \in Handles
  BY FrameType DEF IInv
<1>11. OneScan'
  <2>1. OneCall' /\ OnePending' /\ OneAccept'
    BY <1>1, <1>3, <1>4 DEF CInv, OneScan, OneCall, OnePending, OneAccept, Orderly, Active
  <2>2. OneFrame'
    <3> SUFFICES ASSUME Orderly PROVE OneFrame'
      BY DEF OneFrame, Orderly
    <3>1. ~Active(i)
      BY <1>3, <1>5 DEF CInv, OneScan, OnePending
    <3>2. \A k \in Frames : stack[k].h # i
      BY <1>3, <3>1 DEF CInv, OneScan, OneFrame
    <3> QED
      BY <1>1, <1>2, <1>3, <1>5, <1>10, <3>2
         DEF CInv, OneScan, OneFrame, Orderly, Active, Frames
  <2> QED
    BY <2>1, <2>2 DEF OneScan
<1>12. BusyMeansScanning'
  BY <1>1, <1>2, <1>3 DEF CInv, BusyMeansScanning, Inuse, Frames
<1> QED
  BY <1>4, <1>7, <1>8, <1>9, <1>11, <1>12 DEF CInv

LEMMA CancelAgrees ==
  ASSUME IInv, CInv, NEW i \in Handles, Cancel(i), UNCHANGED << scn, call, may >>
  PROVE  CInv'
<1>1. /\ Request("cancel") /\ Served.h = i /\ Answer("ack", i) /\ Done
      /\ UNCHANGED << stack, acc, dconn, hup >>
      /\ handle' = [handle EXCEPT ![i].docancel = TRUE]
  BY DEF Cancel, RequestFor
<1>2. /\ handle'[i].docancel
      /\ \A j \in Handles : /\ handle'[j].inuse = handle[j].inuse
                             /\ handle'[j].scanning = handle[j].scanning
                             /\ handle'[j].be = handle[j].be
                             /\ j # i => handle'[j].docancel = handle[j].docancel
  BY <1>1 DEF IInv, ServerTypes, Entry
<1>3. /\ pc' \in {"serve", "return"} /\ pc \in {"serve", "authorized"}
      /\ stack # << >> => pc' = "return"
  BY <1>1 DEF Done, Request
<1>4. /\ SessionTypes' /\ Turns' /\ reply'.op = "ack" /\ Has' /\ req'.h = -1
      /\ Pending'.op = "none"
  BY <1>1, <1>3, AnswerTurns
<1>5. ~hup => ~Has /\ call.op = "cancel" /\ call.h = i
  BY <1>1, Serving
<1>7. Answered'
  BY <1>1, <1>2, <1>3, <1>4, <1>5 DEF Answered
<1>8. Known'
  BY <1>1, <1>2, <1>4, <1>5, NoMsgIs DEF CInv, Known, Turns
<1>9. NoneLost' /\ Wanted'
  BY <1>1, <1>2, <1>4, <1>5 DEF CInv, NoneLost, Wanted
<1>10. \A k \in Frames : stack[k].h \in Handles /\ stack # << >>
  BY FrameType DEF IInv, Frames
<1>11. OneScan'
  <2>1. OneCall' /\ OnePending' /\ OneAccept'
    BY <1>1, <1>3, <1>4 DEF CInv, OneScan, OneCall, OnePending, OneAccept, Orderly, Active
  <2>2. OneFrame'
    BY <1>1, <1>2, <1>3, <1>5, <1>10
       DEF CInv, OneScan, OneFrame, Orderly, Active, Frames
  <2> QED
    BY <2>1, <2>2 DEF OneScan
<1>12. BusyMeansScanning'
  BY <1>1, <1>2, <1>3 DEF CInv, BusyMeansScanning, Inuse, Frames
<1> QED
  BY <1>4, <1>7, <1>8, <1>9, <1>11, <1>12 DEF CInv

LEMMA StartAgrees ==
  ASSUME IInv, CInv, NEW i \in Handles, Start(i), UNCHANGED << scn, call, may >>
  PROVE  CInv'
<1>1. /\ Request("start") /\ Served.h = i /\ Answer("good", i)
      /\ handle[i].inuse /\ ~handle[i].scanning
      /\ dconn' = "listen" /\ pc' = "accept" /\ acc' = i
      /\ stack' = stack /\ hup' = hup
  BY DEF Start, RequestFor
<1>2. /\ ~handle'[i].docancel
      /\ \A j \in Handles : handle'[j].inuse <=> handle[j].inuse
      /\ \A j \in Handles : handle'[j].be = handle[j].be
      /\ \A j \in Handles \ {i} : handle'[j].docancel <=> handle[j].docancel
      /\ \A j \in Handles \ {i} : handle'[j].scanning <=> handle[j].scanning
  BY DEF IInv, ServerTypes, Entry, Start, Started
<1>3. pc \in {"serve", "authorized"}
  BY <1>1 DEF Request
<1>4. /\ SessionTypes' /\ Turns' /\ reply'.op = "good" /\ Has' /\ req'.h = -1
      /\ Pending'.op = "none"
  BY <1>1, <1>3, AnswerTurns
<1>5. Pending.op = "start" /\ Pending.h = i /\ (~hup => ~Has /\ call.op = "start" /\ call.h = i)
  BY <1>1, Serving
<1>7. Answered'
  BY <1>1, <1>2, <1>3, <1>4, <1>5 DEF Answered
<1>8. Known'
  BY <1>1, <1>2, <1>4, <1>5, NoMsgIs DEF CInv, Known, Turns
<1>9. NoneLost' /\ Wanted'
  BY <1>1, <1>2, <1>4, <1>5 DEF CInv, NoneLost, Wanted
<1>11. OneScan'
  <2>1. OneCall' /\ OnePending'
    BY <1>1, <1>3, <1>4 DEF CInv, OneScan, OneCall, OnePending, Orderly, Active
  <2>2. Orderly => stack = << >>
    <3> SUFFICES ASSUME Orderly, stack # << >> PROVE FALSE
      OBVIOUS
    <3>0. PICK k \in Frames : TRUE
      <4>1. Len(stack) \in Nat \ {0} /\ Frames = 1..Len(stack)
        BY LenProperties, EmptySeq DEF IInv, ServerTypes, Frames
      <4> QED
        BY <4>1
    <3>1. stack[k].h \in Handles
      BY FrameType DEF IInv
    <3>2. /\ handle[stack[k].h].inuse /\ handle[stack[k].h].be = stack[k].be
          /\ Active(stack[k].h)
      BY <1>3 DEF CInv, OneScan, OneFrame
    <3>3. stack[k].h = i
      BY <1>3, <1>5, <3>1, <3>2 DEF CInv, OneScan, OnePending
    <3> QED
      BY <1>1, <3>2, <3>3 DEF IInv, FrameMarked
  <2>3. Orderly => Frames' = {} /\ Len(stack') = 0
    BY <1>1, <2>2 DEF Frames
  <2>4. OneAccept' /\ OneFrame'
    BY <1>1, <2>2, <2>3 DEF OneAccept, OneFrame, Orderly
  <2> QED
    BY <2>1, <2>4 DEF OneScan
<1>12. BusyMeansScanning'
  BY <1>1, <1>2, <1>3 DEF CInv, BusyMeansScanning, Inuse, Frames
<1> QED
  BY <1>4, <1>7, <1>8, <1>9, <1>11, <1>12 DEF CInv

\* A step of the server that leaves the table and the scans alone.
LEMMA QuietParts ==
  ASSUME CInv, UNCHANGED << handle, stack, scn, call, may, hup, reply >>,
         pc' # "accept", req'.h = -1 \/ req' = req
  PROVE  Answered' /\ Known' /\ NoneLost' /\ Wanted' /\ OneCall' /\ OneAccept'
<1>1. Answered' /\ NoneLost' /\ Wanted'
  BY DEF CInv, Answered, Has, NoneLost, Wanted
<1>2. Known'
  BY NoMsgIs DEF CInv, Known, Has
<1>3. OneCall' /\ OneAccept'
  BY DEF CInv, OneScan, OneCall, OneAccept, Active, Orderly
<1> QED
  BY <1>1, <1>2, <1>3

LEMMA ExitAgrees ==
  ASSUME IInv, CInv, Exit, UNCHANGED << scn, call, may >>
  PROVE  CInv'
<1>1. /\ pc \in {"serve", "authorized"} /\ req' = NoMsg /\ Fail
      /\ UNCHANGED << handle, stack, acc, asked, nopen, reply, dconn, hup >>
      /\ pc' \in {"exit", "return"}
  BY DEF Exit, Request, Fail, quit
<1>2. hup /\ pc = "serve"
  BY NoMsgIs DEF CInv, SessionTypes, Turns, Exit, Request, Served, ForCall, Asking
<1>3. req' \in Messages /\ req'.op = "none" /\ req'.h = -1
  BY <1>1, NoMsgIs
<1>4. SessionTypes' /\ Turns'
  BY <1>1, <1>2, <1>3 DEF CInv, SessionTypes, Turns, Asking, Has
<1>5. Answered' /\ Known' /\ NoneLost' /\ Wanted' /\ OneCall' /\ OneAccept'
  BY <1>1, <1>3, QuietParts
<1>6. OnePending'
  BY <1>1, <1>3 DEF OnePending, Pending, Asking
<1>7. OneFrame'
  BY <1>1, <1>2 DEF CInv, OneScan, OneFrame, Orderly, Active, Frames
<1>8. BusyMeansScanning'
  BY <1>1, <1>2 DEF CInv, BusyMeansScanning, Inuse, Frames
<1> QED
  BY <1>4, <1>5, <1>6, <1>7, <1>8 DEF CInv, OneScan

LEMMA ChallengeAgrees ==
  ASSUME IInv, CInv, Challenge, UNCHANGED << scn, call, may >>
  PROVE  CInv'
<1>1. /\ pc = "serve" /\ pc' = "auth" /\ req' = NoMsg /\ asked' = req
      /\ req.op \in {"open", "option", "start"}
      /\ UNCHANGED << handle, stack, acc, dconn, hup >>
      /\ reply' = [op |-> "auth", h |-> -1]
  BY DEF Challenge
<1>2. reply' \in Messages /\ reply'.op = "auth"
  BY <1>1, MessageNew DEF Ops
<1>3. req' \in Messages /\ req'.op = "none" /\ req'.h = -1
  BY <1>1, NoMsgIs
<1>4. ~Has' /\ Asking' /\ Pending' = req /\ Pending = req
  BY <1>1, <1>2 DEF Has, Asking, Pending
<1>5. ~hup => ForCall(req) /\ call.op # "none" /\ ~Has
  BY <1>1 DEF CInv, Turns, Asking
<1>6. SessionTypes'
  BY <1>1, <1>2, <1>3 DEF CInv, SessionTypes
<1>7. Turns'
  BY <1>1, <1>2, <1>3, <1>4, <1>5 DEF CInv, Turns, ForCall
<1>8. Answered' /\ Known' /\ NoneLost' /\ Wanted'
  BY <1>1, <1>3, <1>4, <1>5, NoMsgIs DEF CInv, Answered, Known, NoneLost, Wanted, Turns
<1>9. OneScan'
  <2>1. OneCall' /\ OneAccept'
    BY <1>1 DEF CInv, OneScan, OneCall, OneAccept, Active, Orderly
  <2>2. OnePending'
    BY <1>1, <1>4 DEF CInv, OneScan, OnePending, Active, Orderly
  <2>3. OneFrame'
    BY <1>1, <1>4 DEF CInv, OneScan, OneFrame, Orderly, Active, Frames
  <2> QED
    BY <2>1, <2>2, <2>3 DEF OneScan
<1>10. BusyMeansScanning'
  BY <1>1 DEF CInv, BusyMeansScanning, Inuse, Frames
<1> QED
  BY <1>6, <1>7, <1>8, <1>9, <1>10 DEF CInv

LEMMA AuthorizeAgrees ==
  ASSUME IInv, CInv, Authorize, UNCHANGED << scn, call, may >>
  PROVE  CInv'
<1>1. /\ pc = "auth" /\ pc' = "authorized" /\ req' = NoMsg
      /\ UNCHANGED << handle, stack, acc, asked, reply, dconn, hup >>
  BY DEF Authorize
<1>3. req' \in Messages /\ req'.op = "none" /\ req'.h = -1
  BY <1>1, NoMsgIs
<1>4. (Has' <=> Has) /\ Asking' /\ Asking /\ Pending' = asked /\ Pending = asked
  BY <1>1 DEF Has, Asking, Pending
<1>6. SessionTypes'
  BY <1>1, <1>3 DEF CInv, SessionTypes
<1>7. Turns'
  BY <1>1, <1>3, <1>4 DEF CInv, Turns, ForCall
<1>8. Answered' /\ Known' /\ NoneLost' /\ Wanted' /\ OneCall' /\ OneAccept'
  BY <1>1, <1>3, QuietParts
<1>9. OnePending' /\ OneFrame'
  <2>1. OnePending'
    BY <1>1, <1>4 DEF CInv, OneScan, OnePending, Active, Orderly
  <2>2. OneFrame'
    BY <1>1, <1>4 DEF CInv, OneScan, OneFrame, Orderly, Active, Frames
  <2> QED
    BY <2>1, <2>2
<1>10. BusyMeansScanning'
  BY <1>1 DEF CInv, BusyMeansScanning, Inuse, Frames
<1> QED
  BY <1>6, <1>7, <1>8, <1>9, <1>10 DEF CInv, OneScan

LEMMA AcceptAgrees ==
  ASSUME IInv, CInv, Accept, UNCHANGED << scn, call, may >>
  PROVE  CInv'
<1>1. /\ pc = "accept" /\ dconn = "connected" /\ pc' = "serve"
      /\ stack' = Append(stack, Frame(acc))
      /\ UNCHANGED << handle, asked, req, reply, hup >>
  BY DEF Accept
<1>2. /\ acc \in Handles /\ handle[acc].inuse /\ handle[acc].be \in Nat
      /\ stack \in Seq(Frame_) /\ Len(stack) \in Nat
  BY <1>1, LenProperties DEF IInv, AcceptFresh, ServerTypes, Entry
<1>3. Frame(acc) \in Frame_ /\ Frame(acc).h = acc /\ Frame(acc).be = handle[acc].be
  BY <1>2 DEF Frame, Frame_
<1>4. /\ Len(stack') = Len(stack) + 1 /\ Frames = 1..Len(stack) /\ Frames' = 1..(Len(stack) + 1)
      /\ stack'[Len(stack) + 1].h = acc /\ stack'[Len(stack) + 1].be = handle[acc].be
      /\ \A k \in Frames : k \in Frames' /\ stack'[k] = stack[k]
  <2>1. /\ stack' \in Seq(Frame_) /\ Len(stack') = Len(stack) + 1
        /\ \A k \in 1..Len(stack) : stack'[k] = stack[k]
        /\ stack'[Len(stack) + 1] = Frame(acc)
    BY <1>1, <1>2, <1>3, AppendProperties
  <2>2. Frames = 1..Len(stack) /\ Frames' = 1..(Len(stack) + 1)
    BY <1>2, <2>1, LenProperties DEF Frames
  <2> QED
    BY <1>2, <1>3, <2>1, <2>2
<1>5. (Has' <=> Has) /\ ~Asking' /\ ~Asking /\ Pending' = req /\ Pending = req
  BY <1>1 DEF Has, Asking, Pending
<1>6. SessionTypes'
  BY <1>1 DEF CInv, SessionTypes
<1>7. Turns'
  BY <1>1, <1>5 DEF CInv, Turns, ForCall
<1>8. Answered' /\ Known' /\ NoneLost' /\ Wanted'
  BY <1>1, <1>5 DEF CInv, Answered, Known, NoneLost, Wanted
<1>9. OneScan'
  <2>1. OneCall' /\ OneAccept' /\ OnePending'
    BY <1>1, <1>5 DEF CInv, OneScan, OneCall, OneAccept, OnePending, Active, Orderly
  <2>2. OneFrame'
    <3> SUFFICES ASSUME Orderly PROVE OneFrame'
      BY DEF OneFrame, Orderly
    <3>1. stack = << >> /\ Active(acc)
      BY <1>1 DEF CInv, OneScan, OneAccept
    <3>2. Len(stack) = 0 /\ Frames' = {1} /\ stack'[1].h = acc /\ stack'[1].be = handle[acc].be
          /\ Len(stack') = 1
      BY <1>4, <3>1
    <3>3. ~hup /\ Has => call.op = "start"
      BY <1>1 DEF CInv, Answered
    <3> QED
      BY <1>1, <1>2, <1>5, <3>1, <3>2, <3>3 DEF OneFrame, Active
  <2> QED
    BY <2>1, <2>2 DEF OneScan
<1>10. BusyMeansScanning'
  <2>1. Len(stack) + 1 \in Frames'
    BY <1>2, <1>4
  <2> QED
    BY <1>1, <1>4, <2>1 DEF CInv, BusyMeansScanning, Inuse
<1> QED
  BY <1>6, <1>7, <1>8, <1>9, <1>10 DEF CInv

\* The data connection does not come.
LEMMA NoAcceptAgrees ==
  ASSUME IInv, CInv, AcceptFails \/ AcceptStranger, UNCHANGED << scn, call, may >>
  PROVE  CInv'
<1>1. /\ pc = "accept" /\ pc' \in {"serve", "return", "exit"}
      /\ UNCHANGED << handle, stack, asked, req, reply, hup >>
  BY DEF AcceptFails, AcceptStranger, Done, Fail, quit
<1>2. \/ "accept" \in may
      \/ "stranger" \in may /\ (stack = << >> => pc' = "exit")
  BY DEF AcceptFails, AcceptStranger, Fail, quit
<1>3. Orderly => stack = << >> /\ Frames = {} /\ Len(stack) = 0
  BY <1>1 DEF CInv, OneScan, OneAccept, Frames
<1>5. (Has' <=> Has) /\ ~Asking' /\ ~Asking /\ Pending' = req /\ Pending = req
  BY <1>1 DEF Has, Asking, Pending
<1>6. SessionTypes'
  BY <1>1 DEF CInv, SessionTypes
<1>7. Turns'
  BY <1>1, <1>5 DEF CInv, Turns, ForCall
<1>8. Answered' /\ Known' /\ NoneLost' /\ Wanted' /\ OneCall' /\ OneAccept'
  BY <1>1, QuietParts
<1>9. OnePending' /\ OneFrame'
  <2>1. OnePending'
    BY <1>1, <1>5 DEF CInv, OneScan, OnePending, Active, Orderly
  <2>2. OneFrame'
    BY <1>1, <1>3 DEF OneFrame, Orderly, Frames
  <2> QED
    BY <2>1, <2>2
<1>10. BusyMeansScanning'
  BY <1>2, <1>3 DEF BusyMeansScanning, Orderly
<1> QED
  BY <1>6, <1>7, <1>8, <1>9, <1>10 DEF CInv, OneScan

\* The server ends, by a signal or over a lost table.
LEMMA SignalAgrees ==
  ASSUME IInv, CInv, Signal \/ Segfault \/ OpenSegfault, UNCHANGED << scn, call, may >>
  PROVE  CInv'
<1>1. /\ pc' = "exit"
      /\ UNCHANGED << handle, stack, asked, req, reply, hup >>
  BY DEF Signal, Segfault, OpenSegfault, quit, channel
<1>2. (Has' <=> Has) /\ ~Asking'
  BY <1>1 DEF Has, Asking
<1>3. SessionTypes'
  BY <1>1 DEF CInv, SessionTypes
<1>4. Turns'
  BY <1>1, <1>2 DEF CInv, Turns
<1>5. Answered' /\ Known' /\ NoneLost' /\ Wanted' /\ OneCall' /\ OneAccept'
  BY <1>1, QuietParts
<1>6. OnePending' /\ OneFrame' /\ BusyMeansScanning'
  BY <1>1 DEF OnePending, OneFrame, BusyMeansScanning
<1> QED
  BY <1>3, <1>4, <1>5, <1>6 DEF CInv, OneScan

\* The innermost scan ends.
LEMMA EndScanAgrees ==
  ASSUME IInv, CInv, EndScan, stack # << >>, pc \in {"serve", "return"},
         UNCHANGED << acc, asked, channel, scn, call, may >>
  PROVE  CInv'
<1> DEFINE n == Len(stack)
<1>1. /\ handle \in [Handles -> Entry] /\ stack \in Seq(Frame_)
      /\ n \in Nat /\ n >= 1 /\ Frames = 1..n /\ stack[n].h \in Handles
  BY FrameType, LenProperties, EmptySeq DEF IInv, ServerTypes, Frames, Frame_
<1>2. /\ Len(stack') = n - 1 /\ Frames' = 1..(n - 1)
      /\ \A k \in 1..(n - 1) : stack'[k] = stack[k]
  BY <1>1 DEF EndScan, Front, Frames
<1>3. PICK t \in Handles : t = stack[n].h
  BY <1>1
<1>4. handle' = [handle EXCEPT ![t].docancel = FALSE, ![t].scanning = FALSE]
  BY <1>3 DEF EndScan, Top, Last
<1>5. /\ ~handle'[t].scanning
      /\ \A j \in Handles : handle'[j].inuse <=> handle[j].inuse
      /\ \A j \in Handles : handle'[j].docancel => handle[j].docancel
      /\ \A j \in Handles \ {t} : handle'[j].scanning <=> handle[j].scanning
  BY <1>1, <1>4 DEF Entry
<1>6. pc' \in {"serve", "return"} /\ UNCHANGED << req, reply, hup >>
  BY DEF EndScan, channel
<1>7. (Has' <=> Has) /\ ~Asking' /\ ~Asking /\ Pending' = req /\ Pending = req
  BY <1>6 DEF Has, Asking, Pending
<1>8. SessionTypes'
  BY <1>6 DEF CInv, SessionTypes
<1>9. Turns'
  BY <1>6, <1>7 DEF CInv, Turns, ForCall
<1>10. Answered'
  <2>1. SessionTypes
    BY DEF CInv
  <2> QED
    BY <1>5, <1>6, <1>7, <2>1 DEF CInv, Answered, SessionTypes
<1>11. Known'
  BY <1>5, <1>6, <1>7 DEF CInv, Known, SessionTypes
<1>12. NoneLost' /\ Wanted'
  BY <1>5, <1>6, <1>7 DEF CInv, NoneLost, Wanted
<1>13. OneScan'
  <2>1. OneCall' /\ OneAccept' /\ OnePending'
    BY <1>6, <1>7 DEF CInv, OneScan, OneCall, OneAccept, OnePending, Active, Orderly
  <2>2. OneFrame'
    <3>1. Orderly => n <= 1
      BY DEF CInv, OneScan, OneFrame
    <3>2. Orderly => Frames' = {} /\ Len(stack') <= 1
      BY <1>1, <1>2, <3>1
    <3> QED
      BY <3>2 DEF OneFrame, Orderly
  <2> QED
    BY <2>1, <2>2 DEF OneScan
<1>14. BusyMeansScanning'
  <2>1. \A k \in Frames : stack[k].h # t => k \in Frames' /\ stack'[k] = stack[k]
    BY <1>1, <1>2, <1>3
  <2>2. Inuse' = Inuse
    BY <1>5 DEF Inuse
  <2> HIDE DEF n
  <2> SUFFICES ASSUME "accept" \notin may, "stranger" \notin may \/ may \cap C!HabitKinds = {},
                      NEW i \in Inuse, handle'[i].scanning
               PROVE  \E k \in Frames' : stack'[k].h = i
    BY <2>2 DEF BusyMeansScanning
  <2>3. i # t /\ handle[i].scanning
    BY <1>5 DEF Inuse
  <2>4. PICK k \in Frames : stack[k].h = i
    BY <2>3 DEF CInv, BusyMeansScanning
  <2> QED
    BY <2>1, <2>3, <2>4
<1> QED
  BY <1>8, <1>9, <1>10, <1>11, <1>12, <1>13, <1>14 DEF CInv

LEMMA ReturnAgrees ==
  ASSUME IInv, CInv, Return, UNCHANGED << scn, call, may >>
  PROVE  CInv'
<1>1. pc = "return" /\ stack # << >> /\ UNCHANGED << acc, asked, channel >>
  BY DEF Return, IInv, ServerTypes
<1>2. CASE CancelSeen
  BY <1>1, <1>2, EndScanAgrees DEF Return
<1>3. CASE ~CancelSeen
  <2>1. pc' = "serve" /\ UNCHANGED << handle, stack, req, reply, hup >>
    BY <1>3 DEF Return, channel
  <2>2. (Has' <=> Has) /\ ~Asking' /\ ~Asking /\ Pending' = req /\ Pending = req
    BY <1>1, <2>1 DEF Has, Asking, Pending
  <2>3. SessionTypes'
    BY <1>1, <2>1 DEF CInv, SessionTypes
  <2>4. Turns'
    BY <1>1, <2>1, <2>2 DEF CInv, Turns, ForCall
  <2>5. Answered' /\ Known' /\ NoneLost' /\ Wanted' /\ OneCall' /\ OneAccept'
    BY <2>1, QuietParts
  <2>6. OnePending'
    BY <1>1, <2>1, <2>2 DEF CInv, OneScan, OnePending, Active, Orderly
  <2>7. OneFrame'
    <3> SUFFICES ASSUME Orderly PROVE OneFrame'
      BY DEF OneFrame, Orderly
    <3>1. Len(stack) <= 1 /\ Len(stack) \in Nat /\ Frames = 1..Len(stack)
      BY <1>1, LenProperties DEF CInv, OneScan, OneFrame, IInv, ServerTypes, Frames
    <3>2. \A k \in Frames : k = Len(stack)
      BY <3>1
    <3>3. \A k \in Frames : stack[k] = Top
      BY <3>2 DEF Top, Last
    <3>4. \A k \in Frames : ~handle[stack[k].h].docancel
      BY <1>3, <3>3 DEF CancelSeen
    <3> QED
      BY <1>1, <2>1, <2>2, <3>4 DEF CInv, OneScan, OneFrame, Active, Frames
  <2>8. BusyMeansScanning'
    BY <1>1, <2>1 DEF CInv, BusyMeansScanning, Inuse, Frames
  <2> QED
    BY <2>3, <2>4, <2>5, <2>6, <2>7, <2>8 DEF CInv, OneScan
<1> QED
  BY <1>2, <1>3

\* A step of the server.
LEMMA ServerAgrees ==
  ASSUME IInv, CInv, SanedNext, UNCHANGED << scn, call, may >>
  PROVE  CInv'
<1>1. ASSUME NEW i \in Handles, Query(i) \/ Option(i) \/ StartBusy(i) \/ StartFails(i)
      PROVE  CInv'
  <2>1. CASE Query(i)
    BY <2>1, QuietAnswer DEF Query, RequestFor
  <2>2. CASE Option(i)
    BY <2>2, QuietAnswer DEF Option, RequestFor
  <2>3. CASE StartBusy(i)
    BY <2>3, QuietAnswer DEF StartBusy, RequestFor
  <2>4. CASE StartFails(i)
    BY <2>4, QuietAnswer DEF StartFails, RequestFor
  <2> QED
    BY <1>1, <2>1, <2>2, <2>3, <2>4
<1>2. CASE OpenRefused \/ OpenNoDevice \/ OpenNoEntry
  BY <1>2, QuietAnswer DEF OpenRefused, OpenNoDevice, OpenNoEntry
<1>3. CASE LoopEnds
  BY <1>3, EndScanAgrees DEF LoopEnds
<1> QED
  BY <1>1, <1>2, <1>3, OpenAgrees, CloseAgrees, CancelAgrees, StartAgrees, ExitAgrees,
     ChallengeAgrees, AuthorizeAgrees, AcceptAgrees, NoAcceptAgrees, ReturnAgrees,
     SignalAgrees DEF SanedNext, ServeRequest

LEMMA TopFrame ==
  ASSUME ServerTypes, stack # << >>
  PROVE  Len(stack) \in Frames /\ Top = stack[Len(stack)] /\ Top.h \in Handles
<1>1. Len(stack) \in Nat \ {0} /\ Frames = 1..Len(stack)
  BY LenProperties, EmptySeq DEF ServerTypes, Frames
<1>2. Len(stack) \in Frames
  BY <1>1
<1> QED
  BY <1>2, FrameType DEF Top, Last

-------------------------------------------------------------------------------
(* The steps of the client.                                                *)

LEMMA InitAgrees == SessionInit => CInv
<1> SUFFICES ASSUME SessionInit PROVE CInv
  OBVIOUS
<1>1. /\ req = NoMsg /\ reply = NoMsg /\ call = NoMsg /\ asked = NoMsg /\ hup = FALSE
      /\ pc = "serve" /\ stack = << >>
      /\ scn = [i \in Handles |-> "none"]
      /\ \A i \in Handles : ~handle[i].inuse /\ ~handle[i].docancel
  BY SameNames DEF SessionInit, Init, C!Init
<1>2. Frames = {} /\ Len(stack) = 0 /\ Inuse = {}
  BY <1>1 DEF Frames, Inuse
<1>3. ~Has /\ ~Asking /\ Pending = req
  BY <1>1, NoMsgIs DEF Has, Asking, Pending
<1>4. SessionTypes /\ Turns
  BY <1>1, <1>3, NoMsgIs DEF SessionTypes, Turns
<1>5. Answered /\ Known /\ NoneLost /\ Wanted
  BY <1>1, <1>3, NoMsgIs DEF Answered, Known, NoneLost, Wanted
<1>6. OneScan
  BY <1>1, <1>2, <1>3, NoMsgIs DEF OneScan, OneCall, OnePending, OneAccept, OneFrame
<1> QED
  BY <1>2, <1>4, <1>5, <1>6 DEF CInv, BusyMeansScanning

\* Between two calls nothing is on its way.
LEMMA IdleIs ==
  ASSUME CInv, C!Idle
  PROVE  /\ ~hup /\ call.op = "none" /\ req.op = "none" /\ reply.op = "none"
         /\ ~Asking /\ ~Has /\ req.h = -1 /\ Pending = req
BY SameNames, NoMsgIs, MessageIs DEF C!Idle, CInv, SessionTypes, Turns, Has, Pending

\* What a step of the client does not touch.
LEMMA ClientParts ==
  ASSUME CInv, UNCHANGED server, may' = may
  PROVE  /\ (Asking' <=> Asking) /\ (Orderly' <=> Orderly) /\ Frames' = Frames
         /\ BusyMeansScanning'
         /\ UNCHANGED << handle, stack, pc, acc, asked >>
BY DEF server, Asking, Orderly, Frames, CInv, BusyMeansScanning, Inuse

LEMMA CallAgrees ==
  ASSUME CInv, C!Idle,
         NEW o \in {"open", "query", "option", "start", "cancel", "close"},
         NEW i \in Handles \cup {-1}, C!w_call(o, i),
         IF o = "open" THEN i = -1 ELSE i \in Handles /\ scn[i] # "none",
         Orderly /\ o = "start" => \A j \in Handles \ {i} : ~Active(j),
         Orderly /\ o = "close" => ~Active(i),
         UNCHANGED << scn, reply, server, may >>
  PROVE  CInv'
<1>1. /\ ~hup /\ call.op = "none" /\ req.op = "none" /\ reply.op = "none"
      /\ ~Asking /\ ~Has /\ req.h = -1
  BY IdleIs
<1>2. /\ call' = [op |-> o, h |-> i] /\ req' = [op |-> o, h |-> i]
      /\ UNCHANGED << dconn, hup, scn, reply >>
  BY DEF C!w_call
<1>3. /\ call' \in Messages /\ call'.op = o /\ call'.h = i
      /\ req' \in Messages /\ req'.op = o /\ req'.h = i
  BY <1>2, MessageNew DEF Ops
<1>4. /\ (Asking' <=> Asking) /\ (Orderly' <=> Orderly) /\ Frames' = Frames
      /\ BusyMeansScanning' /\ UNCHANGED << handle, stack, pc, acc, asked >>
  BY ClientParts
<1>5. ~Has' /\ Pending' = req'
  BY <1>1, <1>2, <1>4 DEF Has, Pending
<1>6. SessionTypes'
  BY <1>2, <1>3, <1>4 DEF CInv, SessionTypes
<1>7. Turns'
  BY <1>1, <1>2, <1>3, <1>4, <1>5 DEF Turns, ForCall
<1>8. Answered'
  BY <1>5 DEF Answered
<1>9. Known' /\ NoneLost' /\ Wanted'
  <2>1. \A j \in Handles : scn[j] # "none" => handle[j].inuse
    BY <1>1 DEF CInv, Known
  <2>2. Known'
    BY <1>2, <1>3, <1>4, <2>1, NoMsgIs DEF Known
  <2>3. NoneLost' /\ Wanted'
    BY <1>1, <1>2, <1>4 DEF CInv, NoneLost, Wanted
  <2> QED
    BY <2>2, <2>3
<1>10. OneCall' /\ OnePending'
  BY <1>2, <1>3, <1>4, <1>5 DEF OneCall, OnePending, Active
<1>11. OneAccept' /\ OneFrame'
  BY <1>2, <1>4, <1>5 DEF CInv, OneScan, OneAccept, OneFrame, Active
<1> QED
  BY <1>4, <1>6, <1>7, <1>8, <1>9, <1>10, <1>11 DEF CInv, OneScan

\* The reply of a call has come.
LEMMA ReplyIs ==
  ASSUME CInv, NEW o, C!Replied(o), o # "none"
  PROVE  /\ ~hup /\ Has /\ ~Asking /\ req.op = "none" /\ req.h = -1 /\ Pending = req
         /\ call.op = o
BY SameNames, NoMsgIs, MessageIs
   DEF C!Replied, CInv, SessionTypes, Turns, Has, Pending

\* The call returns with it; what becomes of scn and the data connection is the
\* call's own affair.
LEMMA ReturnParts ==
  ASSUME CInv, NEW o, o # "none", C!Replied(o), C!TakeReply, C!Return,
         scn' \in [Handles -> {"none", "idle", "data", "done"}],
         UNCHANGED << server, may >>
  PROVE  /\ SessionTypes' /\ Turns' /\ Answered' /\ OneCall' /\ OnePending'
         /\ BusyMeansScanning' /\ hup' = hup /\ ~Has'
         /\ call'.op = "none" /\ req'.h = -1
         /\ (Orderly' <=> Orderly) /\ Frames' = Frames
         /\ UNCHANGED << handle, stack, pc, acc >>
<1>1. ~hup /\ ~Asking /\ req.op = "none" /\ req.h = -1
  BY ReplyIs
<1>2. call' = NoMsg /\ reply' = NoMsg /\ req' = req /\ hup' = hup
  BY SameNames DEF C!TakeReply, C!Return
<1>3. /\ (Asking' <=> Asking) /\ (Orderly' <=> Orderly) /\ Frames' = Frames
      /\ BusyMeansScanning' /\ UNCHANGED << handle, stack, pc, acc, asked >>
  BY ClientParts
<1>4. call'.op = "none" /\ reply'.op = "none" /\ ~Has' /\ Pending' = req
  BY <1>1, <1>2, <1>3, NoMsgIs DEF Has, Pending
<1>5. SessionTypes'
  BY <1>2, <1>3, <1>4, NoMsgIs DEF CInv, SessionTypes
<1>6. Turns'
  BY <1>1, <1>2, <1>3, <1>4 DEF Turns
<1>7. Answered' /\ OneCall' /\ OnePending'
  BY <1>1, <1>4 DEF Answered, OneCall, OnePending
<1> QED
  BY <1>1, <1>2, <1>3, <1>4, <1>5, <1>6, <1>7

\* It changes nothing.
LEMMA PlainReturn ==
  ASSUME CInv, NEW o \in {"open", "query", "option", "start"}, C!Replied(o),
         C!TakeReply, C!Return,
         o = "open" => reply.op = "error" \/ "nomem" \in may,
         UNCHANGED << scn, dconn, server, may >>
  PROVE  CInv'
<1>1. scn' \in [Handles -> {"none", "idle", "data", "done"}]
  BY DEF CInv, SessionTypes
<1>2. /\ SessionTypes' /\ Turns' /\ Answered' /\ OneCall' /\ OnePending'
      /\ BusyMeansScanning' /\ hup' = hup /\ ~Has'
      /\ call'.op = "none" /\ req'.h = -1
      /\ (Orderly' <=> Orderly) /\ Frames' = Frames
      /\ UNCHANGED << handle, stack, pc, acc >>
  BY <1>1, ReturnParts
<1>3. ~hup /\ call.op = o
  BY ReplyIs
<1>4. Known' /\ NoneLost' /\ Wanted'
  BY <1>2, <1>3, NoMsgIs DEF CInv, Known, NoneLost, Wanted
<1>5. OneAccept' /\ OneFrame'
  BY <1>2 DEF CInv, OneScan, OneAccept, OneFrame, Active
<1> QED
  BY <1>2, <1>4, <1>5 DEF CInv, OneScan

\* It changes the state of the scanner.
LEMMA ScannerReturn ==
  ASSUME IInv, CInv, NEW o \in {"fetch", "start", "cancel", "close"},
         C!Replied(o), C!TakeReply, C!Return, o = "start" => reply.op = "good",
         scn' = [scn EXCEPT ![call.h] = CASE o = "start" -> "data"
                                          [] o = "close" -> "none"
                                          [] OTHER -> "idle"],
         o # "start" => dconn' = dconn,
         UNCHANGED << server, may >>
  PROVE  CInv'
<1>0. ~hup /\ call.op = o /\ Has /\ call.h \in Handles
  BY ReplyIs DEF CInv, SessionTypes
<1>1. /\ scn' \in [Handles -> {"none", "idle", "data", "done"}]
      /\ \A j \in Handles \ {call.h} : scn'[j] = scn[j]
      /\ o = "start" => scn'[call.h] = "data"
      /\ o = "close" => scn'[call.h] = "none"
      /\ o \in {"fetch", "cancel"} => scn'[call.h] = "idle"
  BY <1>0 DEF CInv, SessionTypes
<1>2. /\ SessionTypes' /\ Turns' /\ Answered' /\ OneCall' /\ OnePending'
      /\ BusyMeansScanning' /\ hup' = hup /\ ~Has'
      /\ call'.op = "none" /\ req'.h = -1
      /\ (Orderly' <=> Orderly) /\ Frames' = Frames
      /\ UNCHANGED << handle, stack, pc, acc >>
  BY <1>1, ReturnParts
<1>3. /\ o \in {"fetch", "start", "cancel"} => handle[call.h].inuse
      /\ o = "close" => ~handle[call.h].inuse
      /\ o = "start" => ~handle[call.h].docancel
      /\ pc = "accept" => o = "start" /\ call.h = acc
      /\ o = "fetch" => scn[call.h] = "none"
  BY <1>0 DEF CInv, Answered, Known
<1>4. Known'
  BY <1>0, <1>1, <1>2, <1>3, NoMsgIs DEF CInv, Known
<1>5. NoneLost'
  BY <1>0, <1>1, <1>2, <1>3 DEF CInv, NoneLost
<1>6. Wanted'
  BY <1>0, <1>1, <1>2, <1>3 DEF CInv, Wanted
<1>7. OneAccept'
  BY <1>0, <1>1, <1>2, <1>3 DEF CInv, OneScan, OneAccept, Active
<1>8. OneFrame'
  <2>1. \A k \in Frames : stack[k].h \in Handles
    BY FrameType DEF IInv
  <2> QED
    BY <1>0, <1>1, <1>2, <1>3, <2>1 DEF CInv, OneScan, OneFrame, Active
<1> QED
  BY <1>2, <1>4, <1>5, <1>6, <1>7, <1>8 DEF CInv, OneScan

\* sane_open goes on: fetch_options, or close the device again.
LEMMA OpenGoesOn ==
  ASSUME CInv, NEW o \in {"open", "fetch"}, C!Replied(o), C!TakeReply,
         o = "open" => reply.op = "good",
         NEW i, i = (IF o = "open" THEN reply.h ELSE call.h),
         call' = [op |-> IF o = "open" THEN "fetch" ELSE "close", h |-> i],
         req' = [op |-> IF o = "open" THEN "query" ELSE "close", h |-> i],
         UNCHANGED << scn, dconn, server, may >>
  PROVE  CInv'
<1>0. ~hup /\ call.op = o /\ Has /\ ~Asking
  BY ReplyIs
<1>1. i \in Handles /\ handle[i].inuse /\ scn[i] = "none" /\ pc # "accept"
  BY <1>0 DEF CInv, SessionTypes, Answered, Known
<1>2. reply' = NoMsg /\ hup' = hup
  BY SameNames DEF C!TakeReply
<1>3. /\ call' \in Messages /\ call'.op = (IF o = "open" THEN "fetch" ELSE "close")
      /\ call'.h = i
      /\ req' \in Messages /\ req'.op = (IF o = "open" THEN "query" ELSE "close")
      /\ req'.h = i
  <2>1. CASE o = "open"
    BY <1>1, <2>1, MessageNew DEF Ops
  <2>2. CASE o = "fetch"
    BY <1>1, <2>2, MessageNew DEF Ops
  <2> QED
    BY <2>1, <2>2
<1>4. /\ (Asking' <=> Asking) /\ (Orderly' <=> Orderly) /\ Frames' = Frames
      /\ BusyMeansScanning' /\ UNCHANGED << handle, stack, pc, acc, asked >>
  BY ClientParts
<1>5. ~Has' /\ Pending' = req' /\ reply'.op = "none"
  BY <1>0, <1>2, <1>4, NoMsgIs DEF Has, Pending
<1>6. SessionTypes'
  BY <1>1, <1>2, <1>3, <1>4, NoMsgIs DEF CInv, SessionTypes
<1>7. Turns'
  BY <1>0, <1>2, <1>3, <1>4, <1>5 DEF Turns, ForCall
<1>8. Answered'
  BY <1>5 DEF Answered
<1>9. Known' /\ NoneLost' /\ Wanted'
  BY <1>0, <1>1, <1>2, <1>3, <1>4, <1>5 DEF CInv, Known, NoneLost, Wanted
<1>10. OneCall' /\ OnePending'
  BY <1>1, <1>2, <1>3, <1>4, <1>5 DEF OneCall, OnePending, Active
<1>11. OneAccept' /\ OneFrame'
  BY <1>2, <1>4, <1>5 DEF CInv, OneScan, OneAccept, OneFrame, Active
<1> QED
  BY <1>4, <1>6, <1>7, <1>8, <1>9, <1>10, <1>11 DEF CInv, OneScan

LEMMA AuthorizationAgrees ==
  ASSUME CInv, C!do_authorization, UNCHANGED << server, may >>
  PROVE  CInv'
<1>1. /\ reply.op = "auth" /\ reply' = NoMsg /\ req' = [op |-> "authorize", h |-> -1]
      /\ UNCHANGED << scn, call, dconn, hup >> /\ call # NoMsg
  BY SameNames DEF C!do_authorization, C!TakeReply
<1>2. req' \in Messages /\ req'.op = "authorize" /\ req'.h = -1
  BY <1>1, MessageNew DEF Ops
<1>3. call.op # "none" /\ ~hup /\ ~Has /\ (Asking \/ pc = "exit")
  BY <1>1, MessageIs DEF CInv, SessionTypes, Turns, Has
<1>4. /\ (Asking' <=> Asking) /\ (Orderly' <=> Orderly) /\ Frames' = Frames
      /\ BusyMeansScanning' /\ UNCHANGED << handle, stack, pc, acc, asked >>
  BY ClientParts
<1>5. ~Has' /\ (Asking => Pending' = Pending) /\ reply'.op = "none"
  BY <1>1, <1>4, NoMsgIs DEF Has, Pending
<1>6. SessionTypes'
  BY <1>1, <1>2, <1>4, NoMsgIs DEF CInv, SessionTypes
<1>7. Turns'
  BY <1>1, <1>2, <1>3, <1>4, <1>5 DEF CInv, Turns, ForCall
<1>8. Answered'
  BY <1>5 DEF Answered
<1>9. Known' /\ NoneLost' /\ Wanted'
  BY <1>1, <1>2, <1>3, <1>4, <1>5, NoMsgIs DEF CInv, Known, NoneLost, Wanted
<1>10. OneCall' /\ OnePending'
  BY <1>1, <1>3, <1>4, <1>5 DEF CInv, OneScan, OneCall, OnePending, Active
<1>11. OneAccept' /\ OneFrame'
  BY <1>1, <1>4, <1>5 DEF CInv, OneScan, OneAccept, OneFrame, Active
<1> QED
  BY <1>4, <1>6, <1>7, <1>8, <1>9, <1>10, <1>11 DEF CInv, OneScan

\* The client reads to the end of a scan.
LEMMA ReadAgrees ==
  ASSUME IInv, CInv, NEW i \in Handles, C!ReadEnds(i), UNCHANGED << server, may >>
  PROVE  CInv'
<1>1. /\ ~hup /\ call.op = "none" /\ req.op = "none" /\ reply.op = "none"
      /\ ~Asking /\ ~Has /\ req.h = -1 /\ Pending = req
  BY IdleIs DEF C!ReadEnds
<1>2. /\ scn' \in [Handles -> {"none", "idle", "data", "done"}]
      /\ \A j \in Handles : /\ scn'[j] = "none" <=> scn[j] = "none"
                            /\ scn'[j] = "data" => scn[j] = "data"
                            /\ Active(j)' <=> Active(j)
  BY DEF C!ReadEnds, CInv, SessionTypes, Active
<1>3. UNCHANGED << call, req, reply, dconn, hup >>
  BY DEF C!ReadEnds
<1>4. /\ (Asking' <=> Asking) /\ (Orderly' <=> Orderly) /\ Frames' = Frames
      /\ BusyMeansScanning' /\ UNCHANGED << handle, stack, pc, acc, asked >>
  BY ClientParts
<1>5. ~Has' /\ Pending' = Pending
  BY <1>1, <1>3, <1>4 DEF Has, Pending
<1>6. SessionTypes' /\ Turns'
  BY <1>1, <1>2, <1>3, <1>4, <1>5 DEF CInv, SessionTypes, Turns
<1>7. Answered'
  BY <1>5 DEF Answered
<1>8. Known' /\ NoneLost' /\ Wanted'
  BY <1>1, <1>2, <1>3, <1>4, NoMsgIs DEF CInv, Known, NoneLost, Wanted
<1>9. OneCall' /\ OnePending'
  BY <1>1, <1>3, <1>5 DEF OneCall, OnePending
<1>10. OneAccept' /\ OneFrame'
  <2>1. \A k \in Frames : stack[k].h \in Handles
    BY FrameType DEF IInv
  <2>2. pc = "accept" => acc \in Handles
    BY DEF IInv, AcceptFresh
  <2> QED
    BY <1>2, <1>3, <1>4, <1>5, <2>1, <2>2 DEF CInv, OneScan, OneAccept, OneFrame
<1> QED
  BY <1>4, <1>6, <1>7, <1>8, <1>9, <1>10 DEF CInv, OneScan

\* The client leaves, knowing or not.
LEMMA LeaveAgrees ==
  ASSUME CInv, C!sane_exit \/ C!CallFails \/ C!Crash, UNCHANGED << server, may >>
  PROVE  CInv'
<1>1. /\ hup' /\ call' = NoMsg /\ UNCHANGED << scn, dconn >>
      /\ reply' \in {reply, NoMsg}
  <2>1. CASE C!sane_exit
    BY <2>1, SameNames DEF C!sane_exit, C!Idle
  <2>2. CASE C!CallFails \/ C!Crash
    BY <2>2, SameNames DEF C!CallFails, C!Crash
  <2> QED
    BY <2>1, <2>2
<1>2. /\ req' \in Messages /\ req'.h = req.h
      /\ req' = req \/ (~Asking /\ req'.op = "exit")
  <2>1. CASE C!sane_exit
    <3>1. req' = [op |-> "exit", h |-> -1]
      BY <2>1 DEF C!sane_exit
    <3>2. req' \in Messages /\ req'.op = "exit" /\ req'.h = -1
      BY <3>1, MessageNew DEF Ops
    <3> QED
      BY <2>1, <3>2, IdleIs DEF C!sane_exit
  <2>2. CASE C!CallFails \/ C!Crash
    BY <2>2 DEF C!CallFails, C!Crash, CInv, SessionTypes
  <2> QED
    BY <2>1, <2>2
<1>3. hup' = TRUE
  BY DEF C!sane_exit, C!CallFails, C!Crash
<1>4. /\ (Asking' <=> Asking) /\ (Orderly' <=> Orderly) /\ Frames' = Frames
      /\ BusyMeansScanning' /\ UNCHANGED << handle, stack, pc, acc, asked >>
  BY ClientParts
<1>5. call'.op = "none" /\ call'.h = -1
  BY <1>1, NoMsgIs
<1>6. SessionTypes'
  BY <1>1, <1>2, <1>3, <1>4, <1>5, NoMsgIs DEF CInv, SessionTypes
<1>7. Turns' /\ Answered'
  BY <1>1, <1>2, <1>3, <1>4, <1>5 DEF CInv, Turns, Answered
<1>8. Known' /\ NoneLost' /\ Wanted'
  BY <1>1, <1>2, <1>3, <1>4, <1>5, NoMsgIs DEF CInv, Known, NoneLost, Wanted
<1>9. OneCall' /\ OnePending'
  BY <1>1, <1>2, <1>4, <1>5 DEF CInv, OneScan, OneCall, OnePending, Pending, Active
<1>10. OneAccept' /\ OneFrame'
  BY <1>1, <1>3, <1>4, <1>5 DEF CInv, OneScan, OneAccept, OneFrame, Active
<1> QED
  BY <1>4, <1>6, <1>7, <1>8, <1>9, <1>10 DEF CInv, OneScan

\* A step of the client.
LEMMA ClientAgrees ==
  ASSUME IInv, CInv, C!Next, UNCHANGED << server, may >>
  PROVE  CInv'
<1>1. CASE C!sane_open
  BY <1>1, CallAgrees DEF C!sane_open
<1>2. ASSUME NEW i \in Handles,
             \/ C!sane_get_parameters(i) \/ C!sane_control_option(i)
             \/ C!sane_start(i) \/ C!sane_cancel(i) \/ C!sane_close(i)
      PROVE  CInv'
  <2>1. CASE C!sane_get_parameters(i)
    BY <2>1, CallAgrees DEF C!sane_get_parameters
  <2>2. CASE C!sane_control_option(i)
    BY <2>2, CallAgrees DEF C!sane_control_option
  <2>3. CASE C!sane_cancel(i)
    BY <2>3, CallAgrees DEF C!sane_cancel
  <2>4. CASE C!sane_start(i)
    <3>1. Orderly => \A j \in Handles \ {i} : ~Active(j)
      BY <2>4, SameNames DEF C!sane_start, C!Active, Active, Orderly, C!HabitKinds
    <3> QED
      BY <2>4, <3>1, CallAgrees DEF C!sane_start
  <2>5. CASE C!sane_close(i)
    <3>1. (Orderly => ~Active(i)) /\ scn[i] # "none"
      BY <2>5 DEF C!sane_close, C!Active, Active, Orderly, C!HabitKinds
    <3> QED
      BY <2>5, <3>1, CallAgrees DEF C!sane_close
  <2> QED
    BY <1>2, <2>1, <2>2, <2>3, <2>4, <2>5
<1>3. CASE C!OpenReply
  <2>1. CASE reply.op = "good" /\ call' = [op |-> "fetch", h |-> reply.h]
             /\ req' = [op |-> "query", h |-> reply.h]
    BY <1>3, <2>1, OpenGoesOn DEF C!OpenReply
  <2>2. CASE C!Return /\ (reply.op = "error" \/ "nomem" \in may)
    BY <1>3, <2>2, PlainReturn DEF C!OpenReply
  <2> QED
    BY <1>3, <2>1, <2>2 DEF C!OpenReply
<1>4. CASE C!FetchReply
  <2>1. CASE C!Return /\ scn' = [scn EXCEPT ![call.h] = "idle"]
    BY <1>4, <2>1, ScannerReturn DEF C!FetchReply
  <2>2. CASE call' = [op |-> "close", h |-> call.h] /\ req' = [op |-> "close", h |-> call.h]
             /\ scn' = scn
    BY <1>4, <2>2, OpenGoesOn DEF C!FetchReply
  <2> QED
    BY <1>4, <2>1, <2>2 DEF C!FetchReply
<1>5. CASE C!OptionReply \/ C!StartFailed \/ C!ConnectFails
  <2>1. CASE C!OptionReply
    BY <2>1, PlainReturn DEF C!OptionReply
  <2>2. CASE C!StartFailed \/ C!ConnectFails
    BY <2>2, PlainReturn DEF C!StartFailed, C!ConnectFails
  <2> QED
    BY <1>5, <2>1, <2>2
<1>6. CASE C!Connect \/ C!CancelReply \/ C!CloseReply
  <2>1. CASE C!Connect
    BY <2>1, ScannerReturn DEF C!Connect
  <2>2. CASE C!CancelReply
    BY <2>2, ScannerReturn DEF C!CancelReply
  <2>3. CASE C!CloseReply
    BY <2>3, ScannerReturn DEF C!CloseReply
  <2> QED
    BY <1>6, <2>1, <2>2, <2>3
<1> QED
  BY <1>1, <1>2, <1>3, <1>4, <1>5, <1>6, AuthorizationAgrees, ReadAgrees, LeaveAgrees,
     SameNames DEF C!Next, C!Calls, C!Replies

LEMMA StepAgrees == IInv /\ CInv /\ [SessionNext]_vars => CInv'
<1> SUFFICES ASSUME IInv, CInv, [SessionNext]_vars PROVE CInv'
  OBVIOUS
<1>1. CASE SanedNext /\ UNCHANGED << scn, call, may >>
  BY <1>1, ServerAgrees
<1>2. CASE C!Next /\ UNCHANGED << server, may >>
  BY <1>2, ClientAgrees
<1>3. CASE UNCHANGED vars
  <2>1. UNCHANGED << handle, stack, pc, acc, asked, req, reply, dconn, hup, scn, call, may >>
    BY <1>3 DEF vars, server, channel
  <2>2. SessionTypes' /\ Turns' /\ Answered' /\ Known' /\ NoneLost' /\ Wanted'
    BY <2>1 DEF CInv, SessionTypes, Turns, Answered, Known, NoneLost, Wanted, Has, Asking,
                ForCall
  <2>3. OneScan' /\ BusyMeansScanning'
    BY <2>1 DEF CInv, OneScan, OneCall, OnePending, OneAccept, OneFrame, Pending, Asking,
                Has, Active, Orderly, Frames, BusyMeansScanning, Inuse
  <2> QED
    BY <2>2, <2>3 DEF CInv
<1> QED
  BY <1>1, <1>2, <1>3 DEF SessionNext

LEMMA AgreementHolds == Spec => [](IInv /\ CInv)
BY InitAgrees, StepAgrees, InvariantHolds, PTL DEF Spec

(***************************************************************************)
(* Whatever fails and however the frontend behaves: between calls client   *)
(* and server agree on the open handles, and the handle of a request is    *)
(* one that decode_handle accepts.                                         *)
(***************************************************************************)
THEOREM HandlesKnown == Spec => []HandlesAgree
<1>1. CInv => HandlesAgree
  <2> SUFFICES ASSUME CInv PROVE HandlesAgree
    OBVIOUS
  <2>1. ASSUME call.op \notin {"open", "fetch", "close"}, ~hup
        PROVE  /\ \A i \in Handles : scn[i] # "none" => handle[i].inuse
               /\ "nomem" \notin may => \A i \in Handles : handle[i].inuse => scn[i] # "none"
    BY <2>1 DEF CInv, Known, NoneLost
  <2>2. req.h \in Handles => handle[req.h].inuse
    BY DEF CInv, Known
  <2> QED
    BY <2>1, <2>2 DEF HandlesAgree, Inuse
<1> QED
  BY <1>1, AgreementHolds, PTL

(***************************************************************************)
(* A scan that do_scan gives up because of docancel is one the client has  *)
(* cancelled or left: no flag is left over for a later scan.               *)
(***************************************************************************)
THEOREM CancelsWanted == Spec => []CancelIsWanted
<1>1. IInv /\ CInv => CancelIsWanted
  <2> SUFFICES ASSUME IInv, CInv, pc = "return" PROVE CancelIsWanted
    BY DEF CancelIsWanted
  <2>1. Top.h \in Handles
    BY TopFrame DEF IInv, ServerTypes
  <2> QED
    BY <2>1 DEF CInv, Wanted, CancelIsWanted
<1> QED
  BY <1>1, AgreementHolds, PTL

(***************************************************************************)
(* With a frontend that cancels each scan before it closes the scanner or  *)
(* starts another one, do_scan never reads from a backend handle that has  *)
(* been closed under it.                                                   *)
(***************************************************************************)
THEOREM ReadsOpen == Spec => []ReadsOpenHandle
<1>1. IInv /\ CInv => ReadsOpenHandle
  <2> SUFFICES ASSUME IInv, CInv, pc = "serve", stack # << >>, Orderly
               PROVE  Top.be \in opened
    BY DEF ReadsOpenHandle, Orderly
  <2>1. Len(stack) \in Frames /\ Top = stack[Len(stack)] /\ Top.h \in Handles
    BY TopFrame DEF IInv, ServerTypes
  <2>2. handle[Top.h].inuse /\ handle[Top.h].be = Top.be
    BY <2>1 DEF CInv, OneScan, OneFrame
  <2> QED
    BY <2>1, <2>2 DEF IInv, BackendsAccounted, Inuse
<1> QED
  BY <1>1, AgreementHolds, PTL

(***************************************************************************)
(* An entry is marked as scanning only while do_scan runs for it or its    *)
(* data connection is being set up.                                        *)
(***************************************************************************)
THEOREM BusyIsScanning == Spec => []BusyMeansScanning
<1>1. CInv => BusyMeansScanning
  BY DEF CInv
<1> QED
  BY <1>1, AgreementHolds, PTL
===============================================================================
