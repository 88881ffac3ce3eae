--------------------------- MODULE MustekReaderProofs ---------------------------
(***************************************************************************)
(* Proofs about reader_process of backend/mustek.c and the SCSI command    *)
(* queue under it, for every image, every depth of the host adapter's      *)
(* queue and whatever the driver refuses.  The inductive invariant is      *)
(* built in layers, each proved from the ones before it: Base, Order,      *)
(* Fate, Answering, Used, Outcome, Image.                                  *)
(***************************************************************************)
EXTENDS MustekReader, SequenceTheorems, FiniteSetTheorems, TLAPS

-------------------------------------------------------------------------------
(* The basic invariant: types, calls, lists, and the shape of the queue.   *)

\* Values of the state.
Statuses == {"good", "io_error", "busy", "no_mem"}
Places == {"block", "top", "wait", "enter", "entering", "flush", "exited"}
Requests == [cmd : Nat, running : BOOLEAN, done : BOOLEAN, status : Statuses]
CallsOfQueue == [op : {"none", "enter", "wait", "flush"}, id : Node \cup {0},
                 arg : Node \cup {0}, rp : 0..2, tries : Nat,
                 pc : {"none", "issue", "issueNext"}, st : Statuses \cup {"own"}, got : Nat]
Returns == [op : {"none", "enter", "wait"}, cmd : Nat, got : Nat, status : Statuses]

\* The types; reader_process never has more than two commands in the queue.
QueueTypes ==
  /\ sg \in {2, 3} /\ max \in Nat \ {0}
  /\ queue \in Seq(Node) /\ Len(queue) <= 2 /\ free \in Seq(Node)
  /\ req \in [Node -> Requests]
  /\ used \in Int
  /\ fn \in CallsOfQueue
  /\ ret \in Returns

DeviceTypes ==
  /\ driver \in Seq(Nat) /\ answers \in Seq(Nat) /\ ran \in Seq(Nat)
  /\ mishaps \subseteq {"again", "error", "interrupt", "timeout"}

ReaderTypes ==
  /\ single \in BOOLEAN /\ out \in Seq(Nat)
  /\ bn \in 0..1 /\ line \in 0..Lines /\ count \in Nat
  /\ bstat \in [0..1 -> [id : Node \cup {0}, ready : BOOLEAN, finished : BOOLEAN]]
  /\ rpc \in Places
  /\ term \in {"no", "sent", "caught"}
  /\ result \in Statuses \cup {"none", "killed"}

\* Which call may be in progress, and on what.
Calls ==
  /\ rpc \in {"block", "top", "enter"} => fn.op = "none"
  /\ rpc = "wait" => fn.op \in {"none", "wait"}
  /\ rpc = "entering" => fn.op \in {"none", "enter"}
  /\ rpc = "flush" => fn.op = "flush"
  /\ rpc = "exited" => fn.op \in {"none", "flush"}
  /\ fn.op \in {"none", "flush"} => fn.pc = "none"
  /\ fn.op = "enter" => fn.pc = "issue" /\ Len(queue) > 0 /\ fn.id = queue[Len(queue)]
  /\ fn.op = "wait" => fn.pc # "none" /\ Len(queue) > 0 /\ fn.id = queue[1]
  /\ fn.pc = "issue" => fn.arg = fn.id
  /\ fn.pc = "issueNext" => fn.op = "wait" /\ fn.arg = next
  /\ result = "none" <=> rpc # "exited"
  /\ result = "killed" => Len(queue) = 0

\* No request is in a list twice.
Alloc ==
  /\ \A i, j \in DOMAIN queue : i # j => queue[i] # queue[j]
  /\ \A i, j \in DOMAIN free : i # j => free[i] # free[j]
  /\ \A i \in DOMAIN queue, j \in DOMAIN free : queue[i] # free[j]

\* The request at place i of the queue.
At(i) == req[queue[i]]

\* issue() has handed out the commands from the front.
Prefix ==
  /\ \A i, j \in DOMAIN queue : i < j /\ At(j).running => At(i).running
  /\ fn.rp # 0 => /\ Issuing /\ fn.rp \in DOMAIN queue
                  /\ \A i \in DOMAIN queue : At(i).running <=> i < fn.rp

\* The queue, place by place.
Queued0       == Len(queue) = 0
Queued1(m)    == Len(queue) = 1 /\ queue[1] = m
Queued2(m, n) == Len(queue) = 2 /\ queue[1] = m /\ queue[2] = n

\* The buffer entered last finishes its block exactly when no more are wanted.
Newest(b) == bstat[b].ready /\ (bstat[b].finished <=> ~Wants)
Open(b)   == ~bstat[b].finished
EnterFailed == rpc = "entering" /\ Idle /\ ret.status # "good"

\* Two buffers; o is the other one.
DoubleTop(o) ==
  \/ count = 0 /\ Queued0 /\ Wants /\ ~bstat[bn].ready /\ ~bstat[o].ready
     /\ Open(bn) /\ Open(o)
  \/ rpc = "top" /\ bstat[bn].ready /\ ~Open(bn) /\ ~Wants /\ Queued1(bstat[bn].id)
  \/ ~(rpc = "top" /\ bstat[bn].ready) /\ Open(bn) /\ Newest(o) /\ Queued1(bstat[o].id)
  \/ rpc = "top" /\ bstat[bn].ready /\ Open(bn) /\ Newest(o)
     /\ Queued2(bstat[bn].id, bstat[o].id)

DoubleEntering(o) ==
  /\ Newest(bn) /\ Open(o)
  /\ \/ Queued1(fn.id) /\ ~bstat[o].ready
     \/ Queued2(bstat[o].id, fn.id) /\ bstat[o].ready

DoubleWait(o) ==
  /\ bstat[bn].ready
  /\ \/ ~Open(bn) /\ ~Wants /\ (IF Idle THEN Queued0 ELSE Queued1(bstat[bn].id))
     \/ Open(bn) /\ Newest(o)
        /\ (IF Idle THEN Queued1(bstat[o].id) ELSE Queued2(bstat[bn].id, bstat[o].id))

Double(o) ==
  /\ rpc \in {"top", "enter"} => DoubleTop(o)
  /\ rpc = "entering" /\ ~EnterFailed => DoubleEntering(o)
  /\ rpc = "wait" => DoubleWait(o)

\* One buffer at a time.
Single(o) ==
  /\ rpc = "top" => /\ Open(o)
                    /\ \/ count = 0 /\ Queued0 /\ Wants /\ ~bstat[bn].ready /\ Open(bn)
                       \/ Newest(bn) /\ Queued1(bstat[bn].id)
  /\ rpc = "enter" => Queued0 /\ Wants /\ Open(bn) /\ Open(o)
  /\ rpc = "entering" /\ ~EnterFailed => Newest(bn) /\ Queued1(fn.id) /\ Open(o)
  /\ rpc = "wait" => /\ Newest(bn) /\ Open(o)
                     /\ (IF Idle THEN Queued0 ELSE Queued1(bstat[bn].id))

\* Which commands are in the queue, for one buffer and for two.
Shape == /\ rpc = "block" => Queued0
         /\ EnterFailed => Len(queue) <= 1
         /\ single => Single(1 - bn)
         /\ ~single => Double(1 - bn)

\* The basic invariant.
Types == QueueTypes /\ DeviceTypes /\ ReaderTypes
Base == Types /\ Calls /\ Alloc /\ Prefix /\ Shape

\* FirstWaiting finds the first request that does not run, if there is one.
LEMMA FirstWaitingFacts ==
  ASSUME NEW q \in Seq(Node), Len(q) <= 2, NEW r \in [Node -> Requests]
  PROVE  /\ FirstWaiting(q, r) \in 0..2
         /\ FirstWaiting(q, r) = 0 => \A i \in DOMAIN q : r[q[i]].running
         /\ FirstWaiting(q, r) # 0 =>
              /\ FirstWaiting(q, r) \in DOMAIN q
              /\ ~r[q[FirstWaiting(q, r)]].running
              /\ \A i \in DOMAIN q : i < FirstWaiting(q, r) => r[q[i]].running
<1> DEFINE idle == { i \in DOMAIN q : ~r[q[i]].running }
           fw == FirstWaiting(q, r)
<1>1. DOMAIN q \subseteq 1..2
  BY LenProperties
<1>2. CASE idle = {}
  BY <1>2 DEF FirstWaiting
<1>3. CASE idle # {}
  <2>1. fw = CHOOSE i \in idle : \A j \in idle : i <= j
    BY <1>3 DEF FirstWaiting
  <2>2. \E i \in idle : \A j \in idle : i <= j
    <3>1. CASE 1 \in idle
      BY <3>1, <1>1
    <3>2. CASE 1 \notin idle
      BY <3>2, <1>1, <1>3
    <3> QED BY <3>1, <3>2
  <2>3. fw \in idle /\ \A j \in idle : fw <= j
    BY <2>1, <2>2
  <2>4. fw \in DOMAIN q /\ ~r[q[fw]].running /\ fw # 0 /\ fw \in 0..2
    BY <2>3, <1>1
  <2>5. \A i \in DOMAIN q : i < fw => r[q[i]].running
    BY <2>3, <1>1
  <2> QED BY <2>4, <2>5
<1> QED BY <1>2, <1>3

\* Arguments of issue() and the call that results.
IssueArgs(f, arg, pc, q, r) ==
  /\ f \in CallsOfQueue /\ arg \in Node \cup {0} /\ pc \in {"issue", "issueNext"}
  /\ q \in Seq(Node) /\ Len(q) <= 2 /\ r \in [Node -> Requests]

Issued(g, f, arg, pc, q, r) ==
  /\ g \in CallsOfQueue
  /\ g.op = f.op /\ g.id = f.id /\ g.arg = arg /\ g.pc = pc
  /\ g.st = f.st /\ g.got = f.got
  /\ g.rp = 0 \/ g.rp = FirstWaiting(q, r)
  /\ arg \in Node => g.rp = FirstWaiting(q, r)

\* What the entry of issue() makes of the call in progress.
LEMMA IssueFacts ==
  ASSUME NEW f, NEW arg, NEW pc, NEW q, NEW r, IssueArgs(f, arg, pc, q, r)
  PROVE  Issued(Issue(f, arg, pc, q, r), f, arg, pc, q, r)
<1> DEFINE w == IF arg = 0 THEN 0 ELSE FirstWaiting(q, r)
           g == Issue(f, arg, pc, q, r)
<1> USE DEF IssueArgs
<1>1. w \in 0..2 /\ Retries \in Nat
  BY FirstWaitingFacts, QueueAssumption
<1>2. g = [f EXCEPT !.arg = arg, !.pc = pc, !.tries = Retries, !.rp = w]
  BY DEF Issue
<1>5. (w = 0 \/ w = FirstWaiting(q, r)) /\ (arg \in Node => w = FirstWaiting(q, r))
  BY QueueAssumption
<1> HIDE DEF w, g
<1>3. /\ g.op = f.op /\ g.id = f.id /\ g.arg = arg /\ g.pc = pc
      /\ g.st = f.st /\ g.got = f.got /\ g.rp = w
  BY <1>2 DEF CallsOfQueue
<1>4. g \in CallsOfQueue
  BY <1>1, <1>2 DEF CallsOfQueue
<1>6. Issued(g, f, arg, pc, q, r)
  BY <1>3, <1>4, <1>5 DEF Issued
<1> QED BY <1>6 DEF g

\* No call is in progress.
LEMMA NoFnFacts == /\ NoFn \in CallsOfQueue
                   /\ NoFn.op = "none" /\ NoFn.pc = "none" /\ NoFn.rp = 0 /\ NoFn.st = "good"
BY DEF NoFn, CallsOfQueue, Statuses

\* The basic invariant holds at first.
LEMMA InitBase == ASSUME ReaderInit PROVE Base
<1> USE DEF ReaderInit, Init
<1>1. Types
  <2>1. QueueTypes
    BY NoFnFacts, QueueAssumption DEF QueueTypes, NoReq, NoRet, Requests, Returns, Statuses
  <2>2. DeviceTypes
    BY DEF DeviceTypes
  <2>3. ReaderTypes
    BY ReaderAssumption DEF ReaderTypes, NoBuf, Places
  <2> QED BY <2>1, <2>2, <2>3 DEF Types
<1>2. Calls
  BY NoFnFacts DEF Calls
<1>3. Alloc
  BY DEF Alloc
<1>4. Prefix
  BY NoFnFacts DEF Prefix
<1>5. Shape
  BY DEF Shape, Queued0, EnterFailed, Single, Double
<1> QED BY <1>1, <1>2, <1>3, <1>4, <1>5 DEF Base

\* Steps of reader_process alone leave the queue as it is.
LEMMA QueueKept ==
  ASSUME Base, UNCHANGED queueVars
  PROVE  /\ QueueTypes' /\ DeviceTypes' /\ Alloc' /\ Prefix'
<1> USE DEF queueVars, requests, device
<1>1. QueueTypes' /\ DeviceTypes'
  BY DEF Base, Types, QueueTypes, DeviceTypes
<1>2. Alloc'
  BY DEF Base, Alloc
<1>3. Prefix'
  BY DEF Base, Prefix, At, Issuing
<1> QED BY <1>1, <1>2, <1>3

\* BlockStart preserves the basic invariant.
LEMMA BlockStartBase == ASSUME Base, BlockStart PROVE Base'
<1>1. QueueTypes' /\ DeviceTypes' /\ Alloc' /\ Prefix'
  BY QueueKept DEF BlockStart
<1>0. rpc' = "top" =>
        \A b \in 0..1 : ~bstat'[b].ready /\ ~bstat'[b].finished /\ bstat'[b].id = bstat[b].id
  <2> SUFFICES ASSUME rpc' = "top", NEW b \in 0..1
               PROVE  ~bstat'[b].ready /\ ~bstat'[b].finished /\ bstat'[b].id = bstat[b].id
    OBVIOUS
  <2>1. bstat[b] \in [id : Node \cup {0}, ready : BOOLEAN, finished : BOOLEAN]
    BY DEF Base, Types, ReaderTypes
  <2>2. bstat'[b] = [bstat[b] EXCEPT !.ready = FALSE, !.finished = FALSE]
    BY DEF BlockStart, Exit
  <2> QED BY <2>1, <2>2
<1>2. ReaderTypes'
  <2>1. bstat' \in [0..1 -> [id : Node \cup {0}, ready : BOOLEAN, finished : BOOLEAN]]
    <3> DEFINE B == [id : Node \cup {0}, ready : BOOLEAN, finished : BOOLEAN]
    <3>1. \A b \in 0..1 : bstat[b] \in B
      BY DEF Base, Types, ReaderTypes
    <3>2. \A b \in 0..1 : [bstat[b] EXCEPT !.ready = FALSE, !.finished = FALSE] \in B
      BY <3>1
    <3> HIDE DEF B
    <3>3. CASE rpc' = "top"
      <4>1. bstat' = [b \in 0..1 |-> [bstat[b] EXCEPT !.ready = FALSE, !.finished = FALSE]]
        BY <3>3 DEF BlockStart, Exit
      <4>2. bstat' \in [0..1 -> B]
        BY <3>2, <4>1
      <4> QED BY <4>2 DEF B
    <3>4. CASE rpc' # "top"
      BY <3>4 DEF BlockStart, Exit, Base, Types, ReaderTypes
    <3> QED BY <3>3, <3>4
  <2> QED BY <2>1 DEF BlockStart, Base, Types, ReaderTypes, Places, Exit, Statuses
<1>3. Calls'
  BY DEF BlockStart, Base, Calls, Exit, next, queueVars, requests
<1>4. Shape'
  <2>1. CASE rpc' = "top"
    <3>0. bn' = 0 /\ count' = 0 /\ UNCHANGED << queue, line >>
      BY <2>1 DEF BlockStart, queueVars, requests, Exit
    <3>1. Queued0 /\ Queued0'
      BY <3>0 DEF BlockStart, Base, Shape, Queued0
    <3>2. ~bstat'[0].ready /\ ~bstat'[1].ready /\ ~bstat'[0].finished /\ ~bstat'[1].finished
      BY <2>1, <1>0
    <3>3. Wants'
      BY <3>0, ReaderAssumption DEF BlockStart, Wants
    <3> QED BY <2>1, <3>0, <3>1, <3>2, <3>3 DEF Shape, Single, Double, DoubleTop, Open, EnterFailed
  <2>2. CASE rpc' = "exited"
    BY <2>2 DEF Shape, Single, Double, EnterFailed
  <2> QED BY <2>1, <2>2 DEF BlockStart, Exit
<1> QED BY <1>1, <1>2, <1>3, <1>4 DEF Base, Types

\* AllRead preserves the basic invariant.
LEMMA AllReadBase == ASSUME Base, AllRead PROVE Base'
<1>1. QueueTypes' /\ DeviceTypes' /\ Alloc' /\ Prefix'
  BY QueueKept DEF AllRead
<1>2. ReaderTypes'
  BY DEF AllRead, Base, Types, ReaderTypes, Places, Exit, Statuses
<1>3. Calls'
  BY DEF AllRead, Base, Calls, Exit, next, queueVars, requests
<1>4. Shape'
  BY DEF AllRead, Exit, Shape, Single, Double, EnterFailed
<1> QED BY <1>1, <1>2, <1>3, <1>4 DEF Base, Types

\* HandlerExits preserves the basic invariant.
LEMMA HandlerExitsBase == ASSUME Base, HandlerExits PROVE Base'
<1>1. QueueTypes' /\ DeviceTypes' /\ Alloc' /\ Prefix'
  BY QueueKept DEF HandlerExits
<1>2. ReaderTypes'
  BY DEF HandlerExits, Base, Types, ReaderTypes, Places, Exit, Statuses
<1>3. Calls'
  BY DEF HandlerExits, Base, Calls, Exit, next, queueVars, requests
<1>4. Shape'
  BY DEF HandlerExits, Exit, Shape, Single, Double, EnterFailed
<1> QED BY <1>1, <1>2, <1>3, <1>4 DEF Base, Types

\* Kill preserves the basic invariant.
LEMMA KillBase == ASSUME Base, Kill PROVE Base'
<1>1. QueueTypes' /\ DeviceTypes' /\ Alloc' /\ Prefix'
  BY QueueKept DEF Kill
<1>2. ReaderTypes'
  BY DEF Kill, Base, Types, ReaderTypes, Places, Statuses
<1>3. Calls'
  BY DEF Kill, Base, Calls, next, queueVars, requests
<1>4. Shape'
  BY DEF Base, Kill, Shape, Single, Double, DoubleTop, DoubleWait, DoubleEntering, EnterFailed,
         Newest, Open, Wants, Queued0, Queued1, Queued2, Idle, queueVars, requests
<1> QED BY <1>1, <1>2, <1>3, <1>4 DEF Base, Types

\* Stutter preserves the basic invariant.
LEMMA StutterBase == ASSUME Base, UNCHANGED vars PROVE Base'
<1>0. UNCHANGED queueVars /\ UNCHANGED reader
  BY DEF vars
<1>1. QueueTypes' /\ DeviceTypes' /\ Alloc' /\ Prefix'
  BY <1>0, QueueKept
<1>2. ReaderTypes'
  BY <1>0 DEF reader, Base, Types, ReaderTypes, Places, Statuses
<1>3. Calls'
  BY <1>0 DEF reader, Base, Calls, next, queueVars, requests
<1>4. Shape'
  BY <1>0 DEF reader, Base, Kill, Shape, Single, Double, DoubleTop, DoubleWait, DoubleEntering, EnterFailed,
         Newest, Open, Wants, Queued0, Queued1, Queued2, Idle, queueVars, requests
<1> QED BY <1>1, <1>2, <1>3, <1>4 DEF Base, Types

\* NotReady preserves the basic invariant.
LEMMA NotReadyBase == ASSUME Base, NotReady PROVE Base'
<1>1. QueueTypes' /\ DeviceTypes' /\ Alloc' /\ Prefix'
  BY QueueKept DEF NotReady
<1>2. ReaderTypes'
  BY DEF NotReady, Base, Types, ReaderTypes, Places, Toggle
<1>3. Calls'
  BY DEF NotReady, Base, Calls, next, queueVars, requests
<1>4. Shape'
  <2>0. rpc = "top" /\ rpc' = "enter" /\ ~bstat[bn].ready
        /\ UNCHANGED << queue, bstat, line, count, single >> /\ bn \in 0..1
    BY DEF NotReady, queueVars, requests, Base, Types, ReaderTypes
  <2>1. CASE single
    <3>1. bn' = 1 - bn /\ 1 - bn' = bn
      BY <2>0, <2>1 DEF NotReady, Toggle
    <3>2. Open(1 - bn) /\ Queued0 /\ Wants /\ Open(bn)
      BY <2>0, <2>1 DEF Base, Shape, Single, Newest
    <3> QED BY <2>0, <2>1, <3>1, <3>2 DEF Shape, Single, EnterFailed, Open, Queued0, Wants
  <2>2. CASE ~single
    <3>1. bn' = bn
      BY <2>2 DEF NotReady, Toggle
    <3>2. DoubleTop(1 - bn)
      BY <2>0, <2>2 DEF Base, Shape, Double
    <3>3. DoubleTop(1 - bn)'
      BY <2>0, <3>1, <3>2 DEF DoubleTop, Open, Queued0, Queued1, Queued2, Wants, Newest
    <3> QED BY <2>0, <2>2, <3>3 DEF Shape, Double, EnterFailed
  <2> QED BY <2>1, <2>2
<1> QED BY <1>1, <1>2, <1>3, <1>4 DEF Base, Types

\* NothingToEnter preserves the basic invariant.
LEMMA NothingToEnterBase == ASSUME Base, NothingToEnter PROVE Base'
<1>1. QueueTypes' /\ DeviceTypes' /\ Alloc' /\ Prefix'
  BY QueueKept DEF NothingToEnter
<1>2. ReaderTypes'
  BY DEF NothingToEnter, Base, Types, ReaderTypes, Places, Toggle
<1>3. Calls'
  BY DEF NothingToEnter, Base, Calls, next, queueVars, requests
<1>4. Shape'
  <2>0. rpc = "enter" /\ rpc' = "top" /\ ~Wants
        /\ UNCHANGED << queue, bstat, line, count, single >> /\ bn \in 0..1
    BY DEF NothingToEnter, queueVars, requests, Base, Types, ReaderTypes
  <2>1. ~single
    BY <2>0 DEF Base, Shape, Single
  <2>2. bn' = 1 - bn /\ 1 - bn' = bn
    BY <2>0, <2>1 DEF NothingToEnter, Toggle
  <2>3. Newest(1 - bn) /\ Queued1(bstat[1 - bn].id) /\ Open(bn)
    BY <2>0, <2>1 DEF Base, Shape, Double, DoubleTop
  <2>4. bstat[1 - bn].ready /\ ~Open(1 - bn)
    BY <2>0, <2>3 DEF Newest, Open
  <2>5. DoubleTop(1 - bn)'
    BY <2>0, <2>2, <2>3, <2>4 DEF DoubleTop, Open, Queued1, Wants
  <2> QED BY <2>0, <2>1, <2>5 DEF Shape, Double, EnterFailed
<1> QED BY <1>1, <1>2, <1>3, <1>4 DEF Base, Types

\* Waited preserves the basic invariant.
LEMMA WaitedBase == ASSUME Base, Waited PROVE Base'
<1>0. rpc = "wait" /\ Idle /\ UNCHANGED << queue, fn, ret, bstat, line, count, single >>
      /\ bn \in 0..1 /\ fn.op = "none"
      /\ ret.status \in Statuses /\ ret.got \in Nat
  BY DEF Waited, queueVars, requests, Base, Types, ReaderTypes, QueueTypes, Returns, Idle
<1>1. QueueTypes' /\ DeviceTypes' /\ Alloc' /\ Prefix'
  BY QueueKept DEF Waited
<1>a. CASE ret.status = "good"
  <2>0. /\ out' = Append(out, ret.got) /\ UNCHANGED << term, result >>
        /\ rpc' = IF bstat[bn].finished THEN "block" ELSE "enter"
        /\ bn' = IF single /\ ~bstat[bn].finished THEN 1 - bn ELSE bn
    BY <1>a DEF Waited, Toggle
  <2>2. ReaderTypes'
    BY <2>0, <1>0 DEF Base, Types, ReaderTypes, Places
  <2>3. Calls'
    BY <2>0, <1>0 DEF Base, Calls, next
  <2>4. Shape'
    <3>1. CASE single
      <4>1. Newest(bn) /\ Open(1 - bn) /\ Queued0
        BY <1>0, <3>1 DEF Base, Shape, Single
      <4>2. CASE bstat[bn].finished
        BY <1>0, <2>0, <3>1, <4>1, <4>2 DEF Shape, Single, EnterFailed, Queued0
      <4>3. CASE ~bstat[bn].finished
        <5>1. bn' = 1 - bn /\ 1 - bn' = bn /\ rpc' = "enter" /\ Wants /\ Open(bn)
          BY <1>0, <2>0, <3>1, <4>1, <4>3 DEF Newest, Open
        <5> QED BY <1>0, <3>1, <4>1, <5>1 DEF Shape, Single, EnterFailed, Queued0, Open, Wants
      <4> QED BY <4>2, <4>3
    <3>2. CASE ~single
      <4>1. DoubleWait(1 - bn) /\ bn' = bn
        BY <1>0, <2>0, <3>2 DEF Base, Shape, Double
      <4>2. CASE bstat[bn].finished
        BY <1>0, <2>0, <3>2, <4>1, <4>2 DEF Shape, Double, EnterFailed, Queued0, DoubleWait, Open
      <4>3. CASE ~bstat[bn].finished
        <5>1. rpc' = "enter" /\ Open(bn) /\ Newest(1 - bn) /\ Queued1(bstat[1 - bn].id)
          BY <1>0, <2>0, <4>1, <4>3 DEF DoubleWait, Open
        <5>2. DoubleTop(1 - bn)'
          BY <1>0, <4>1, <5>1 DEF DoubleTop, Open, Queued1, Newest, Wants
        <5> QED BY <1>0, <3>2, <5>1, <5>2 DEF Shape, Double, EnterFailed
      <4> QED BY <4>2, <4>3
    <3> QED BY <3>1, <3>2
  <2> QED BY <1>1, <2>2, <2>3, <2>4 DEF Base, Types
<1>b. CASE ret.status # "good"
  <2>0. rpc' = "exited" /\ result' = ret.status /\ UNCHANGED << out, bn, term >>
    BY <1>b DEF Waited, Exit
  <2>2. ReaderTypes'
    BY <2>0, <1>0 DEF Base, Types, ReaderTypes, Places
  <2>3. Calls'
    BY <2>0, <1>0 DEF Base, Calls, next, Statuses
  <2>4. Shape'
    BY <2>0 DEF Shape, Single, Double, EnterFailed
  <2> QED BY <1>1, <2>2, <2>3, <2>4 DEF Base, Types
<1> QED BY <1>a, <1>b

\* Entered preserves the basic invariant.
LEMMA EnteredBase == ASSUME Base, Entered PROVE Base'
<1>0. rpc = "entering" /\ Idle /\ UNCHANGED << queue, fn, ret, line, count, single, out, term >>
      /\ bn \in 0..1 /\ fn.op = "none" /\ fn.id \in Node \cup {0}
      /\ ret.status \in Statuses
      /\ bstat \in [0..1 -> [id : Node \cup {0}, ready : BOOLEAN, finished : BOOLEAN]]
  BY DEF Entered, queueVars, requests, Base, Types, ReaderTypes, QueueTypes, Returns, Idle,
         CallsOfQueue
<1>1. QueueTypes' /\ DeviceTypes' /\ Alloc' /\ Prefix'
  BY QueueKept DEF Entered
<1>a. CASE ret.status = "good"
  <2>0. /\ bstat' = [bstat EXCEPT ![bn].id = fn.id]
        /\ rpc' = "top" /\ UNCHANGED result
        /\ bn' = IF single THEN bn ELSE 1 - bn
    BY <1>a DEF Entered, Toggle
  <2>1. /\ \A b \in 0..1 : /\ bstat'[b].ready <=> bstat[b].ready
                           /\ bstat'[b].finished <=> bstat[b].finished
        /\ bstat'[bn].id = fn.id /\ bstat'[1 - bn].id = bstat[1 - bn].id
        /\ 1 - bn \in 0..1 /\ 1 - bn # bn
    <3>1. 1 - bn \in 0..1 /\ 1 - bn # bn
      BY <1>0
    <3>2. \A b \in 0..1 : /\ bstat'[b].ready <=> bstat[b].ready
                          /\ bstat'[b].finished <=> bstat[b].finished
      BY <1>0, <2>0
    <3>3. bstat'[bn].id = fn.id /\ \A b \in 0..1 : b # bn => bstat'[b].id = bstat[b].id
      BY <1>0, <2>0
    <3> QED BY <3>1, <3>2, <3>3
  <2>2. ReaderTypes'
    <3>1. bstat' \in [0..1 -> [id : Node \cup {0}, ready : BOOLEAN, finished : BOOLEAN]]
      BY <1>0, <2>0
    <3>2. bn' \in 0..1
      BY <1>0, <2>0, <2>1
    <3> QED BY <1>0, <2>0, <3>1, <3>2 DEF Base, Types, ReaderTypes, Places
  <2>3. Calls'
    BY <2>0, <1>0 DEF Base, Calls, next
  <2>4. Shape'
    <3>0. ~EnterFailed
      BY <1>a DEF EnterFailed
    <3>1. CASE single
      <4>1. Newest(bn) /\ Queued1(fn.id) /\ Open(1 - bn)
        BY <1>0, <3>0, <3>1 DEF Base, Shape, Single
      <4>2. bn' = bn /\ Newest(bn)' /\ Open(1 - bn)' /\ Queued1(bstat[bn].id)'
        BY <1>0, <2>0, <2>1, <3>1, <4>1 DEF Newest, Open, Queued1, Wants
      <4> QED BY <1>0, <2>0, <3>1, <4>2 DEF Shape, Single, EnterFailed
    <3>2. CASE ~single
      <4>1. DoubleEntering(1 - bn)
        BY <1>0, <3>0, <3>2 DEF Base, Shape, Double
      <4>2. bn' = 1 - bn /\ 1 - bn' = bn
        BY <1>0, <2>0, <3>2
      <4>3. Newest(1 - bn)' /\ Open(bn)'
        BY <1>0, <2>1, <4>1, <4>2 DEF DoubleEntering, Newest, Open, Wants
      <4>4. \/ Queued1(bstat[1 - bn].id)' /\ ~bstat'[bn'].ready
            \/ Queued2(bstat[bn].id, bstat[1 - bn].id)' /\ bstat'[bn'].ready
        BY <1>0, <2>1, <4>1, <4>2 DEF DoubleEntering, Queued1, Queued2
      <4>5. DoubleTop(1 - bn)'
        BY <2>0, <4>3, <4>4 DEF DoubleTop
      <4> QED BY <1>0, <2>0, <3>2, <4>5 DEF Shape, Double, EnterFailed
    <3> QED BY <3>1, <3>2
  <2> QED BY <1>1, <2>2, <2>3, <2>4 DEF Base, Types
<1>b. CASE ret.status # "good"
  <2>0. rpc' = "exited" /\ result' = ret.status /\ UNCHANGED << bstat, bn >>
    BY <1>b DEF Entered, Exit
  <2>2. ReaderTypes'
    BY <2>0, <1>0 DEF Base, Types, ReaderTypes, Places
  <2>3. Calls'
    BY <2>0, <1>0 DEF Base, Calls, next, Statuses
  <2>4. Shape'
    BY <2>0 DEF Shape, Single, Double, EnterFailed
  <2> QED BY <1>1, <2>2, <2>3, <2>4 DEF Base, Types
<1> QED BY <1>a, <1>b

\* sigterm_handler preserves the basic invariant.
LEMMA sigterm_handlerBase == ASSUME Base, sigterm_handler PROVE Base'
<1>0. /\ rpc' = "flush" /\ rpc # "exited" /\ term' = "caught"
      /\ fn' = [NoFn EXCEPT !.op = "flush"]
      /\ UNCHANGED << sg, max, queue, free, req, used, ret, driver, answers, ran, mishaps >>
      /\ UNCHANGED << single, line, bstat, bn, count, out, result >>
  BY DEF sigterm_handler, flush_all, requests, device
<1>1. fn' \in CallsOfQueue /\ fn'.op = "flush" /\ fn'.pc = "none" /\ fn'.rp = 0
  BY <1>0, NoFnFacts DEF CallsOfQueue
<1>2. QueueTypes' /\ DeviceTypes'
  BY <1>0, <1>1 DEF Base, Types, QueueTypes, DeviceTypes
<1>3. ReaderTypes'
  BY <1>0 DEF Base, Types, ReaderTypes, Places
<1>4. Calls'
  BY <1>0, <1>1 DEF Base, Calls
<1>5. Alloc'
  BY <1>0 DEF Base, Alloc
<1>6. Prefix'
  BY <1>0, <1>1 DEF Base, Prefix, At
<1>7. Shape'
  BY <1>0 DEF Shape, Single, Double, EnterFailed
<1> QED BY <1>2, <1>3, <1>4, <1>5, <1>6, <1>7 DEF Base, Types

\* DeviceAnswers preserves the basic invariant.
LEMMA DeviceAnswersBase == ASSUME Base, DeviceAnswers, UNCHANGED reader PROVE Base'
<1>0. /\ driver # << >> /\ driver' = Tail(driver)
      /\ answers' = Append(answers, Head(driver)) /\ ran' = Append(ran, Head(driver))
      /\ UNCHANGED << sg, max, queue, free, req, used, fn, ret, mishaps >>
      /\ UNCHANGED << single, line, bstat, bn, count, rpc, out, term, result >>
  BY DEF DeviceAnswers, requests, reader
<1>1. QueueTypes'
  BY <1>0 DEF Base, Types, QueueTypes
<1>2. DeviceTypes'
  <2>1. Head(driver) \in Nat /\ Tail(driver) \in Seq(Nat)
    BY <1>0 DEF Base, Types, DeviceTypes
  <2> QED BY <1>0, <2>1 DEF Base, Types, DeviceTypes
<1>3. ReaderTypes'
  BY <1>0 DEF Base, Types, ReaderTypes
<1>4. Calls'
  BY <1>0 DEF Base, Calls, next
<1>5. Alloc'
  BY <1>0 DEF Base, Alloc
<1>6. Prefix'
  BY <1>0 DEF Base, Prefix, At, Issuing
<1>7. Shape'
  BY <1>0 DEF Base, Shape, Single, Double, DoubleTop, DoubleWait, DoubleEntering, EnterFailed,
         Newest, Open, Wants, Queued0, Queued1, Queued2, Idle
<1> QED BY <1>1, <1>2, <1>3, <1>4, <1>5, <1>6, <1>7 DEF Base, Types

\* A command is entered when the queue has at most one.
LEMMA EnterRoom ==
  ASSUME Base, rpc = "enter" PROVE Len(queue) <= 1 /\ Len(queue) \in {0, 1}
<1>1. CASE single
  BY <1>1 DEF Base, Shape, Single, Queued0
<1>2. CASE ~single
  <2>1. DoubleTop(1 - bn) /\ rpc # "top"
    BY <1>2 DEF Base, Shape, Double
  <2>2. Queued0 \/ Queued1(bstat[1 - bn].id)
    BY <2>1 DEF DoubleTop
  <2>3. Len(queue) \in Nat /\ bn \in 0..1
    BY DEF Base, Types, QueueTypes, ReaderTypes
  <2>4. Len(queue) = 0 \/ Len(queue) = 1
    BY <2>2, <2>3 DEF Queued0, Queued1
  <2>5. Len(queue) \in {0, 1}
    BY <2>4, Zenon
  <2>6. Len(queue) <= 1
    BY <2>2, <2>3 DEF Queued0, Queued1
  <2> QED BY <2>5, <2>6
<1> QED BY <1>1, <1>2

\* What dev_read_req_enter does to the state of reader_process.
LEMMA EnterTypes ==
  ASSUME Base, StartEnter
  PROVE  /\ ReaderTypes'
         /\ \A b \in 0..1 : b # bn => bstat'[b] = bstat[b]
         /\ bstat'[bn].ready
         /\ bstat'[bn].finished <=> Last \/ count + 1 >= MaxBuffers \/ bstat[bn].finished
<1> DEFINE B == [id : Node \cup {0}, ready : BOOLEAN, finished : BOOLEAN]
           e == [bstat[bn] EXCEPT !.ready = TRUE,
                   !.finished = Last \/ count + 1 >= MaxBuffers \/ bstat[bn].finished]
<1>1. bstat \in [0..1 -> B] /\ bn \in 0..1 /\ bstat[bn] \in B
  BY DEF Base, Types, ReaderTypes
<1>2. bstat' = [bstat EXCEPT ![bn] = e]
  BY <1>1 DEF StartEnter, BufferEntered
<1>3. e \in B /\ e.ready
      /\ (e.finished <=> Last \/ count + 1 >= MaxBuffers \/ bstat[bn].finished)
  BY <1>1
<1> HIDE DEF e, B
<1>4. bstat' \in [0..1 -> B] /\ bstat'[bn] = e /\ \A b \in 0..1 : b # bn => bstat'[b] = bstat[b]
  BY <1>1, <1>2, <1>3
<1>5. line' \in 0..Lines /\ count' \in Nat
  <2>1. line \in 0..Lines /\ count \in Nat /\ Lines \in Nat /\ LinesPerBuffer \in Nat
    BY ReaderAssumption DEF Base, Types, ReaderTypes
  <2> QED BY <2>1 DEF StartEnter, Last
<1>6. ReaderTypes'
  BY <1>4, <1>5 DEF StartEnter, Base, Types, ReaderTypes, Places, B
<1> QED BY <1>3, <1>4, <1>6

\* Entering issue() finds the commands handed out at the front.
LEMMA IssuePrefix ==
  ASSUME QueueTypes', NEW f \in CallsOfQueue, NEW arg \in Node \cup {0},
         NEW pc \in {"issue", "issueNext"},
         fn' = Issue(f, arg, pc, queue', req'),
         \A i, j \in DOMAIN queue' : i < j /\ At(j)'.running => At(i)'.running
  PROVE  Prefix'
<1>1. queue' \in Seq(Node) /\ Len(queue') <= 2 /\ req' \in [Node -> Requests]
  BY DEF QueueTypes
<1>2. fn'.pc = pc /\ (fn'.rp = 0 \/ fn'.rp = FirstWaiting(queue', req'))
  <2>1. IssueArgs(f, arg, pc, queue', req')
    BY <1>1 DEF IssueArgs
  <2>2. Issued(fn', f, arg, pc, queue', req')
    BY <2>1, IssueFacts, Zenon
  <2> QED BY <2>2 DEF Issued
<1> DEFINE w == FirstWaiting(queue', req')
<1>3. ASSUME fn'.rp # 0
      PROVE  Issuing' /\ fn'.rp \in DOMAIN queue'
             /\ \A i \in DOMAIN queue' : At(i)'.running <=> i < fn'.rp
  <2>1. fn'.rp = w /\ w # 0
    BY <1>2, <1>3
  <2>2. /\ w \in DOMAIN queue' /\ ~req'[queue'[w]].running
        /\ \A i \in DOMAIN queue' : i < w => req'[queue'[i]].running
    BY <2>1, <1>1, FirstWaitingFacts
  <2>3. \A i \in DOMAIN queue' : i \in Int
    BY <1>1
  <2> HIDE DEF w
  <2>4. \A i \in DOMAIN queue' : ~(i < w) => ~At(i)'.running
    <3> TAKE i \in DOMAIN queue'
    <3>1. CASE i = w
      BY <3>1, <2>2 DEF At
    <3>2. CASE w < i
      BY <3>2, <2>2 DEF At
    <3> QED BY <3>1, <3>2, <2>2, <2>3
  <2>5. \A i \in DOMAIN queue' : i < w => At(i)'.running
    BY <2>2 DEF At
  <2>6. Issuing'
    BY <1>2 DEF Issuing
  <2> QED BY <2>1, <2>2, <2>4, <2>5, <2>6
<1> QED BY <1>3 DEF Prefix

\* Steps of a call that leave the queue, its call and the reader alone.
LEMMA ShapeKept ==
  ASSUME Base, UNCHANGED << queue, ret >>, UNCHANGED reader,
         fn'.op = fn.op, fn'.id = fn.id
  PROVE  Shape' /\ ReaderTypes'
<1>1. Shape'
  BY DEF reader, Base, Shape, Single, Double, DoubleTop, DoubleWait, DoubleEntering, EnterFailed,
         Newest, Open, Wants, Queued0, Queued1, Queued2, Idle
<1>2. ReaderTypes'
  BY DEF reader, Base, Types, ReaderTypes
<1> QED BY <1>1, <1>2

\* Steps of a call that leave the call and its arguments alone.
LEMMA CallsKept ==
  ASSUME Base, UNCHANGED queue, UNCHANGED reader,
         fn'.op = fn.op, fn'.id = fn.id, fn'.arg = fn.arg, fn'.pc = fn.pc
  PROVE  Calls'
BY DEF reader, Base, Calls, next

\* StartWait preserves the basic invariant.
LEMMA StartWaitBase == ASSUME Base, StartWait PROVE Base'
<1> DEFINE m == bstat[bn].id
           f == [NoFn EXCEPT !.op = "wait", !.id = m]
<1>0. /\ rpc = "top" /\ rpc' = "wait" /\ bstat[bn].ready /\ Idle /\ bn \in 0..1
      /\ fn' = Issue(f, m, "issue", queue, req)
      /\ UNCHANGED << sg, max, queue, free, req, used, ret, driver, answers, ran, mishaps >>
      /\ UNCHANGED << single, line, bstat, bn, count, out, term, result >>
      /\ m \in Node \cup {0}
  BY DEF StartWait, req_wait, requests, device, Base, Types, ReaderTypes
<1>1. f \in CallsOfQueue /\ f.op = "wait" /\ f.id = m
  BY <1>0, NoFnFacts DEF CallsOfQueue
<1> HIDE DEF f, m
<1>2. fn' \in CallsOfQueue /\ fn'.op = "wait" /\ fn'.id = m /\ fn'.arg = m /\ fn'.pc = "issue"
  <2>1. IssueArgs(f, m, "issue", queue, req)
    BY <1>0, <1>1 DEF IssueArgs, Base, Types, QueueTypes
  <2>2. Issued(fn', f, m, "issue", queue, req)
    BY <1>0, <2>1, IssueFacts, Zenon
  <2> QED BY <1>1, <2>2 DEF Issued
<1>3. QueueTypes' /\ DeviceTypes'
  BY <1>0, <1>2 DEF Base, Types, QueueTypes, DeviceTypes
<1>4. ReaderTypes'
  BY <1>0 DEF Base, Types, ReaderTypes, Places
<1>5. Alloc'
  BY <1>0 DEF Base, Alloc
<1>6. Prefix'
  <2>1. \A i, j \in DOMAIN queue' : i < j /\ At(j)'.running => At(i)'.running
    BY <1>0 DEF Base, Prefix, At
  <2>2. fn' = Issue(f, m, "issue", queue', req')
    BY <1>0
  <2> QED BY <1>0, <1>1, <1>3, <2>1, <2>2, IssuePrefix
<1>7. Shape' /\ Len(queue) > 0 /\ queue[1] = m
  <2>0. ~Idle' /\ ~EnterFailed'
    BY <1>0, <1>2 DEF Idle, EnterFailed
  <2>1. CASE single
    <3>1. Newest(bn) /\ Queued1(m) /\ Open(1 - bn)
      BY <1>0, <2>1 DEF Base, Shape, Single, m
    <3>2. Newest(bn)' /\ Queued1(bstat[bn].id)' /\ Open(1 - bn)'
      BY <1>0, <3>1 DEF Newest, Wants, Queued1, Open, m
    <3> QED BY <1>0, <2>0, <2>1, <3>1, <3>2 DEF Shape, Single, Queued1
  <2>2. CASE ~single
    <3>1. DoubleTop(1 - bn)
      BY <1>0, <2>2 DEF Base, Shape, Double
    <3>2. \/ ~Open(bn) /\ ~Wants /\ Queued1(m)
          \/ Open(bn) /\ Newest(1 - bn) /\ Queued2(m, bstat[1 - bn].id)
      BY <1>0, <3>1 DEF DoubleTop, m
    <3>3. DoubleWait(1 - bn)'
      BY <1>0, <2>0, <3>2 DEF DoubleWait, Newest, Wants, Queued1, Queued2, Open, m
    <3> QED BY <1>0, <2>0, <2>2, <3>2, <3>3 DEF Shape, Double, Queued1, Queued2
  <2> QED BY <2>1, <2>2
<1>8. Calls'
  BY <1>0, <1>2, <1>7 DEF Base, Calls
<1> QED BY <1>3, <1>4, <1>5, <1>6, <1>7, <1>8 DEF Base, Types

\* malloc fails in sanei_scsi_req_enter2.
LEMMA EnterNoMemBase ==
  ASSUME Base, StartEnter, NEW c, c = line + 1, req_enter_no_mem(c) PROVE Base'
<1>0. /\ rpc = "enter" /\ rpc' = "entering" /\ Idle /\ bn \in 0..1
      /\ ret' = [op |-> "enter", cmd |-> c, got |-> 0, status |-> "no_mem"]
      /\ UNCHANGED << sg, max, queue, free, req, used, fn, driver, answers, ran, mishaps >>
      /\ UNCHANGED << single, bn, out, term, result >>
  BY DEF StartEnter, req_enter_no_mem, requests, device, Base, Types, ReaderTypes
<1>1. ReaderTypes'
  BY EnterTypes
<1>2. QueueTypes' /\ DeviceTypes'
  <2>1. line + 1 \in Nat
    BY ReaderAssumption DEF Base, Types, ReaderTypes
  <2>2. ret' \in Returns
    BY <1>0, <2>1 DEF Returns, Statuses
  <2> QED BY <1>0, <2>2 DEF Base, Types, QueueTypes, DeviceTypes
<1>3. Calls'
  BY <1>0 DEF Base, Calls, next
<1>4. Alloc'
  BY <1>0 DEF Base, Alloc
<1>5. Prefix'
  BY <1>0 DEF Base, Prefix, At, Issuing
<1>6. Shape'
  <2>0. EnterFailed'
    BY <1>0 DEF EnterFailed, Idle
  <2>1. Len(queue) <= 1
    BY <1>0, EnterRoom
  <2> QED BY <1>0, <2>0, <2>1 DEF Shape, Single, Double
<1> QED BY <1>1, <1>2, <1>3, <1>4, <1>5, <1>6 DEF Base, Types

\* The request entered is one that neither list holds.
LEMMA EnterOkFacts ==
  ASSUME Base, StartEnter, NEW c, c = line + 1, req_enter(c)
  PROVE  \E n \in Node :
         /\ rpc = "enter" /\ rpc' = "entering" /\ Idle /\ bn \in 0..1 /\ c \in Nat
         /\ \A i \in DOMAIN queue : queue[i] # n
         /\ free' \in Seq(Node)
         /\ \A i, j \in DOMAIN free' : i # j => free'[i] # free'[j]
         /\ \A j \in DOMAIN free' : free'[j] # n /\ \A i \in DOMAIN queue : queue[i] # free'[j]
         /\ queue' = Append(queue, n) /\ Len(queue) <= 1
         /\ req' = [req EXCEPT ![n] = [NoReq EXCEPT !.cmd = c]]
         /\ fn' = Issue([NoFn EXCEPT !.op = "enter", !.id = n], n, "issue", queue', req')
         /\ UNCHANGED << sg, max, used, ret, driver, answers, ran, mishaps >>
         /\ UNCHANGED << single, bn, out, term, result >>
<1>1. PICK n \in (IF free # << >> THEN {Head(free)} ELSE Unallocated) :
         /\ free' = IF free # << >> THEN Tail(free) ELSE free
         /\ req' = [req EXCEPT ![n] = [NoReq EXCEPT !.cmd = c]]
         /\ queue' = Append(queue, n)
         /\ fn' = Issue([NoFn EXCEPT !.op = "enter", !.id = n], n, "issue", queue', req')
  BY DEF req_enter
<1>2. queue \in Seq(Node) /\ free \in Seq(Node)
  BY DEF Base, Types, QueueTypes
<1>3. /\ n \in Node /\ \A i \in DOMAIN queue : queue[i] # n
      /\ free' \in Seq(Node)
      /\ \A i, j \in DOMAIN free' : i # j => free'[i] # free'[j]
      /\ \A j \in DOMAIN free' : free'[j] # n /\ \A i \in DOMAIN queue : queue[i] # free'[j]
  <2>1. CASE free # << >>
    <3>1. /\ n = free[1] /\ 1 \in DOMAIN free /\ n \in Node /\ free' = Tail(free)
          /\ free' \in Seq(Node)
      BY <1>1, <1>2, <2>1
    <3>2. \A j \in DOMAIN free' : j + 1 \in DOMAIN free /\ free'[j] = free[j + 1] /\ j + 1 # 1
      BY <1>2, <2>1, <3>1
    <3>3. \A i \in DOMAIN queue : queue[i] # n
      BY <3>1 DEF Base, Alloc
    <3>4. ASSUME NEW j \in DOMAIN free'
          PROVE  free'[j] # n /\ \A i \in DOMAIN queue : queue[i] # free'[j]
      BY <3>1, <3>2, <3>4 DEF Base, Alloc
    <3>5. ASSUME NEW i \in DOMAIN free', NEW j \in DOMAIN free', i # j
          PROVE  free'[i] # free'[j]
      <4>1. i + 1 # j + 1
        BY <3>5, <3>1
      <4> QED BY <3>2, <3>5, <4>1 DEF Base, Alloc
    <3> QED BY <3>1, <3>3, <3>4, <3>5
  <2>2. CASE free = << >>
    <3>1. n \in Unallocated /\ free' = free /\ DOMAIN free = {}
      BY <1>1, <2>2
    <3>2. n \in Node /\ \A i \in DOMAIN queue : queue[i] # n
      BY <3>1 DEF Unallocated, Elems
    <3> QED BY <1>2, <3>1, <3>2
  <2> QED BY <2>1, <2>2
<1>4. c \in Nat
  BY ReaderAssumption DEF Base, Types, ReaderTypes
<1>5. /\ rpc = "enter" /\ rpc' = "entering" /\ Idle /\ bn \in 0..1
      /\ UNCHANGED << sg, max, used, ret, driver, answers, ran, mishaps >>
      /\ UNCHANGED << single, bn, out, term, result >>
  BY DEF StartEnter, req_enter, device, Base, Types, ReaderTypes
<1>6. Len(queue) <= 1
  BY <1>5, EnterRoom
<1> n \in Node
  BY <1>3
<1> WITNESS n \in Node
<1> QED BY <1>1, <1>3, <1>4, <1>5, <1>6

\* A buffer is the last of its block exactly when no more are wanted.
LEMMA EnterWants ==
  ASSUME Base, StartEnter, ~bstat[bn].finished
  PROVE  Newest(bn)' /\ bn' = bn
<1>1. bstat'[bn].ready
      /\ (bstat'[bn].finished <=> Last \/ count + 1 >= MaxBuffers \/ bstat[bn].finished)
  BY EnterTypes
<1>2. bn' = bn
  BY DEF StartEnter
<1>3. Wants' <=> ~(Last \/ count + 1 >= MaxBuffers)
  <2>1. /\ line \in 0..Lines /\ count \in Nat
        /\ Lines \in Nat /\ LinesPerBuffer \in Nat /\ MaxBuffers \in Nat
    BY ReaderAssumption DEF Base, Types, ReaderTypes
  <2> QED BY <2>1 DEF StartEnter, Wants, Last
<1> QED BY <1>1, <1>2, <1>3 DEF Newest

\* sanei_scsi_req_enter2 appends a request.
LEMMA EnterOkBase ==
  ASSUME Base, StartEnter, NEW c, c = line + 1, req_enter(c) PROVE Base'
<1>1. PICK n \in Node :
         /\ rpc = "enter" /\ rpc' = "entering" /\ Idle /\ bn \in 0..1 /\ c \in Nat
         /\ \A i \in DOMAIN queue : queue[i] # n
         /\ free' \in Seq(Node)
         /\ \A i, j \in DOMAIN free' : i # j => free'[i] # free'[j]
         /\ \A j \in DOMAIN free' : free'[j] # n /\ \A i \in DOMAIN queue : queue[i] # free'[j]
         /\ queue' = Append(queue, n) /\ Len(queue) <= 1
         /\ req' = [req EXCEPT ![n] = [NoReq EXCEPT !.cmd = c]]
         /\ fn' = Issue([NoFn EXCEPT !.op = "enter", !.id = n], n, "issue", queue', req')
         /\ UNCHANGED << sg, max, used, ret, driver, answers, ran, mishaps >>
         /\ UNCHANGED << single, bn, out, term, result >>
  BY EnterOkFacts
<1> DEFINE f == [NoFn EXCEPT !.op = "enter", !.id = n]
<1>2. f \in CallsOfQueue /\ f.op = "enter" /\ f.id = n
  BY NoFnFacts DEF CallsOfQueue
<1> HIDE DEF f
<1>3. /\ queue \in Seq(Node) /\ queue' \in Seq(Node) /\ Len(queue') = Len(queue) + 1
      /\ Len(queue') <= 2 /\ Len(queue') > 0
      /\ queue'[Len(queue')] = n
      /\ \A i \in DOMAIN queue' : \/ i \in DOMAIN queue /\ queue'[i] = queue[i] /\ i # Len(queue')
                                  \/ i = Len(queue') /\ i \notin DOMAIN queue
  BY <1>1 DEF Base, Types, QueueTypes
<1>4. req' \in [Node -> Requests] /\ ~req'[n].running /\ req'[n].cmd = c
      /\ \A i \in DOMAIN queue : req'[queue[i]] = req[queue[i]]
  <2>1. [NoReq EXCEPT !.cmd = c] \in Requests /\ ~[NoReq EXCEPT !.cmd = c].running
        /\ [NoReq EXCEPT !.cmd = c].cmd = c
    BY <1>1 DEF NoReq, Requests, Statuses
  <2> QED BY <1>1, <2>1 DEF Base, Types, QueueTypes
<1>5. fn' \in CallsOfQueue /\ fn'.op = "enter" /\ fn'.id = n /\ fn'.arg = n /\ fn'.pc = "issue"
  <2>0. fn' = Issue(f, n, "issue", queue', req')
    BY <1>1 DEF f
  <2>1. IssueArgs(f, n, "issue", queue', req')
    BY <1>2, <1>3, <1>4 DEF IssueArgs
  <2>2. Issued(fn', f, n, "issue", queue', req')
    BY <2>0, <2>1, IssueFacts, Zenon
  <2> QED BY <1>2, <2>2 DEF Issued
<1>6. QueueTypes' /\ DeviceTypes'
  BY <1>1, <1>3, <1>4, <1>5 DEF Base, Types, QueueTypes, DeviceTypes
<1>7. ReaderTypes'
  BY EnterTypes
<1>8. Alloc'
  <2>1. \A i, j \in DOMAIN queue' : i # j => queue'[i] # queue'[j]
    BY <1>1, <1>3 DEF Base, Alloc
  <2>2. \A i \in DOMAIN queue', j \in DOMAIN free' : queue'[i] # free'[j]
    BY <1>1, <1>3
  <2> QED BY <1>1, <2>1, <2>2 DEF Alloc
<1>9. Prefix'
  <2>1. \A i, j \in DOMAIN queue' : i < j /\ At(j)'.running => At(i)'.running
    <3> SUFFICES ASSUME NEW i \in DOMAIN queue', NEW j \in DOMAIN queue', i < j, At(j)'.running
                 PROVE  At(i)'.running
      OBVIOUS
    <3>1. j # Len(queue')
      BY <1>3, <1>4 DEF At
    <3>2. i # Len(queue')
      BY <1>3, <3>1
    <3>3. i \in DOMAIN queue /\ j \in DOMAIN queue /\ At(i)' = At(i) /\ At(j)' = At(j)
      BY <1>3, <1>4, <3>1, <3>2 DEF At
    <3> QED BY <3>3 DEF Base, Prefix
  <2>2. fn' = Issue(f, n, "issue", queue', req')
    BY <1>1 DEF f
  <2> QED BY <1>2, <1>6, <2>1, <2>2, IssuePrefix
<1>10. Calls'
  BY <1>1, <1>3, <1>5 DEF Base, Calls
<1>11. Shape'
  <2>0. ~Idle' /\ ~EnterFailed'
    BY <1>1, <1>5 DEF Idle, EnterFailed
  <2>1. bstat'[1 - bn] = bstat[1 - bn]
    BY <1>1, EnterTypes
  <2>2. CASE single
    <3>1. Queued0 /\ Open(bn) /\ Open(1 - bn)
      BY <1>1, <2>2 DEF Base, Shape, Single
    <3>2. Newest(bn)' /\ Open(1 - bn)' /\ Queued1(fn.id)'
      BY <1>1, <1>3, <1>5, <2>1, <3>1, EnterWants DEF Open, Queued0, Queued1
    <3> QED BY <1>1, <2>0, <2>2, <3>2 DEF Shape, Single
  <2>3. CASE ~single
    <3>1. DoubleTop(1 - bn) /\ rpc # "top"
      BY <1>1, <2>3 DEF Base, Shape, Double
    <3>2. Open(bn) /\ Open(1 - bn) /\ (\/ Queued0 /\ ~bstat[1 - bn].ready
                                       \/ Queued1(bstat[1 - bn].id) /\ bstat[1 - bn].ready)
      <4>1. rpc = "enter" /\ Wants
        BY DEF StartEnter
      <4> QED BY <3>1, <4>1 DEF DoubleTop, Newest, Open
    <3>3. Newest(bn)' /\ Open(1 - bn)'
      BY <1>1, <2>1, <3>2, EnterWants DEF Open
    <3>4. \/ Queued1(fn.id)' /\ ~bstat'[1 - bn].ready
          \/ Queued2(bstat[1 - bn].id, fn.id)' /\ bstat'[1 - bn].ready
      BY <1>1, <1>3, <1>5, <2>1, <3>2 DEF Queued0, Queued1, Queued2
    <3>5. DoubleEntering(1 - bn)'
      BY <1>1, <3>3, <3>4 DEF DoubleEntering
    <3> QED BY <1>1, <2>0, <2>3, <3>5 DEF Shape, Double
  <2> QED BY <2>2, <2>3
<1> QED BY <1>6, <1>7, <1>8, <1>9, <1>10, <1>11 DEF Base, Types

\* The fields of the call that an attempt of issue() leaves alone.
SameCall == /\ fn' \in CallsOfQueue
            /\ fn'.op = fn.op /\ fn'.id = fn.id /\ fn'.arg = fn.arg /\ fn'.pc = fn.pc
            /\ fn'.st = fn.st /\ fn'.got = fn.got

\* Where issue() is in the queue while it loops.
LEMMA LoopFacts ==
  ASSUME Base, Looping
  PROVE  /\ Issuing /\ fn.rp \in DOMAIN queue /\ fn.rp \in 1..2 /\ rpNode \in Node
         /\ \A i \in DOMAIN queue : i # fn.rp => queue[i] # rpNode
         /\ \A i \in DOMAIN queue : queue[i] \in Node /\ i \in 1..2
         /\ \A i \in DOMAIN queue : At(i).running <=> i < fn.rp
         /\ fn \in CallsOfQueue /\ fn.rp # 0 /\ rpc \in {"entering", "wait"}
         /\ used < max
<1>1. fn.rp # 0 /\ Issuing /\ used < max
  BY DEF Looping
<1>2. fn.rp \in DOMAIN queue /\ \A i \in DOMAIN queue : At(i).running <=> i < fn.rp
  BY <1>1 DEF Base, Prefix
<1>3. queue \in Seq(Node) /\ Len(queue) <= 2 /\ fn \in CallsOfQueue /\ fn.rp \in 0..2
  BY DEF Base, Types, QueueTypes, CallsOfQueue
<1>4. \A i \in DOMAIN queue : queue[i] \in Node /\ i \in 1..2
  BY <1>3
<1>5. rpNode \in Node /\ \A i \in DOMAIN queue : i # fn.rp => queue[i] # rpNode
  BY <1>2, <1>4 DEF rpNode, Base, Alloc
<1>6. rpc \in {"entering", "wait"}
  BY <1>1 DEF Issuing, Base, Calls, Types, ReaderTypes, Places
<1> QED BY <1>1, <1>2, <1>3, <1>4, <1>5, <1>6

\* The driver takes a command: it runs, nothing else about the queue changes.
LEMMA TakenFacts ==
  ASSUME Base, AttemptTaken
  PROVE  /\ SameCall /\ fn'.rp = IF fn.rp < Len(queue) THEN fn.rp + 1 ELSE 0
         /\ req' \in [Node -> Requests]
         /\ \A i \in DOMAIN queue : /\ At(i)'.cmd = At(i).cmd /\ At(i)'.cmd \in Nat
                                    /\ At(i)'.running <=> At(i).running \/ i = fn.rp
                                    /\ At(i)'.done <=> At(i).done
         /\ UNCHANGED << sg, max, queue, free, ret, answers, mishaps >>
         /\ used' = used + 1
<1> DEFINE runs == [req EXCEPT ![rpNode].running = TRUE]
           st == IF sg = 2 THEN "io_error" ELSE "good"
<1>0. Looping /\ UNCHANGED << sg, max, queue, free, ret, answers, mishaps >> /\ used' = used + 1
  BY DEF AttemptTaken
<1>1. /\ fn.rp \in DOMAIN queue /\ fn.rp \in 1..2 /\ rpNode \in Node
      /\ \A i \in DOMAIN queue : i # fn.rp => queue[i] # rpNode
      /\ \A i \in DOMAIN queue : queue[i] \in Node
      /\ fn \in CallsOfQueue
  BY <1>0, LoopFacts
<1>2. fn' = [fn EXCEPT !.rp = IF fn.rp < Len(queue) THEN fn.rp + 1 ELSE 0, !.tries = Retries]
  BY DEF AttemptTaken
<1>3. SameCall /\ fn'.rp = IF fn.rp < Len(queue) THEN fn.rp + 1 ELSE 0
  <2> DEFINE w == IF fn.rp < Len(queue) THEN fn.rp + 1 ELSE 0
  <2>1. w \in 0..2 /\ Retries \in Nat
    BY <1>1, QueueAssumption DEF Base, Types, QueueTypes
  <2>2. fn' = [fn EXCEPT !.rp = w, !.tries = Retries]
    BY <1>2
  <2> HIDE DEF w
  <2>3. fn' \in CallsOfQueue /\ fn'.rp = w
    BY <1>1, <2>1, <2>2 DEF CallsOfQueue
  <2>4. /\ fn'.op = fn.op /\ fn'.id = fn.id /\ fn'.arg = fn.arg /\ fn'.pc = fn.pc
        /\ fn'.st = fn.st /\ fn'.got = fn.got
    BY <1>1, <2>2 DEF CallsOfQueue
  <2> QED BY <2>3, <2>4 DEF SameCall, w
<1>4. req \in [Node -> Requests] /\ req' = [runs EXCEPT ![fn.arg].status = st] /\ st \in Statuses
  BY DEF Base, Types, QueueTypes, AttemptTaken, Statuses
<1> HIDE DEF st
<1>5. /\ runs \in [Node -> Requests]
      /\ \A m \in Node : /\ runs[m].cmd = req[m].cmd /\ (runs[m].done <=> req[m].done)
                         /\ runs[m].running <=> req[m].running \/ m = rpNode
  BY <1>1, <1>4 DEF Requests
<1> HIDE DEF runs
<1>6. /\ req' \in [Node -> Requests]
      /\ \A m \in Node : /\ req'[m].cmd = runs[m].cmd /\ (req'[m].done <=> runs[m].done)
                         /\ req'[m].running <=> runs[m].running
  <2>1. CASE fn.arg \in Node
    BY <1>4, <1>5, <2>1 DEF Requests
  <2>2. CASE fn.arg \notin Node
    <3>1. req' = runs
      BY <1>4, <1>5, <2>2
    <3> QED BY <1>5, <3>1
  <2> QED BY <2>1, <2>2
<1>7. ASSUME NEW i \in DOMAIN queue
      PROVE  /\ At(i)'.cmd = At(i).cmd /\ At(i)'.cmd \in Nat
             /\ At(i)'.running <=> At(i).running \/ i = fn.rp
             /\ At(i)'.done <=> At(i).done
  <2>1. queue'[i] = queue[i] /\ queue[i] \in Node /\ (queue[i] = rpNode <=> i = fn.rp)
    BY <1>0, <1>1 DEF rpNode
  <2>2. req'[queue[i]].cmd \in Nat
    BY <2>1, <1>6 DEF Requests
  <2> QED BY <1>5, <1>6, <2>1, <2>2 DEF At
<1> QED BY <1>0, <1>3, <1>6, <1>7

\* EAGAIN and ENOMEM leave the requests as they are.
LEMMA PutOffFacts ==
  ASSUME Base, AttemptAgain \/ AttemptLater
  PROVE  /\ SameCall /\ (fn'.rp = fn.rp \/ fn'.rp = 0)
         /\ req' \in [Node -> Requests]
         /\ \A i \in DOMAIN queue : /\ At(i)'.cmd = At(i).cmd
                                    /\ At(i)'.running <=> At(i).running
                                    /\ At(i)'.done <=> At(i).done
                                    /\ At(i)'.status = At(i).status
         /\ UNCHANGED << sg, max, queue, free, used, ret, driver, answers, ran >>
         /\ mishaps' = mishaps \/ mishaps' = mishaps \cup {"again"}
         /\ fn'.rp = 0 /\ fn.rp = 1 => "again" \in mishaps'
<1>0. Looping /\ UNCHANGED << sg, max, queue, free, used, ret, driver, answers, ran >>
      /\ req' = [req EXCEPT ![rpNode].running = FALSE]
  BY DEF AttemptAgain, AttemptLater, device
<1>1. /\ fn.rp \in DOMAIN queue /\ fn.rp \in 1..2 /\ rpNode \in Node
      /\ \A i \in DOMAIN queue : i # fn.rp => queue[i] # rpNode
      /\ \A i \in DOMAIN queue : queue[i] \in Node
      /\ fn \in CallsOfQueue /\ ~At(fn.rp).running
  BY <1>0, LoopFacts
<1>2. \/ fn' = [fn EXCEPT !.tries = @ - 1] /\ fn.tries > 1 /\ mishaps' = mishaps
      \/ /\ fn' = [fn EXCEPT !.rp = 0]
         /\ mishaps' = mishaps \/ mishaps' = mishaps \cup {"again"}
         /\ fn.rp = 1 => mishaps' = mishaps \cup {"again"}
  BY DEF AttemptAgain, AttemptLater, Went
<1>3. SameCall /\ (fn'.rp = fn.rp \/ fn'.rp = 0)
  <2>1. CASE fn' = [fn EXCEPT !.tries = @ - 1] /\ fn.tries > 1
    BY <1>1, <2>1 DEF CallsOfQueue, SameCall
  <2>2. CASE fn' = [fn EXCEPT !.rp = 0]
    BY <1>1, <2>2 DEF CallsOfQueue, SameCall
  <2> QED BY <1>2, <2>1, <2>2
<1>4. /\ mishaps' = mishaps \/ mishaps' = mishaps \cup {"again"}
      /\ fn'.rp = 0 /\ fn.rp = 1 => "again" \in mishaps'
  <2>1. CASE fn' = [fn EXCEPT !.tries = @ - 1]
    BY <1>1, <1>2, <2>1 DEF CallsOfQueue
  <2>2. CASE fn' # [fn EXCEPT !.tries = @ - 1]
    BY <1>2, <2>2
  <2> QED BY <2>1, <2>2
<1>5. /\ req' \in [Node -> Requests]
      /\ \A m \in Node : /\ req'[m].cmd = req[m].cmd /\ (req'[m].done <=> req[m].done)
                         /\ req'[m].running <=> req[m].running /\ m # rpNode
                         /\ req'[m].status = req[m].status
  <2>1. req \in [Node -> Requests]
    BY DEF Base, Types, QueueTypes
  <2> QED BY <1>0, <1>1, <2>1 DEF Requests
<1>6. ASSUME NEW i \in DOMAIN queue
      PROVE  /\ At(i)'.cmd = At(i).cmd
             /\ At(i)'.running <=> At(i).running
             /\ At(i)'.done <=> At(i).done
             /\ At(i)'.status = At(i).status
  <2>1. queue'[i] = queue[i] /\ queue[i] \in Node /\ (queue[i] = rpNode <=> i = fn.rp)
    BY <1>0, <1>1 DEF rpNode
  <2> QED BY <1>1, <1>5, <2>1 DEF At
<1> QED BY <1>0, <1>3, <1>4, <1>5, <1>6

\* A command refused for good is done, with a status other than good.
LEMMA RefusedFacts ==
  ASSUME Base, AttemptRefused
  PROVE  /\ SameCall /\ fn'.rp = 0
         /\ req' \in [Node -> Requests]
         /\ \A i \in DOMAIN queue :
              /\ At(i)'.cmd = At(i).cmd
              /\ i # fn.rp => At(i)' = At(i)
              /\ i = fn.rp => /\ At(i)'.running <=> sg = 2
                              /\ At(i)'.done /\ At(i)'.status # "good"
         /\ UNCHANGED << sg, max, queue, free, used, ret, driver, answers, ran >>
         /\ mishaps' = mishaps \cup {"error"}
<1>0. /\ Looping /\ UNCHANGED << sg, max, queue, free, used, ret, driver, answers, ran >>
      /\ fn' = [fn EXCEPT !.rp = 0] /\ mishaps' = mishaps \cup {"error"}
  BY DEF AttemptRefused, device, Went
<1>1. /\ fn.rp \in DOMAIN queue /\ fn.rp \in 1..2 /\ rpNode \in Node
      /\ \A i \in DOMAIN queue : i # fn.rp => queue[i] # rpNode
      /\ \A i \in DOMAIN queue : queue[i] \in Node
      /\ fn \in CallsOfQueue
  BY <1>0, LoopFacts
<1>2. SameCall /\ fn'.rp = 0
  BY <1>0, <1>1 DEF SameCall, CallsOfQueue
<1>3. PICK st \in {"io_error", "no_mem"} :
        req' = [req EXCEPT ![rpNode].running = sg = 2, ![rpNode].done = TRUE,
                           ![rpNode].status = st]
  BY DEF AttemptRefused
<1>4. req \in [Node -> Requests]
  BY DEF Base, Types, QueueTypes
<1>5. /\ req' \in [Node -> Requests]
      /\ \A m \in Node : m # rpNode => req'[m] = req[m]
      /\ (req'[rpNode].running <=> sg = 2) /\ req'[rpNode].done /\ req'[rpNode].status = st
      /\ req'[rpNode].cmd = req[rpNode].cmd
  <2> DEFINE e == [req[rpNode] EXCEPT !.running = sg = 2, !.done = TRUE, !.status = st]
  <2>1. req[rpNode] \in Requests
    BY <1>1, <1>4
  <2>2. /\ e \in Requests /\ (e.running <=> sg = 2) /\ e.done /\ e.status = st
        /\ e.cmd = req[rpNode].cmd
    BY <1>3, <2>1 DEF Requests, Statuses
  <2>3. req' = [req EXCEPT ![rpNode] = e]
    BY <1>1, <1>3, <1>4
  <2> HIDE DEF e
  <2>4. req' \in [Node -> Requests] /\ req'[rpNode] = e /\ \A m \in Node : m # rpNode => req'[m] = req[m]
    BY <1>1, <1>4, <2>2, <2>3
  <2> QED BY <2>2, <2>4
<1>6. \A i \in DOMAIN queue : /\ At(i)'.cmd = At(i).cmd
                              /\ i # fn.rp => At(i)' = At(i)
  BY <1>0, <1>1, <1>5 DEF At, rpNode
<1>7. \A i \in DOMAIN queue :
        i = fn.rp => (At(i)'.running <=> sg = 2) /\ At(i)'.done /\ At(i)'.status # "good"
  BY <1>0, <1>1, <1>3, <1>5 DEF At, rpNode
<1> QED BY <1>0, <1>2, <1>5, <1>6, <1>7

\* Taken preserves the basic invariant.
LEMMA TakenBase == ASSUME Base, AttemptTaken, UNCHANGED reader PROVE Base'
<1>0. /\ SameCall /\ fn'.rp = IF fn.rp < Len(queue) THEN fn.rp + 1 ELSE 0
      /\ req' \in [Node -> Requests]
      /\ \A i \in DOMAIN queue : At(i)'.running <=> At(i).running \/ i = fn.rp
      /\ UNCHANGED << sg, max, queue, free, ret, answers, mishaps >>
      /\ used' = used + 1
  BY TakenFacts
<1>1. /\ Issuing /\ fn.rp \in DOMAIN queue /\ fn.rp \in 1..2 /\ rpNode \in Node
      /\ \A i \in DOMAIN queue : At(i).running <=> i < fn.rp
      /\ \A i \in DOMAIN queue : queue[i] \in Node /\ i \in 1..2
  BY LoopFacts DEF AttemptTaken
<1>2. QueueTypes'
  <2>1. used' \in Int
    BY <1>0 DEF Base, Types, QueueTypes
  <2> QED BY <1>0, <2>1 DEF SameCall, Base, Types, QueueTypes
<1>3. DeviceTypes'
  <2>1. req[rpNode].cmd \in Nat
    BY <1>1 DEF Base, Types, QueueTypes, Requests
  <2>2. driver' \in Seq(Nat) /\ ran' \in Seq(Nat)
    <3>1. driver \in Seq(Nat) /\ ran \in Seq(Nat)
      BY DEF Base, Types, DeviceTypes
    <3>2. CASE sg = 2
      <4>1. driver' = Append(driver, req[rpNode].cmd) /\ ran' = ran
        BY <3>2 DEF AttemptTaken
      <4> QED BY <2>1, <3>1, <4>1
    <3>3. CASE sg # 2
      <4>1. ran' = Append(ran, req[rpNode].cmd) /\ driver' = driver
        BY <3>3 DEF AttemptTaken
      <4> QED BY <2>1, <3>1, <4>1
    <3> QED BY <3>2, <3>3
  <2> QED BY <1>0, <2>2 DEF Base, Types, DeviceTypes
<1>4. Calls' /\ Shape' /\ ReaderTypes'
  BY <1>0, CallsKept, ShapeKept DEF SameCall
<1>5. Alloc'
  BY <1>0 DEF Base, Alloc
<1>6. Prefix'
  <2>1. \A i \in DOMAIN queue : At(i)'.running <=> i < fn.rp + 1
    BY <1>0, <1>1
  <2>2. \A i, j \in DOMAIN queue' : i < j /\ At(j)'.running => At(i)'.running
    BY <1>0, <1>1, <2>1
  <2>3. fn'.rp # 0 => /\ Issuing' /\ fn'.rp \in DOMAIN queue'
                      /\ \A i \in DOMAIN queue' : At(i)'.running <=> i < fn'.rp
    <3>1. queue \in Seq(Node)
      BY DEF Base, Types, QueueTypes
    <3> QED BY <1>0, <1>1, <2>1, <3>1 DEF Issuing, SameCall
  <2> QED BY <2>2, <2>3 DEF Prefix
<1> QED BY <1>2, <1>3, <1>4, <1>5, <1>6 DEF Base, Types

\* PutOff preserves the basic invariant.
LEMMA PutOffBase ==
  ASSUME Base, AttemptAgain \/ AttemptLater, UNCHANGED reader PROVE Base'
<1>0. /\ SameCall /\ (fn'.rp = fn.rp \/ fn'.rp = 0)
      /\ req' \in [Node -> Requests]
      /\ \A i \in DOMAIN queue : At(i)'.running <=> At(i).running
      /\ UNCHANGED << sg, max, queue, free, used, ret, driver, answers, ran >>
      /\ mishaps' = mishaps \/ mishaps' = mishaps \cup {"again"}
  BY PutOffFacts
<1>1. QueueTypes' /\ DeviceTypes'
  BY <1>0 DEF SameCall, Base, Types, QueueTypes, DeviceTypes
<1>2. Calls' /\ Shape' /\ ReaderTypes'
  BY <1>0, CallsKept, ShapeKept DEF SameCall
<1>3. Alloc'
  BY <1>0 DEF Base, Alloc
<1>4. Prefix'
  BY <1>0 DEF Base, Prefix, Issuing, SameCall
<1> QED BY <1>1, <1>2, <1>3, <1>4 DEF Base, Types

\* Refused preserves the basic invariant.
LEMMA RefusedBase == ASSUME Base, AttemptRefused, UNCHANGED reader PROVE Base'
<1>0. /\ SameCall /\ fn'.rp = 0
      /\ req' \in [Node -> Requests]
      /\ \A i \in DOMAIN queue : i # fn.rp => At(i)' = At(i)
      /\ UNCHANGED << sg, max, queue, free, used, ret, driver, answers, ran >>
      /\ mishaps' = mishaps \cup {"error"}
  BY RefusedFacts
<1>1. /\ \A i \in DOMAIN queue : At(i).running <=> i < fn.rp
      /\ \A i \in DOMAIN queue : i \in 1..2
      /\ fn.rp \in 1..2
  BY LoopFacts DEF AttemptRefused
<1>2. QueueTypes' /\ DeviceTypes'
  BY <1>0 DEF SameCall, Base, Types, QueueTypes, DeviceTypes
<1>3. Calls' /\ Shape' /\ ReaderTypes'
  BY <1>0, CallsKept, ShapeKept DEF SameCall
<1>4. Alloc'
  BY <1>0 DEF Base, Alloc
<1>5. Prefix'
  <2> SUFFICES ASSUME NEW i \in DOMAIN queue, NEW j \in DOMAIN queue, i < j, At(j)'.running
               PROVE  At(i)'.running
    BY <1>0 DEF Prefix
  <2>1. j # fn.rp => j < fn.rp
    BY <1>0, <1>1
  <2>2. i < fn.rp /\ i # fn.rp
    BY <1>1, <2>1
  <2> QED BY <1>0, <1>1, <2>2
<1> QED BY <1>2, <1>3, <1>4, <1>5 DEF Base, Types

\* EnterReturns preserves the basic invariant.
LEMMA EnterReturnsBase == ASSUME Base, EnterReturns, UNCHANGED reader PROVE Base'
<1>0. /\ fn.op = "enter"
      /\ ret' = [op |-> "enter", cmd |-> req[fn.id].cmd, got |-> 0, status |-> "good"]
      /\ fn' = [NoFn EXCEPT !.id = fn.id]
      /\ UNCHANGED << sg, max, queue, free, req, used, driver, answers, ran, mishaps >>
  BY DEF EnterReturns, requests, device
<1>1. rpc = "entering" /\ rpc' = rpc /\ Len(queue) > 0 /\ fn.id = queue[Len(queue)]
      /\ queue \in Seq(Node) /\ fn \in CallsOfQueue
  BY <1>0 DEF Base, Calls, Types, ReaderTypes, QueueTypes, Places, reader
<1>2. fn.id \in Node
  BY <1>1
<1>3. ret' \in Returns /\ ret'.status = "good"
  <2>1. req[fn.id].cmd \in Nat
    BY <1>2 DEF Base, Types, QueueTypes, Requests
  <2> QED BY <1>0, <2>1 DEF Returns, Statuses
<1>4. fn' \in CallsOfQueue /\ fn'.op = "none" /\ fn'.pc = "none" /\ fn'.rp = 0 /\ fn'.id = fn.id
  BY <1>0, <1>2, NoFnFacts DEF CallsOfQueue
<1>5. QueueTypes' /\ DeviceTypes'
  BY <1>0, <1>3, <1>4 DEF Base, Types, QueueTypes, DeviceTypes
<1>6. ReaderTypes'
  BY DEF Base, Types, ReaderTypes, reader
<1>7. Calls'
  BY <1>0, <1>1, <1>4 DEF Base, Calls, reader
<1>8. Alloc'
  BY <1>0 DEF Base, Alloc
<1>9. Prefix'
  BY <1>0, <1>4 DEF Base, Prefix, At
<1>10. Shape'
  <2>1. ~EnterFailed /\ ~EnterFailed'
    BY <1>0, <1>3 DEF EnterFailed, Idle
  <2>2. UNCHANGED << single, line, count, bstat, bn >> /\ bn \in 0..1
    BY DEF reader, Base, Types, ReaderTypes
  <2>3. CASE single
    <3>1. Newest(bn) /\ Queued1(fn.id) /\ Open(1 - bn)
      BY <1>1, <2>1, <2>3 DEF Base, Shape, Single
    <3>2. Newest(bn)' /\ Queued1(fn.id)' /\ Open(1 - bn)'
      BY <1>0, <1>4, <2>2, <3>1 DEF Newest, Wants, Queued1, Open
    <3> QED BY <1>1, <2>1, <2>2, <2>3, <3>2 DEF Shape, Single
  <2>4. CASE ~single
    <3>1. DoubleEntering(1 - bn)
      BY <1>1, <2>1, <2>4 DEF Base, Shape, Double
    <3>2. DoubleEntering(1 - bn)'
      BY <1>0, <1>4, <2>2, <3>1 DEF DoubleEntering, Newest, Wants, Queued1, Queued2, Open
    <3> QED BY <1>1, <2>1, <2>2, <2>4, <3>2 DEF Shape, Double
  <2> QED BY <2>3, <2>4
<1> QED BY <1>5, <1>6, <1>7, <1>8, <1>9, <1>10 DEF Base, Types

\* What the four ways of ending a wait have in common.
LEMMA AfterWait ==
  ASSUME Base, Running, UNCHANGED reader,
         UNCHANGED << sg, max, queue, free, ret >>,
         req' \in [Node -> Requests], used' \in Int,
         \A i \in DOMAIN queue : At(i)'.running <=> At(i).running,
         NEW f \in CallsOfQueue, f.op = fn.op, f.id = fn.id,
         fn' = IssueNext(f, req')
  PROVE  /\ QueueTypes' /\ ReaderTypes' /\ Calls' /\ Alloc' /\ Prefix' /\ Shape'
         /\ Issued(fn', f, next, "issueNext", queue', req')
<1>1. fn.op = "wait" /\ fn.pc = "issue"
  BY DEF Running
<1>2. queue \in Seq(Node) /\ Len(queue) <= 2 /\ next \in Node \cup {0}
  BY DEF Base, Types, QueueTypes, next
<1>3. fn' = Issue(f, next, "issueNext", queue', req')
  BY DEF IssueNext
<1>4. Issued(fn', f, next, "issueNext", queue', req')
  <2>1. IssueArgs(f, next, "issueNext", queue', req')
    BY <1>2 DEF IssueArgs
  <2> QED BY <1>3, <2>1, IssueFacts, Zenon
<1>5. fn' \in CallsOfQueue /\ fn'.op = fn.op /\ fn'.id = fn.id /\ fn'.arg = next /\ fn'.pc = "issueNext"
  BY <1>4 DEF Issued
<1>6. QueueTypes'
  BY <1>5 DEF Base, Types, QueueTypes
<1>7. Shape' /\ ReaderTypes'
  BY <1>5, ShapeKept
<1>8. Alloc'
  BY DEF Base, Alloc
<1>9. Prefix'
  <2>1. \A i, j \in DOMAIN queue' : i < j /\ At(j)'.running => At(i)'.running
    BY DEF Base, Prefix
  <2> QED BY <1>2, <1>3, <1>6, <2>1, IssuePrefix
<1>10. Calls'
  BY <1>1, <1>5 DEF Base, Calls, reader, next
<1> QED BY <1>4, <1>6, <1>7, <1>8, <1>9, <1>10

\* The head of the queue is marked as done, and nothing else.
LEMMA HeadDone ==
  ASSUME Base, Running, req' = [req EXCEPT ![fn.id].done = TRUE], UNCHANGED queue
  PROVE  /\ req' \in [Node -> Requests]
         /\ 1 \in DOMAIN queue /\ fn.id = queue[1] /\ fn.id \in Node
         /\ \A i \in DOMAIN queue : /\ At(i)'.cmd = At(i).cmd
                                    /\ At(i)'.running <=> At(i).running
                                    /\ At(i)'.done <=> At(i).done \/ i = 1
                                    /\ At(i)'.status = At(i).status
<1>1. queue \in Seq(Node) /\ Len(queue) > 0 /\ fn.id = queue[1] /\ req \in [Node -> Requests]
  BY DEF Running, Base, Calls, Types, QueueTypes
<1>2. 1 \in DOMAIN queue /\ fn.id \in Node
  BY <1>1
<1>3. /\ req' \in [Node -> Requests]
      /\ \A m \in Node : /\ req'[m].cmd = req[m].cmd /\ (req'[m].running <=> req[m].running)
                         /\ req'[m].done <=> req[m].done \/ m = fn.id
                         /\ req'[m].status = req[m].status
  BY <1>1, <1>2 DEF Requests
<1>4. \A i \in DOMAIN queue : queue[i] \in Node /\ (queue[i] = fn.id <=> i = 1)
  BY <1>1, <1>2 DEF Base, Alloc
<1> QED BY <1>1, <1>2, <1>3, <1>4 DEF At

\* WaitOver preserves the basic invariant.
LEMMA WaitOverBase == ASSUME Base, WaitOver, UNCHANGED reader PROVE Base'
<1> DEFINE f == [fn EXCEPT !.st = "own"]
<1>0. /\ Running /\ fn' = IssueNext(f, req')
      /\ UNCHANGED << sg, max, queue, free, req, used, ret, driver, answers, ran, mishaps >>
  BY DEF WaitOver, requests, device
<1>1. f \in CallsOfQueue /\ f.op = fn.op /\ f.id = fn.id
  BY DEF Base, Types, QueueTypes, CallsOfQueue, Statuses
<1> HIDE DEF f
<1>2. req' \in [Node -> Requests] /\ used' \in Int
      /\ \A i \in DOMAIN queue : At(i)'.running <=> At(i).running
  BY <1>0 DEF At, Base, Types, QueueTypes
<1>3. QueueTypes' /\ ReaderTypes' /\ Calls' /\ Alloc' /\ Prefix' /\ Shape'
  BY <1>0, <1>1, <1>2, AfterWait
<1>4. DeviceTypes'
  BY <1>0 DEF Base, Types, DeviceTypes
<1> QED BY <1>3, <1>4 DEF Base, Types

\* WaitRead preserves the basic invariant.
LEMMA WaitReadBase == ASSUME Base, WaitRead, UNCHANGED reader PROVE Base'
<1>0. /\ Running /\ answers # << >> /\ answers' = Tail(answers)
      /\ req' = [req EXCEPT ![fn.id].done = TRUE] /\ used' = used - 1
      /\ UNCHANGED << sg, max, queue, free, ret, driver, ran, mishaps >>
  BY DEF WaitRead
<1>1. PICK st \in {"good", "io_error", "busy"} :
        fn' = IssueNext([fn EXCEPT !.st = st, !.got = Head(answers)], req')
  BY DEF WaitRead
<1>2. DeviceTypes' /\ Head(answers) \in Nat
  BY <1>0 DEF Base, Types, DeviceTypes
<1> DEFINE f == [fn EXCEPT !.st = st, !.got = Head(answers)]
<1>3. f \in CallsOfQueue /\ f.op = fn.op /\ f.id = fn.id /\ fn' = IssueNext(f, req')
  BY <1>1, <1>2 DEF Base, Types, QueueTypes, CallsOfQueue, Statuses
<1> HIDE DEF f
<1>4. req' \in [Node -> Requests] /\ \A i \in DOMAIN queue : At(i)'.running <=> At(i).running
  BY <1>0, HeadDone
<1>5. used' \in Int
  BY <1>0 DEF Base, Types, QueueTypes
<1>6. QueueTypes' /\ ReaderTypes' /\ Calls' /\ Alloc' /\ Prefix' /\ Shape'
  BY <1>0, <1>3, <1>4, <1>5, AfterWait
<1> QED BY <1>2, <1>6 DEF Base, Types

\* WaitInterrupted preserves the basic invariant.
LEMMA WaitInterruptedBase == ASSUME Base, WaitInterrupted, UNCHANGED reader PROVE Base'
<1> DEFINE f == [fn EXCEPT !.st = "io_error"]
<1>0. /\ Running /\ fn' = IssueNext(f, req')
      /\ req' = [req EXCEPT ![fn.id].done = TRUE] /\ used' = used - 1
      /\ UNCHANGED << sg, max, queue, free, ret, driver, answers, ran >>
      /\ mishaps' = mishaps \cup {"interrupt"}
  BY DEF WaitInterrupted, device, Went
<1>1. f \in CallsOfQueue /\ f.op = fn.op /\ f.id = fn.id
  BY DEF Base, Types, QueueTypes, CallsOfQueue, Statuses
<1> HIDE DEF f
<1>2. req' \in [Node -> Requests] /\ \A i \in DOMAIN queue : At(i)'.running <=> At(i).running
  BY <1>0, HeadDone
<1>3. used' \in Int
  BY <1>0 DEF Base, Types, QueueTypes
<1>4. QueueTypes' /\ ReaderTypes' /\ Calls' /\ Alloc' /\ Prefix' /\ Shape'
  BY <1>0, <1>1, <1>2, <1>3, AfterWait
<1>5. DeviceTypes'
  BY <1>0 DEF Base, Types, DeviceTypes
<1> QED BY <1>4, <1>5 DEF Base, Types

\* WaitSG3 preserves the basic invariant.
LEMMA WaitSG3Base == ASSUME Base, WaitSG3, UNCHANGED reader PROVE Base'
<1>0. /\ Running
      /\ req' = [req EXCEPT ![fn.id].done = TRUE] /\ used' = used - 1
      /\ UNCHANGED << sg, max, queue, free, ret, driver, answers, ran, mishaps >>
  BY DEF WaitSG3, device
<1>1. PICK st \in {"good", "io_error", "busy"} : fn' = IssueNext([fn EXCEPT !.st = st], req')
  BY DEF WaitSG3
<1> DEFINE f == [fn EXCEPT !.st = st]
<1>2. f \in CallsOfQueue /\ f.op = fn.op /\ f.id = fn.id /\ fn' = IssueNext(f, req')
  BY <1>1 DEF Base, Types, QueueTypes, CallsOfQueue, Statuses
<1> HIDE DEF f
<1>3. req' \in [Node -> Requests] /\ \A i \in DOMAIN queue : At(i)'.running <=> At(i).running
  BY <1>0, HeadDone
<1>4. used' \in Int
  BY <1>0 DEF Base, Types, QueueTypes
<1>5. QueueTypes' /\ ReaderTypes' /\ Calls' /\ Alloc' /\ Prefix' /\ Shape'
  BY <1>0, <1>2, <1>3, <1>4, AfterWait
<1>6. DeviceTypes'
  BY <1>0 DEF Base, Types, DeviceTypes
<1> QED BY <1>5, <1>6 DEF Base, Types

\* The head of the queue goes to the free list.
LEMMA ReleaseHead ==
  ASSUME Base, Len(queue) > 0, queue' = Tail(queue), free' = << queue[1] >> \o free
  PROVE  /\ queue' \in Seq(Node) /\ Len(queue') = Len(queue) - 1 /\ Len(queue') <= 1
         /\ free' \in Seq(Node) /\ Alloc'
         /\ \A i \in DOMAIN queue' : i = 1 /\ i + 1 \in DOMAIN queue /\ queue'[i] = queue[i + 1]
<1>1. /\ queue \in Seq(Node) /\ free \in Seq(Node) /\ Len(queue) <= 2
  BY DEF Base, Types, QueueTypes
<1>2. /\ queue' \in Seq(Node) /\ Len(queue') = Len(queue) - 1 /\ Len(queue') <= 1
      /\ 1 \in DOMAIN queue /\ queue[1] \in Node
  BY <1>1
<1>3. \A i \in DOMAIN queue' : i = 1 /\ i + 1 \in DOMAIN queue /\ queue'[i] = queue[i + 1]
  BY <1>1, <1>2
<1>4. /\ free' \in Seq(Node) /\ Len(free') = Len(free) + 1
      /\ free'[1] = queue[1]
      /\ \A i \in DOMAIN free' : i = 1 \/ (i - 1 \in DOMAIN free /\ free'[i] = free[i - 1])
  BY <1>1, <1>2
<1>5. Alloc'
  <2>1. \A i, j \in DOMAIN queue' : i # j => queue'[i] # queue'[j]
    BY <1>3
  <2>2. ASSUME NEW i \in DOMAIN free', NEW j \in DOMAIN free', i # j
        PROVE  free'[i] # free'[j]
    <3>0. i \in Int /\ j \in Int
      BY <1>4
    <3>1. CASE i = 1
      BY <2>2, <3>1, <1>2, <1>4 DEF Base, Alloc
    <3>2. CASE j = 1
      BY <2>2, <3>2, <1>2, <1>4 DEF Base, Alloc
    <3>3. CASE i # 1 /\ j # 1
      <4>1. i - 1 # j - 1
        BY <2>2, <3>0
      <4> QED BY <3>3, <4>1, <1>4 DEF Base, Alloc
    <3> QED BY <3>1, <3>2, <3>3
  <2>3. ASSUME NEW i \in DOMAIN queue', NEW j \in DOMAIN free'
        PROVE  queue'[i] # free'[j]
    <3>1. i + 1 \in DOMAIN queue /\ i + 1 # 1 /\ queue'[i] = queue[i + 1]
      BY <1>3
    <3> HIDE DEF Base
    <3>2. CASE j = 1
      BY <3>1, <3>2, <1>2, <1>4 DEF Base, Alloc
    <3>3. CASE j # 1
      BY <3>1, <3>3, <1>4 DEF Base, Alloc
    <3> QED BY <3>2, <3>3
  <2> QED BY <2>1, <2>2, <2>3 DEF Alloc
<1> QED BY <1>2, <1>3, <1>4, <1>5

\* WaitReturns preserves the basic invariant.
LEMMA WaitReturnsBase == ASSUME Base, WaitReturns, UNCHANGED reader PROVE Base'
<1>0. /\ fn.op = "wait" /\ fn.pc = "issueNext"
      /\ queue' = Tail(queue) /\ free' = << fn.id >> \o free /\ fn' = NoFn
      /\ ret' = [op |-> "wait", cmd |-> req[fn.id].cmd,
             got |-> IF sg = 3 /\ req[fn.id].running THEN req[fn.id].cmd ELSE fn.got,
             status |-> IF fn.st = "own" THEN req[fn.id].status ELSE fn.st]
      /\ UNCHANGED << sg, max, req, used, driver, answers, ran, mishaps >>
  BY DEF WaitReturns, device
<1>1. /\ rpc = "wait" /\ rpc' = rpc /\ Len(queue) > 0 /\ fn.id = queue[1] /\ ~Idle
      /\ queue \in Seq(Node) /\ fn \in CallsOfQueue /\ req \in [Node -> Requests]
  BY <1>0 DEF Base, Calls, Types, ReaderTypes, QueueTypes, Places, reader, Idle
<1>2. fn.id \in Node
  BY <1>1
<1>3. ret' \in Returns
  <2>1. /\ req[fn.id].cmd \in Nat /\ req[fn.id].status \in Statuses /\ fn.got \in Nat
        /\ fn.st \in Statuses \cup {"own"}
    BY <1>1, <1>2 DEF Requests, CallsOfQueue
  <2> QED BY <1>0, <2>1 DEF Returns
<1>4. /\ queue' \in Seq(Node) /\ Len(queue') = Len(queue) - 1 /\ Len(queue') <= 1
      /\ free' \in Seq(Node) /\ Alloc'
      /\ \A i \in DOMAIN queue' : i = 1 /\ i + 1 \in DOMAIN queue /\ queue'[i] = queue[i + 1]
  BY <1>0, <1>1, ReleaseHead
<1>5. fn' \in CallsOfQueue /\ fn'.op = "none" /\ fn'.pc = "none" /\ fn'.rp = 0 /\ Idle'
  BY <1>0, NoFnFacts DEF Idle
<1>6. QueueTypes' /\ DeviceTypes'
  BY <1>0, <1>3, <1>4, <1>5 DEF Base, Types, QueueTypes, DeviceTypes
<1>7. ReaderTypes'
  BY DEF Base, Types, ReaderTypes, reader
<1>8. Calls'
  BY <1>1, <1>5 DEF Base, Calls, reader
<1>9. Prefix'
  BY <1>4, <1>5 DEF Prefix
<1>10. Shape'
  <2>1. ~EnterFailed'
    BY <1>1 DEF EnterFailed
  <2>2. UNCHANGED << single, line, count, bstat, bn >> /\ bn \in 0..1 /\ Len(queue) \in Nat
    BY <1>1 DEF reader, Base, Types, ReaderTypes
  <2>3. CASE single
    <3>1. Newest(bn) /\ Queued1(bstat[bn].id) /\ Open(1 - bn)
      BY <1>1, <2>3 DEF Base, Shape, Single
    <3>2. Newest(bn)' /\ Queued0' /\ Open(1 - bn)'
      BY <1>4, <2>2, <3>1 DEF Newest, Wants, Queued0, Queued1, Open
    <3> QED BY <1>1, <1>5, <2>1, <2>2, <2>3, <3>2 DEF Shape, Single
  <2>4. CASE ~single
    <3>1. DoubleWait(1 - bn)
      BY <1>1, <2>4 DEF Base, Shape, Double
    <3>2. CASE ~Open(bn) /\ ~Wants /\ Queued1(bstat[bn].id)
      <4>1. Queued0'
        BY <1>4, <3>2 DEF Queued0, Queued1
      <4> QED BY <1>1, <1>5, <2>1, <2>2, <2>4, <3>1, <3>2, <4>1 DEF Shape, Double, DoubleWait, Open, Wants
    <3>3. CASE Open(bn) /\ Newest(1 - bn) /\ Queued2(bstat[bn].id, bstat[1 - bn].id)
      <4>1. Queued1(bstat[1 - bn].id)'
        BY <1>4, <2>2, <3>3 DEF Queued1, Queued2
      <4>2. DoubleWait(1 - bn)'
        BY <1>5, <2>2, <3>1, <3>3, <4>1 DEF DoubleWait, Open, Wants, Newest
      <4> QED BY <1>1, <2>1, <2>2, <2>4, <4>2 DEF Shape, Double
    <3> QED BY <1>1, <3>1, <3>2, <3>3 DEF DoubleWait
  <2> QED BY <2>3, <2>4
<1> QED BY <1>4, <1>6, <1>7, <1>8, <1>9, <1>10 DEF Base, Types

\* Flush preserves the basic invariant.
LEMMA FlushBase == ASSUME Base, Flush, UNCHANGED reader, rpc # "exited" PROVE Base'
<1>0. /\ fn.op = "flush" /\ queue # << >> /\ queue' = Tail(queue)
      /\ free' = << Head(queue) >> \o free
      /\ UNCHANGED << sg, max, req, fn, ret, driver, ran >>
  BY DEF Flush, FlushIdle, FlushRead, FlushTimeout, Flushing, Released
<1>1. /\ rpc = "flush" /\ rpc' = rpc /\ Len(queue) > 0 /\ Head(queue) = queue[1]
      /\ queue \in Seq(Node) /\ fn.pc = "none" /\ fn.rp = 0
  BY <1>0 DEF Base, Calls, Types, ReaderTypes, QueueTypes, Places, reader, Prefix, Issuing
<1>2. used' \in Int /\ answers' \in Seq(Nat)
      /\ mishaps' \subseteq {"again", "error", "interrupt", "timeout"}
  <2>1. /\ used \in Int /\ answers \in Seq(Nat)
        /\ mishaps \subseteq {"again", "error", "interrupt", "timeout"}
    BY DEF Base, Types, QueueTypes, DeviceTypes
  <2>2. CASE FlushIdle
    BY <2>1, <2>2 DEF FlushIdle
  <2>3. CASE FlushRead
    BY <2>1, <2>3 DEF FlushRead
  <2>4. CASE FlushTimeout
    <3>1. used' = used - 1 /\ answers' = answers
          /\ (mishaps' = mishaps \/ mishaps' = mishaps \cup {"timeout"})
      BY <2>4 DEF FlushTimeout, Went
    <3>2. used' \in Int /\ answers' \in Seq(Nat)
      BY <2>1, <3>1
    <3>3. mishaps' \subseteq {"again", "error", "interrupt", "timeout"}
      BY <2>1, <3>1
    <3> QED BY <3>2, <3>3
  <2> QED BY <2>2, <2>3, <2>4 DEF Flush
<1>3. /\ queue' \in Seq(Node) /\ Len(queue') = Len(queue) - 1 /\ Len(queue') <= 1
      /\ free' \in Seq(Node) /\ Alloc'
      /\ \A i \in DOMAIN queue' : i = 1 /\ i + 1 \in DOMAIN queue /\ queue'[i] = queue[i + 1]
  BY <1>0, <1>1, ReleaseHead
<1>4. QueueTypes' /\ DeviceTypes'
  BY <1>0, <1>2, <1>3 DEF Base, Types, QueueTypes, DeviceTypes
<1>5. ReaderTypes'
  BY DEF Base, Types, ReaderTypes, reader
<1>6. Calls'
  BY <1>0, <1>1 DEF Base, Calls, reader
<1>7. Prefix'
  BY <1>0, <1>1, <1>3 DEF Prefix
<1>8. Shape'
  BY <1>1 DEF Shape, EnterFailed, Single, Double
<1> QED BY <1>3, <1>4, <1>5, <1>6, <1>7, <1>8 DEF Base, Types

\* A read command is entered, or not for want of memory.
LEMMA StartEnterBase == ASSUME Base, StartEnter PROVE Base'
<1>1. PICK c : c = line + 1
  OBVIOUS
<1>2. req_enter(c) \/ req_enter_no_mem(c)
  BY <1>1 DEF StartEnter
<1> QED BY <1>1, <1>2, EnterOkBase, EnterNoMemBase

\* Every step preserves the basic invariant.
LEMMA BaseStep == ASSUME Base, [Next]_vars PROVE Base'
<1>1. CASE Process
  BY <1>1, BlockStartBase, AllReadBase, StartWaitBase, NotReadyBase, WaitedBase,
     EnteredBase, NothingToEnterBase, HandlerExitsBase, StartEnterBase DEF Process
<1>2. CASE InQueue
  <2>1. UNCHANGED reader /\ rpc # "exited" /\ QueueStep
    BY <1>2 DEF InQueue
  <2> QED BY <2>1, TakenBase, PutOffBase, RefusedBase, EnterReturnsBase, WaitOverBase,
          WaitReadBase, WaitInterruptedBase, WaitSG3Base, WaitReturnsBase, FlushBase
          DEF QueueStep, issue
<1>3. CASE DeviceAnswers /\ UNCHANGED reader
  BY <1>3, DeviceAnswersBase
<1>4. CASE Kill
  BY <1>4, KillBase
<1>5. CASE sigterm_handler
  BY <1>5, sigterm_handlerBase
<1>6. CASE UNCHANGED vars
  BY <1>6, StutterBase
<1> QED BY <1>1, <1>2, <1>3, <1>4, <1>5, <1>6 DEF Next, Terminated

(***************************************************************************)
(* The basic invariant holds in every reachable state: the types, the      *)
(* arguments of the call under way, the lists of requests, and which       *)
(* buffer's command stands where in the queue.                             *)
(***************************************************************************)
THEOREM BaseHolds == Spec => []Base
<1>1. ReaderInit => Base
  BY InitBase
<1>2. Base /\ [Next]_vars => Base'
  BY BaseStep
<1> QED BY <1>1, <1>2, PTL DEF Spec

\* The buffer waited for is the head, by the shape of the queue.
LEMMA BaseWaitsForHead == ASSUME Base PROVE WaitsForHead
<1> SUFFICES ASSUME rpc = "top", bstat[bn].ready
             PROVE  queue # << >> /\ bstat[bn].id = Head(queue)
  BY DEF WaitsForHead
<1>1. queue \in Seq(Node) /\ bn \in 0..1
  BY DEF Base, Types, QueueTypes, ReaderTypes
<1>2. Len(queue) > 0 /\ queue[1] = bstat[bn].id
  <2>1. CASE single
    <3>1. Queued1(bstat[bn].id)
      BY <2>1 DEF Base, Shape, Single
    <3> QED BY <1>1, <3>1 DEF Queued1
  <2>2. CASE ~single
    <3>1. DoubleTop(1 - bn)
      BY <2>2 DEF Base, Shape, Double
    <3>2. Queued1(bstat[bn].id) \/ Queued2(bstat[bn].id, bstat[1 - bn].id)
      BY <3>1 DEF DoubleTop
    <3> QED BY <1>1, <3>2 DEF Queued1, Queued2
  <2> QED BY <2>1, <2>2
<1> QED BY <1>1, <1>2

(***************************************************************************)
(* The assertion of sanei_scsi_req_wait never fails: the buffer that       *)
(* reader_process waits for is the head of the queue.                      *)
(***************************************************************************)
THEOREM WaitsHold == Spec => []WaitsForHead
BY BaseHolds, BaseWaitsForHead, PTL

-------------------------------------------------------------------------------
(* The order in which commands are executed.                               *)

\* Sequences of commands.
Sorted(s)   == \A i, j \in DOMAIN s : i < j => s[i] < s[j]
Below(s, v) == \A i \in DOMAIN s : s[i] < v

\* What has run, what the driver has and what waits is in order.
Order ==
  /\ Sorted(ran) /\ Sorted(driver)
  /\ \A j \in DOMAIN driver : Below(ran, driver[j])
  /\ \A i, j \in DOMAIN queue : i < j => At(i).cmd < At(j).cmd
  /\ \A i \in DOMAIN queue : At(i).cmd <= line
  /\ \A i \in DOMAIN ran : ran[i] <= line
  /\ \A i \in DOMAIN driver : driver[i] <= line
  /\ \A i \in DOMAIN queue : ~At(i).running => Below(ran, At(i).cmd) /\ Below(driver, At(i).cmd)
  /\ sg = 3 => driver = << >> /\ answers = << >>

\* An element above all others goes to the end of a sorted sequence.
LEMMA SortedAppend ==
  ASSUME NEW s \in Seq(Nat), NEW x \in Nat, Sorted(s), Below(s, x)
  PROVE  Sorted(Append(s, x))
BY DEF Sorted, Below

\* A bound of a sequence that grows.
LEMMA BelowAppend ==
  ASSUME NEW s \in Seq(Nat), NEW x \in Nat, NEW v, Below(s, v), x < v
  PROVE  Below(Append(s, x), v)
BY DEF Below

\* The elements of a sequence that has grown.
LEMMA AppendElements ==
  ASSUME NEW s \in Seq(Nat), NEW x \in Nat
  PROVE  \A i \in DOMAIN Append(s, x) : Append(s, x)[i] = x \/ (i \in DOMAIN s /\ Append(s, x)[i] = s[i])
OBVIOUS

\* The elements of a tail.
LEMMA TailElements ==
  ASSUME NEW s \in Seq(Nat), s # << >>
  PROVE  /\ Head(s) = s[1] /\ 1 \in DOMAIN s /\ Head(s) \in Nat
         /\ Tail(s) \in Seq(Nat)
         /\ \A i \in DOMAIN Tail(s) : i + 1 \in DOMAIN s /\ Tail(s)[i] = s[i + 1] /\ i \in Nat \ {0}
OBVIOUS

\* A tail of a sorted sequence is sorted, and above the head.
LEMMA SortedTail ==
  ASSUME NEW s \in Seq(Nat), s # << >>, Sorted(s)
  PROVE  Sorted(Tail(s)) /\ \A i \in DOMAIN Tail(s) : Head(s) < Tail(s)[i]
<1>1. /\ Head(s) = s[1] /\ 1 \in DOMAIN s
      /\ \A i \in DOMAIN Tail(s) : i + 1 \in DOMAIN s /\ Tail(s)[i] = s[i + 1] /\ i \in Nat \ {0}
  BY TailElements
<1>2. ASSUME NEW i \in DOMAIN Tail(s), NEW j \in DOMAIN Tail(s), i < j
      PROVE  Tail(s)[i] < Tail(s)[j]
  <2>1. i + 1 < j + 1
    BY <1>1, <1>2
  <2> QED BY <1>1, <2>1 DEF Sorted
<1>3. ASSUME NEW i \in DOMAIN Tail(s)
      PROVE  Head(s) < Tail(s)[i]
  <2>1. 1 < i + 1
    BY <1>1
  <2> QED BY <1>1, <2>1 DEF Sorted
<1> QED BY <1>2, <1>3 DEF Sorted

\* A bound of a sequence bounds its tail.
LEMMA BelowTail ==
  ASSUME NEW s \in Seq(Nat), s # << >>, NEW v, Below(s, v)
  PROVE  Below(Tail(s), v) /\ Head(s) < v
BY TailElements DEF Below

\* The order holds at first.
LEMMA InitOrder == ASSUME ReaderInit PROVE Order
BY DEF ReaderInit, Init, Order, Sorted, Below

\* The queue as it was, but for commands that no longer wait for the driver.
SameQueue ==
  /\ queue' = queue
  /\ \A i \in DOMAIN queue : At(i)'.cmd = At(i).cmd /\ (At(i).running => At(i)'.running)

\* Steps that neither move commands nor execute them keep the order.
LEMMA OrderKept ==
  ASSUME Base, Base', Order, SameQueue, UNCHANGED << sg, ran, driver >>, line <= line',
         sg = 3 => answers' = answers
  PROVE  Order'
<1>1. line \in Nat /\ line' \in Nat
  BY ReaderAssumption DEF Base, Types, ReaderTypes
<1>2. \A i \in DOMAIN queue : At(i).cmd \in Nat
  BY DEF At, Base, Types, QueueTypes, Requests
<1>3. (\A i \in DOMAIN ran : ran[i] \in Nat) /\ (\A i \in DOMAIN driver : driver[i] \in Nat)
  BY DEF Base, Types, DeviceTypes
<1>4. /\ \A i \in DOMAIN queue' : At(i)'.cmd <= line'
      /\ \A i \in DOMAIN ran' : ran'[i] <= line'
      /\ \A i \in DOMAIN driver' : driver'[i] <= line'
  BY <1>1, <1>2, <1>3 DEF SameQueue, Order
<1>5. /\ \A i, j \in DOMAIN queue' : i < j => At(i)'.cmd < At(j)'.cmd
      /\ \A i \in DOMAIN queue' : ~At(i)'.running =>
           Below(ran, At(i)'.cmd) /\ Below(driver, At(i)'.cmd)
  BY DEF SameQueue, Order
<1> QED BY <1>4, <1>5 DEF Order

\* The head leaves the queue.
LEMMA OrderReleased ==
  ASSUME Base, Base', Order, Len(queue) > 0, queue' = Tail(queue), free' = << queue[1] >> \o free,
         UNCHANGED << sg, ran, driver, req, line >>, sg = 3 => answers' = answers
  PROVE  Order'
<1>1. \A i \in DOMAIN queue' : i = 1 /\ i + 1 \in DOMAIN queue /\ queue'[i] = queue[i + 1]
  BY ReleaseHead
<1>2. \A i \in DOMAIN queue' : i + 1 \in DOMAIN queue /\ At(i)' = At(i + 1)
  BY <1>1 DEF At
<1>3. \A i \in DOMAIN queue' :
        /\ At(i)'.cmd <= line'
        /\ ~At(i)'.running => Below(ran, At(i)'.cmd) /\ Below(driver, At(i)'.cmd)
  BY <1>2 DEF Order
<1>4. \A i, j \in DOMAIN queue' : i < j => At(i)'.cmd < At(j)'.cmd
  BY <1>1
<1> QED BY <1>3, <1>4 DEF Order

\* The driver takes a command that is behind all it has been given.
LEMMA OrderTaken == ASSUME Base, Base', Order, AttemptTaken, UNCHANGED reader PROVE Order'
<1> DEFINE c == req[rpNode].cmd
<1>0. /\ fn.rp \in DOMAIN queue /\ fn.rp \in 1..2 /\ rpNode \in Node
      /\ \A i \in DOMAIN queue : At(i).running <=> i < fn.rp
      /\ \A i \in DOMAIN queue : queue[i] \in Node /\ i \in 1..2
  BY LoopFacts DEF AttemptTaken
<1>1. /\ \A i \in DOMAIN queue : /\ At(i)'.cmd = At(i).cmd /\ At(i)'.cmd \in Nat
                                 /\ At(i)'.running <=> At(i).running \/ i = fn.rp
      /\ UNCHANGED << sg, queue, answers, line >>
  BY TakenFacts DEF reader
<1>2. c = At(fn.rp).cmd /\ c \in Nat
  BY <1>0, <1>1 DEF At, rpNode
<1>3. Below(ran, c) /\ Below(driver, c) /\ c <= line
  <2>1. ~At(fn.rp).running
    BY <1>0
  <2> QED BY <1>0, <1>2, <2>1 DEF Order
<1>4. \A i \in DOMAIN queue : ~At(i)'.running => /\ c < At(i)'.cmd
                                                 /\ Below(ran, At(i)'.cmd)
                                                 /\ Below(driver, At(i)'.cmd)
  <2> TAKE i \in DOMAIN queue
  <2> HAVE ~At(i)'.running
  <2>1. ~At(i).running /\ fn.rp < i
    BY <1>0, <1>1
  <2> QED BY <1>0, <1>1, <1>2, <2>1 DEF Order
<1>5. ran \in Seq(Nat) /\ driver \in Seq(Nat) /\ line \in Nat
  BY ReaderAssumption DEF Base, Types, DeviceTypes, ReaderTypes
<1> HIDE DEF c
<1>6. CASE sg = 2
  <2>1. driver' = Append(driver, c) /\ ran' = ran
    BY <1>6 DEF AttemptTaken, c
  <2>2. Sorted(driver') /\ Sorted(ran')
    BY <1>2, <1>3, <1>5, <2>1, SortedAppend DEF Order
  <2>3. \A j \in DOMAIN driver' : driver'[j] = c \/ (j \in DOMAIN driver /\ driver'[j] = driver[j])
    BY <1>2, <1>5, <2>1, AppendElements
  <2>4. \A j \in DOMAIN driver' : Below(ran', driver'[j]) /\ driver'[j] <= line
    BY <1>3, <2>1, <2>3 DEF Order
  <2>5. \A i \in DOMAIN queue : ~At(i)'.running => Below(ran', At(i)'.cmd) /\ Below(driver', At(i)'.cmd)
    BY <1>1, <1>2, <1>4, <1>5, <2>1, BelowAppend
  <2> QED BY <1>1, <1>6, <2>1, <2>2, <2>4, <2>5 DEF Order
<1>7. CASE sg # 2
  <2>1. ran' = Append(ran, c) /\ driver' = driver
    BY <1>7 DEF AttemptTaken, c
  <2>0. sg = 3 /\ driver = << >> /\ answers = << >>
    BY <1>7 DEF Base, Types, QueueTypes, Order
  <2>2. Sorted(driver') /\ Sorted(ran')
    BY <1>2, <1>3, <1>5, <2>1, SortedAppend DEF Order
  <2>3. \A j \in DOMAIN ran' : ran'[j] = c \/ (j \in DOMAIN ran /\ ran'[j] = ran[j])
    BY <1>2, <1>5, <2>1, AppendElements
  <2>4. \A j \in DOMAIN ran' : ran'[j] <= line
    BY <1>3, <2>3 DEF Order
  <2>5. \A i \in DOMAIN queue : ~At(i)'.running => Below(ran', At(i)'.cmd) /\ Below(driver', At(i)'.cmd)
    BY <1>1, <1>2, <1>4, <1>5, <2>1, BelowAppend
  <2>6. DOMAIN driver' = {}
    BY <2>0, <2>1
  <2> QED BY <1>1, <2>0, <2>1, <2>2, <2>4, <2>5, <2>6 DEF Order
<1> QED BY <1>6, <1>7

\* The scanner executes the first command the driver has.
LEMMA OrderAnswers == ASSUME Base, Base', Order, DeviceAnswers, UNCHANGED reader PROVE Order'
<1>0. /\ driver # << >> /\ driver' = Tail(driver)
      /\ answers' = Append(answers, Head(driver)) /\ ran' = Append(ran, Head(driver))
      /\ UNCHANGED << sg, queue, req, line >>
  BY DEF DeviceAnswers, requests, reader
<1> DEFINE h == Head(driver)
<1>1. ran \in Seq(Nat) /\ driver \in Seq(Nat)
  BY DEF Base, Types, DeviceTypes
<1>2. /\ h = driver[1] /\ 1 \in DOMAIN driver /\ h \in Nat
      /\ \A i \in DOMAIN driver' : i + 1 \in DOMAIN driver /\ driver'[i] = driver[i + 1]
  BY <1>0, <1>1, TailElements
<1>3. Sorted(driver') /\ \A i \in DOMAIN driver' : h < driver'[i]
  BY <1>0, <1>1, SortedTail DEF Order
<1>4. \A i \in DOMAIN queue : ~At(i).running =>
        Below(driver', At(i).cmd) /\ h < At(i).cmd
  BY <1>0, <1>1, BelowTail DEF Order
<1> HIDE DEF h
<1>5. ran' = Append(ran, h)
  BY <1>0 DEF h
<1>6. Sorted(ran')
  BY <1>1, <1>2, <1>5, SortedAppend DEF Order
<1>7. \A i \in DOMAIN queue : ~At(i).running => Below(ran', At(i).cmd)
  BY <1>1, <1>2, <1>4, <1>5, BelowAppend DEF Order
<1>8. \A j \in DOMAIN driver' : Below(ran', driver'[j]) /\ driver'[j] <= line
  BY <1>1, <1>2, <1>3, <1>5, BelowAppend DEF Order
<1>9. \A j \in DOMAIN ran' : ran'[j] <= line
  <2>1. \A j \in DOMAIN ran' : ran'[j] = h \/ (j \in DOMAIN ran /\ ran'[j] = ran[j])
    BY <1>1, <1>2, <1>5, AppendElements
  <2> QED BY <1>2, <2>1 DEF Order
<1>10. \A i \in DOMAIN queue : At(i)' = At(i)
  BY <1>0 DEF At
<1>11. sg # 3
  BY <1>0 DEF Order
<1> QED BY <1>0, <1>3, <1>4, <1>6, <1>7, <1>8, <1>9, <1>10, <1>11 DEF Order

\* What entering a command does to the queue.
LEMMA EnterOkView ==
  ASSUME Base, StartEnter, NEW c, c = line + 1, req_enter(c)
  PROVE  /\ Len(queue') = Len(queue) + 1 /\ Len(queue) \in {0, 1} /\ c \in Nat
         /\ \A i \in DOMAIN queue : i \in DOMAIN queue' /\ At(i)' = At(i)
         /\ \A i \in DOMAIN queue' :
              \/ i \in DOMAIN queue
              \/ i = Len(queue) + 1 /\ At(i)' = [NoReq EXCEPT !.cmd = c]
         /\ rpc = "enter" /\ rpc' = "entering" /\ Idle
         /\ fn'.op = "enter" /\ fn'.pc = "issue" /\ fn'.rp = FirstWaiting(queue', req')
         /\ UNCHANGED << sg, max, used, ret, driver, answers, ran, mishaps >>
         /\ UNCHANGED << single, bn, out, term, result >>
<1>1. PICK n \in Node :
         /\ rpc = "enter" /\ rpc' = "entering" /\ Idle /\ bn \in 0..1 /\ c \in Nat
         /\ \A i \in DOMAIN queue : queue[i] # n
         /\ free' \in Seq(Node)
         /\ \A i, j \in DOMAIN free' : i # j => free'[i] # free'[j]
         /\ \A j \in DOMAIN free' : free'[j] # n /\ \A i \in DOMAIN queue : queue[i] # free'[j]
         /\ queue' = Append(queue, n) /\ Len(queue) <= 1
         /\ req' = [req EXCEPT ![n] = [NoReq EXCEPT !.cmd = c]]
         /\ fn' = Issue([NoFn EXCEPT !.op = "enter", !.id = n], n, "issue", queue', req')
         /\ UNCHANGED << sg, max, used, ret, driver, answers, ran, mishaps >>
         /\ UNCHANGED << single, bn, out, term, result >>
  BY EnterOkFacts
<1>2. queue \in Seq(Node) /\ req \in [Node -> Requests]
  BY DEF Base, Types, QueueTypes
<1>3. queue' \in Seq(Node) /\ Len(queue') <= 2 /\ req' \in [Node -> Requests]
  <2>1. Base'
    BY EnterOkBase
  <2> QED BY <2>1 DEF Base, Types, QueueTypes
<1>4. Len(queue') = Len(queue) + 1 /\ Len(queue) \in {0, 1}
  <2>3. Len(queue) \in {0, 1}
    BY <1>1, EnterRoom
  <2>4. Len(queue') = Len(queue) + 1
    BY <1>1, <1>2, AppendProperties
  <2> QED BY <2>3, <2>4
<1>5. /\ \A i \in DOMAIN queue : i \in DOMAIN queue' /\ queue'[i] = queue[i]
      /\ \A i \in DOMAIN queue' : i \in DOMAIN queue \/ (i = Len(queue) + 1 /\ queue'[i] = n)
  BY <1>1, <1>2
<1>6. req'[n] = [NoReq EXCEPT !.cmd = c] /\ \A m \in Node : m # n => req'[m] = req[m]
  BY <1>1, <1>2
<1>7. \A i \in DOMAIN queue : At(i)' = At(i)
  BY <1>1, <1>2, <1>5, <1>6 DEF At
<1>8. \A i \in DOMAIN queue' :
              \/ i \in DOMAIN queue
              \/ i = Len(queue) + 1 /\ At(i)' = [NoReq EXCEPT !.cmd = c]
  BY <1>5, <1>6 DEF At
<1>9. fn'.op = "enter" /\ fn'.pc = "issue" /\ fn'.rp = FirstWaiting(queue', req')
  <2> DEFINE f == [NoFn EXCEPT !.op = "enter", !.id = n]
  <2>1. f \in CallsOfQueue /\ f.op = "enter" /\ fn' = Issue(f, n, "issue", queue', req')
    BY <1>1, NoFnFacts DEF CallsOfQueue
  <2> HIDE DEF f
  <2>2. IssueArgs(f, n, "issue", queue', req')
    BY <1>3, <2>1 DEF IssueArgs
  <2>3. Issued(fn', f, n, "issue", queue', req')
    BY <2>1, <2>2, IssueFacts, Zenon
  <2> QED BY <2>1, <2>3 DEF Issued
<1> QED BY <1>1, <1>4, <1>5, <1>7, <1>8, <1>9

\* Every command entered moves s->line on.
LEMMA LineGrows == ASSUME Base, StartEnter PROVE line < line' /\ line + 1 <= line' /\ line \in Nat
<1>1. /\ line \in 0..Lines /\ Lines \in Nat /\ LinesPerBuffer \in Nat \ {0}
  BY ReaderAssumption DEF Base, Types, ReaderTypes
<1> QED BY <1>1 DEF StartEnter, Wants, Last

\* The command entered is behind all others.
LEMMA OrderEntered ==
  ASSUME Base, Base', Order, StartEnter, NEW c, c = line + 1, req_enter(c) PROVE Order'
<1>1. /\ Len(queue') = Len(queue) + 1 /\ c \in Nat
      /\ \A i \in DOMAIN queue : i \in DOMAIN queue' /\ At(i)' = At(i)
      /\ \A i \in DOMAIN queue' :
              \/ i \in DOMAIN queue
              \/ i = Len(queue) + 1 /\ At(i)' = [NoReq EXCEPT !.cmd = c]
      /\ UNCHANGED << sg, driver, answers, ran >>
  BY EnterOkView
<1>2. line \in Nat /\ line' \in Nat /\ c <= line' /\ line <= line' /\ line < c
  BY LineGrows, ReaderAssumption DEF Base, Types, ReaderTypes
<1>3. [NoReq EXCEPT !.cmd = c].cmd = c
  BY DEF NoReq
<1>4. queue \in Seq(Node) /\ queue' \in Seq(Node)
  BY DEF Base, Types, QueueTypes
<1>5. \A i \in DOMAIN queue : At(i).cmd \in Nat
  BY DEF At, Base, Types, QueueTypes, Requests
<1>6. (\A i \in DOMAIN ran : ran[i] \in Nat) /\ (\A i \in DOMAIN driver : driver[i] \in Nat)
  BY DEF Base, Types, DeviceTypes
<1>7. Below(ran, c) /\ Below(driver, c)
  BY <1>1, <1>2, <1>6 DEF Order, Below
<1>8. /\ \A i \in DOMAIN queue' : At(i)'.cmd <= line'
      /\ \A i \in DOMAIN ran : ran[i] <= line'
      /\ \A i \in DOMAIN driver : driver[i] <= line'
  <2>1. \A i \in DOMAIN queue : At(i).cmd <= line'
    BY <1>2, <1>5 DEF Order
  <2>2. \A i \in DOMAIN queue' : At(i)'.cmd <= line'
    BY <1>1, <1>2, <1>3, <2>1
  <2> QED BY <1>2, <1>6, <2>2 DEF Order
<1>9. ASSUME NEW i \in DOMAIN queue', NEW j \in DOMAIN queue', i < j
      PROVE  At(i)'.cmd < At(j)'.cmd
  <2>1. i \in DOMAIN queue
    BY <1>1, <1>4, <1>9
  <2>2. CASE j \in DOMAIN queue
    BY <1>1, <1>9, <2>1, <2>2 DEF Order
  <2>3. CASE j \notin DOMAIN queue
    <3>1. At(j)'.cmd = c /\ At(i)'.cmd = At(i).cmd
      BY <1>1, <1>3, <2>1, <2>3
    <3>2. At(i).cmd <= line /\ At(i).cmd \in Nat
      BY <1>5, <2>1 DEF Order
    <3> QED BY <1>2, <3>1, <3>2
  <2> QED BY <2>2, <2>3
<1>10. \A i \in DOMAIN queue' : ~At(i)'.running => Below(ran, At(i)'.cmd) /\ Below(driver, At(i)'.cmd)
  BY <1>1, <1>3, <1>7 DEF Order
<1> QED BY <1>1, <1>8, <1>9, <1>10 DEF Order

\* Every step keeps the order.
LEMMA OrderStep == ASSUME Base, Base', Order, [Next]_vars PROVE Order'
<1>0. line \in Nat
  BY ReaderAssumption DEF Base, Types, ReaderTypes
<1>a. CASE UNCHANGED queueVars /\ UNCHANGED line
  <2>1. SameQueue
    BY <1>a DEF SameQueue, At, queueVars, requests
  <2>2. UNCHANGED << sg, ran, driver, answers >> /\ line <= line'
    BY <1>0, <1>a DEF queueVars, device
  <2> QED BY <2>1, <2>2, OrderKept
<1>1. CASE Process
  <2>1. CASE StartWait
    <3>1. SameQueue
      BY <2>1 DEF SameQueue, At, StartWait, req_wait, requests
    <3>2. UNCHANGED << sg, ran, driver, answers >> /\ line <= line'
      BY <1>0, <2>1 DEF StartWait, req_wait, device
    <3> QED BY <3>1, <3>2, OrderKept
  <2>2. CASE StartEnter
    <3>1. PICK c : c = line + 1
      OBVIOUS
    <3>2. CASE req_enter(c)
      BY <2>2, <3>1, <3>2, OrderEntered
    <3>3. CASE req_enter_no_mem(c)
      <4>1. SameQueue
        BY <3>3 DEF SameQueue, At, req_enter_no_mem, requests
      <4>2. UNCHANGED << sg, ran, driver, answers >>
        BY <3>3 DEF req_enter_no_mem, device
      <4>3. line <= line'
        <5>1. line' \in Nat
          BY ReaderAssumption DEF Base, Types, ReaderTypes
        <5> QED BY <2>2, <5>1, LineGrows
      <4> QED BY <4>1, <4>2, <4>3, OrderKept
    <3> QED BY <2>2, <3>1, <3>2, <3>3 DEF StartEnter
  <2> QED BY <1>1, <1>a, <2>1, <2>2 DEF Process, BlockStart, AllRead, NotReady, Waited, Entered,
             NothingToEnter, HandlerExits
<1>2. CASE InQueue
  <2>0. UNCHANGED reader /\ QueueStep /\ UNCHANGED line /\ line <= line'
    BY <1>0, <1>2 DEF InQueue, reader
  <2>1. CASE AttemptTaken
    BY <2>0, <2>1, OrderTaken
  <2>2. CASE AttemptAgain \/ AttemptLater
    <3>1. SameQueue /\ UNCHANGED << sg, ran, driver, answers >>
      BY <2>2, PutOffFacts DEF SameQueue
    <3> QED BY <2>0, <3>1, OrderKept
  <2>3. CASE AttemptRefused
    <3>1. UNCHANGED << sg, queue, ran, driver, answers >>
          /\ \A i \in DOMAIN queue : /\ At(i)'.cmd = At(i).cmd
                                     /\ i # fn.rp => At(i)' = At(i)
      BY <2>3, RefusedFacts
    <3>2. fn.rp \in DOMAIN queue /\ ~At(fn.rp).running
      BY <2>3, LoopFacts DEF AttemptRefused
    <3>3. SameQueue
      BY <3>1, <3>2 DEF SameQueue
    <3> QED BY <2>0, <3>1, <3>3, OrderKept
  <2>4. CASE EnterReturns \/ WaitOver
    <3>1. UNCHANGED << sg, queue, req, ran, driver, answers >>
      BY <2>4 DEF EnterReturns, WaitOver, requests, device
    <3>2. SameQueue
      BY <3>1 DEF SameQueue, At
    <3> QED BY <2>0, <3>1, <3>2, OrderKept
  <2>5. CASE WaitRead \/ WaitInterrupted \/ WaitSG3
    <3>1. /\ Running /\ req' = [req EXCEPT ![fn.id].done = TRUE]
          /\ UNCHANGED << sg, queue, ran, driver >>
          /\ sg = 3 => answers' = answers
      BY <2>5 DEF WaitRead, WaitInterrupted, WaitSG3, device
    <3>2. SameQueue
      BY <3>1, HeadDone DEF SameQueue
    <3> QED BY <2>0, <3>1, <3>2, OrderKept
  <2>6. CASE WaitReturns
    <3>1. /\ queue' = Tail(queue) /\ free' = << fn.id >> \o free /\ fn.op = "wait"
          /\ UNCHANGED << sg, req, ran, driver, answers >>
      BY <2>6 DEF WaitReturns, device
    <3>2. Len(queue) > 0 /\ fn.id = queue[1]
      BY <3>1 DEF Base, Calls
    <3> QED BY <2>0, <3>1, <3>2, OrderReleased
  <2>7. CASE Flush
    <3>1. /\ queue # << >> /\ queue' = Tail(queue) /\ free' = << Head(queue) >> \o free
          /\ UNCHANGED << sg, req, ran, driver >>
      BY <2>7 DEF Flush, FlushIdle, FlushRead, FlushTimeout, Flushing, Released
    <3>2. Len(queue) > 0 /\ Head(queue) = queue[1]
      BY <3>1 DEF Base, Types, QueueTypes
    <3>3. sg = 3 => answers' = answers
      BY <2>7 DEF Flush, FlushIdle, FlushRead, FlushTimeout, Order
    <3> QED BY <2>0, <3>1, <3>2, <3>3, OrderReleased
  <2> QED BY <2>0, <2>1, <2>2, <2>3, <2>4, <2>5, <2>6, <2>7 DEF QueueStep, issue
<1>3. CASE DeviceAnswers /\ UNCHANGED reader
  BY <1>3, OrderAnswers
<1>4. CASE Kill \/ UNCHANGED vars
  BY <1>4, <1>a DEF Kill, vars, reader
<1>5. CASE sigterm_handler
  <2>1. UNCHANGED << sg, queue, req, ran, driver, answers, line >>
    BY <1>5 DEF sigterm_handler, flush_all, requests, device
  <2>2. SameQueue /\ line <= line'
    BY <1>0, <2>1 DEF SameQueue, At
  <2> QED BY <2>1, <2>2, OrderKept
<1> QED BY <1>1, <1>2, <1>3, <1>4, <1>5 DEF Next, Terminated

(***************************************************************************)
(* In every reachable state what has run, what the driver has and what     *)
(* still waits in the queue are in the order of the lines.                 *)
(***************************************************************************)
THEOREM OrderHolds == Spec => []Order
<1>1. ReaderInit => Order
  BY InitOrder
<1>2. Base /\ Base' /\ Order /\ [Next]_vars => Order'
  BY OrderStep
<1> QED BY <1>1, <1>2, BaseHolds, PTL DEF Spec

(***************************************************************************)
(* The scanner executes the commands in the order in which reader_process  *)
(* entered them and none twice, whatever the driver refuses.               *)
(***************************************************************************)
THEOREM RunsHold == Spec => []RunsInOrder
<1>1. Order => RunsInOrder
  BY DEF Order, Sorted, RunsInOrder
<1> QED BY <1>1, OrderHolds, PTL

-------------------------------------------------------------------------------
(* What the ends of a wait and of a flush leave behind.                    *)

\* What the end of a wait leaves behind: st and got as given, the head done.
Finished(st, got) ==
  /\ Running /\ 1 \in DOMAIN queue /\ fn.id = queue[1]
  /\ UNCHANGED << sg, max, queue, free, ret, driver, ran >>
  /\ fn'.op = "wait" /\ fn'.pc = "issueNext" /\ fn'.st = st /\ fn'.got = got
  /\ \A i \in DOMAIN queue : /\ At(i)'.cmd = At(i).cmd
                             /\ At(i)'.running <=> At(i).running
                             /\ At(i)'.done <=> At(i).done \/ i = 1
                             /\ At(i)'.status = At(i).status

\* Marking the head as done ends the wait.
LEMMA FinishedBy ==
  ASSUME Base, Running, UNCHANGED reader, NEW f \in CallsOfQueue, f.op = fn.op, f.id = fn.id,
         UNCHANGED << sg, max, queue, free, ret, driver, ran >>, used' \in Int,
         req' = [req EXCEPT ![fn.id].done = TRUE], fn' = IssueNext(f, req')
  PROVE  Finished(f.st, f.got)
<1>1. /\ req' \in [Node -> Requests]
      /\ 1 \in DOMAIN queue /\ fn.id = queue[1]
      /\ \A i \in DOMAIN queue : /\ At(i)'.cmd = At(i).cmd
                                 /\ At(i)'.running <=> At(i).running
                                 /\ At(i)'.done <=> At(i).done \/ i = 1
                                 /\ At(i)'.status = At(i).status
  BY HeadDone
<1>2. Issued(fn', f, next, "issueNext", queue', req')
  BY <1>1, AfterWait
<1>3. fn'.op = fn.op /\ fn'.pc = "issueNext" /\ fn'.st = f.st /\ fn'.got = f.got
  BY <1>2 DEF Issued
<1>4. fn.op = "wait"
  BY DEF Running
<1> QED BY <1>1, <1>3, <1>4 DEF Finished

\* The wait ends at once: the command was done.
LEMMA WaitOverView ==
  ASSUME Base, WaitOver, UNCHANGED reader
  PROVE  /\ Finished("own", fn.got) /\ At(1).done
         /\ UNCHANGED << used, answers, mishaps >>
<1> DEFINE f == [fn EXCEPT !.st = "own"]
<1>0. /\ Running /\ fn' = IssueNext(f, req') /\ req[fn.id].done
      /\ UNCHANGED << sg, max, queue, free, req, used, ret, driver, answers, ran, mishaps >>
  BY DEF WaitOver, requests, device
<1>1. f \in CallsOfQueue /\ f.op = fn.op /\ f.id = fn.id /\ f.st = "own" /\ f.got = fn.got
  BY DEF Base, Types, QueueTypes, CallsOfQueue, Statuses
<1> HIDE DEF f
<1>2. req' \in [Node -> Requests] /\ used' \in Int
      /\ \A i \in DOMAIN queue : At(i)'.running <=> At(i).running
  BY <1>0 DEF At, Base, Types, QueueTypes
<1>3. Issued(fn', f, next, "issueNext", queue', req')
  BY <1>0, <1>1, <1>2, AfterWait
<1>4. fn'.op = "wait" /\ fn'.pc = "issueNext" /\ fn'.st = "own" /\ fn'.got = fn.got
  BY <1>0, <1>1, <1>3 DEF Issued, Running
<1>5. queue \in Seq(Node) /\ Len(queue) > 0 /\ fn.id = queue[1]
  BY <1>0 DEF Running, Base, Calls, Types, QueueTypes
<1>6. 1 \in DOMAIN queue /\ At(1).done /\ \A i \in DOMAIN queue : At(i)' = At(i)
  BY <1>0, <1>5 DEF At
<1> QED BY <1>0, <1>4, <1>5, <1>6 DEF Finished

\* The wait ends with the first answer.
LEMMA WaitReadView ==
  ASSUME Base, WaitRead, UNCHANGED reader
  PROVE  /\ \E st \in {"good", "io_error", "busy"} : Finished(st, Head(answers))
         /\ ~At(1).done /\ sg = 2 /\ answers # << >> /\ answers' = Tail(answers)
         /\ used' = used - 1 /\ UNCHANGED mishaps
<1>0. /\ Running /\ ~req[fn.id].done /\ sg = 2 /\ answers # << >> /\ answers' = Tail(answers)
      /\ req' = [req EXCEPT ![fn.id].done = TRUE] /\ used' = used - 1
      /\ UNCHANGED << sg, max, queue, free, ret, driver, ran, mishaps >>
  BY DEF WaitRead
<1>1. PICK st \in {"good", "io_error", "busy"} :
        fn' = IssueNext([fn EXCEPT !.st = st, !.got = Head(answers)], req')
  BY DEF WaitRead
<1>2. Head(answers) \in Nat
  BY <1>0 DEF Base, Types, DeviceTypes
<1> DEFINE f == [fn EXCEPT !.st = st, !.got = Head(answers)]
<1>3. /\ f \in CallsOfQueue /\ f.op = fn.op /\ f.id = fn.id /\ fn' = IssueNext(f, req')
      /\ f.st = st /\ f.got = Head(answers)
  BY <1>1, <1>2 DEF Base, Types, QueueTypes, CallsOfQueue, Statuses
<1> HIDE DEF f
<1>4. used' \in Int
  BY <1>0 DEF Base, Types, QueueTypes
<1>5. Finished(st, Head(answers))
  <2>1. Finished(f.st, f.got)
    BY <1>0, <1>3, <1>4, FinishedBy
  <2> QED BY <1>3, <2>1
<1>6. ~At(1).done
  BY <1>0, <1>5 DEF At, Finished
<1> QED BY <1>0, <1>1, <1>5, <1>6

\* The wait ends without an answer.
LEMMA WaitInterruptedView ==
  ASSUME Base, WaitInterrupted, UNCHANGED reader
  PROVE  /\ Finished("io_error", fn.got)
         /\ ~At(1).done /\ sg = 2 /\ answers = << >> /\ answers' = answers
         /\ used' = used - 1 /\ mishaps' = mishaps \cup {"interrupt"}
<1> DEFINE f == [fn EXCEPT !.st = "io_error"]
<1>0. /\ Running /\ ~req[fn.id].done /\ sg = 2 /\ answers = << >> /\ fn' = IssueNext(f, req')
      /\ req' = [req EXCEPT ![fn.id].done = TRUE] /\ used' = used - 1
      /\ UNCHANGED << sg, max, queue, free, ret, driver, answers, ran >>
      /\ mishaps' = mishaps \cup {"interrupt"}
  BY DEF WaitInterrupted, device, Went
<1>1. /\ f \in CallsOfQueue /\ f.op = fn.op /\ f.id = fn.id
      /\ f.st = "io_error" /\ f.got = fn.got
  BY DEF Base, Types, QueueTypes, CallsOfQueue, Statuses
<1> HIDE DEF f
<1>2. used' \in Int
  BY <1>0 DEF Base, Types, QueueTypes
<1>3. Finished("io_error", fn.got)
  <2>1. Finished(f.st, f.got)
    BY <1>0, <1>1, <1>2, FinishedBy
  <2> QED BY <1>1, <2>1
<1>4. ~At(1).done
  BY <1>0, <1>3 DEF At, Finished
<1> QED BY <1>0, <1>3, <1>4

\* The wait ends with what the ioctl left in the header.
LEMMA WaitSG3View ==
  ASSUME Base, WaitSG3, UNCHANGED reader
  PROVE  /\ \E st \in {"good", "io_error", "busy"} : Finished(st, fn.got)
         /\ ~At(1).done /\ sg = 3 /\ answers' = answers
         /\ used' = used - 1 /\ UNCHANGED mishaps
<1>0. /\ Running /\ ~req[fn.id].done /\ sg = 3
      /\ req' = [req EXCEPT ![fn.id].done = TRUE] /\ used' = used - 1
      /\ UNCHANGED << sg, max, queue, free, ret, driver, answers, ran, mishaps >>
  BY DEF WaitSG3, device
<1>1. PICK st \in {"good", "io_error", "busy"} : fn' = IssueNext([fn EXCEPT !.st = st], req')
  BY DEF WaitSG3
<1> DEFINE f == [fn EXCEPT !.st = st]
<1>2. /\ f \in CallsOfQueue /\ f.op = fn.op /\ f.id = fn.id /\ fn' = IssueNext(f, req')
      /\ f.st = st /\ f.got = fn.got
  BY <1>1 DEF Base, Types, QueueTypes, CallsOfQueue, Statuses
<1> HIDE DEF f
<1>3. used' \in Int
  BY <1>0 DEF Base, Types, QueueTypes
<1>4. Finished(st, fn.got)
  <2>1. Finished(f.st, f.got)
    BY <1>0, <1>2, <1>3, FinishedBy
  <2> QED BY <1>2, <2>1
<1>5. ~At(1).done
  BY <1>0, <1>4 DEF At, Finished
<1> QED BY <1>0, <1>1, <1>4, <1>5

\* sanei_scsi_req_wait returns and takes the head off the queue.
LEMMA WaitReturnsView ==
  ASSUME Base, WaitReturns, UNCHANGED reader
  PROVE  /\ fn.op = "wait" /\ fn.pc = "issueNext" /\ fn'.op = "none" /\ fn'.pc = "none" /\ fn'.rp = 0
         /\ 1 \in DOMAIN queue /\ Len(queue') = Len(queue) - 1
         /\ \A i \in DOMAIN queue' : i = 1 /\ i + 1 \in DOMAIN queue /\ At(i)' = At(i + 1)
         /\ ret'.got = IF sg = 3 /\ At(1).running THEN At(1).cmd ELSE fn.got
         /\ ret'.status = IF fn.st = "own" THEN At(1).status ELSE fn.st
         /\ rpc = "wait"
         /\ UNCHANGED << sg, max, used, driver, answers, ran, mishaps >>
<1>0. /\ fn.op = "wait" /\ fn.pc = "issueNext"
      /\ queue' = Tail(queue) /\ free' = << fn.id >> \o free /\ fn' = NoFn
      /\ ret' = [op |-> "wait", cmd |-> req[fn.id].cmd,
             got |-> IF sg = 3 /\ req[fn.id].running THEN req[fn.id].cmd ELSE fn.got,
             status |-> IF fn.st = "own" THEN req[fn.id].status ELSE fn.st]
      /\ UNCHANGED << sg, max, req, used, driver, answers, ran, mishaps >>
  BY DEF WaitReturns, device
<1>1. Len(queue) > 0 /\ fn.id = queue[1] /\ queue \in Seq(Node) /\ rpc = "wait"
  BY <1>0 DEF Base, Calls, Types, QueueTypes, ReaderTypes, Places
<1>2. /\ Len(queue') = Len(queue) - 1
      /\ \A i \in DOMAIN queue' : i = 1 /\ i + 1 \in DOMAIN queue /\ queue'[i] = queue[i + 1]
  BY <1>0, <1>1, ReleaseHead
<1>3. \A i \in DOMAIN queue' : i = 1 /\ i + 1 \in DOMAIN queue /\ At(i)' = At(i + 1)
  BY <1>0, <1>2 DEF At
<1>4. 1 \in DOMAIN queue /\ fn.id = queue[1]
  BY <1>1
<1>5. /\ ret'.got = IF sg = 3 /\ At(1).running THEN At(1).cmd ELSE fn.got
      /\ ret'.status = IF fn.st = "own" THEN At(1).status ELSE fn.st
  BY <1>0, <1>4 DEF At
<1> QED BY <1>0, <1>1, <1>2, <1>3, <1>4, <1>5, NoFnFacts

\* The signal handler takes the head off the queue.
LEMMA FlushView ==
  ASSUME Base, Flush, UNCHANGED reader, rpc # "exited"
  PROVE  /\ rpc = "flush" /\ rpc' = "flush" /\ fn' = fn /\ fn.op = "flush" /\ fn.pc = "none" /\ fn.rp = 0
         /\ 1 \in DOMAIN queue /\ Len(queue') = Len(queue) - 1
         /\ \A i \in DOMAIN queue' : i = 1 /\ i + 1 \in DOMAIN queue /\ At(i)' = At(i + 1)
         /\ UNCHANGED << sg, max, ret, driver, ran >>
         /\ \/ ~(At(1).running /\ ~At(1).done) /\ UNCHANGED << used, answers, mishaps >>
            \/ /\ At(1).running /\ ~At(1).done /\ answers # << >> /\ answers' = Tail(answers)
               /\ used' = used - 1 /\ UNCHANGED mishaps
            \/ /\ At(1).running /\ ~At(1).done /\ answers = << >> /\ answers' = answers
               /\ used' = used - 1
               /\ mishaps' = IF sg = 2 THEN mishaps \cup {"timeout"} ELSE mishaps
<1>0. /\ fn.op = "flush" /\ queue # << >> /\ queue' = Tail(queue)
      /\ free' = << Head(queue) >> \o free
      /\ UNCHANGED << sg, max, req, fn, ret, driver, ran >>
  BY DEF Flush, FlushIdle, FlushRead, FlushTimeout, Flushing, Released
<1>1. /\ rpc = "flush" /\ rpc' = rpc /\ Len(queue) > 0 /\ Head(queue) = queue[1]
      /\ queue \in Seq(Node) /\ fn.pc = "none" /\ fn.rp = 0
  BY <1>0 DEF Base, Calls, Types, ReaderTypes, QueueTypes, Places, reader, Prefix, Issuing
<1>2. /\ Len(queue') = Len(queue) - 1
      /\ \A i \in DOMAIN queue' : i = 1 /\ i + 1 \in DOMAIN queue /\ queue'[i] = queue[i + 1]
  BY <1>0, <1>1, ReleaseHead
<1>3. \A i \in DOMAIN queue' : i = 1 /\ i + 1 \in DOMAIN queue /\ At(i)' = At(i + 1)
  BY <1>0, <1>2 DEF At
<1>4. Pending <=> At(1).running /\ ~At(1).done
  BY <1>1 DEF Pending, At
<1>5. \/ ~Pending /\ UNCHANGED << used, answers, mishaps >>
      \/ /\ Pending /\ answers # << >> /\ answers' = Tail(answers)
         /\ used' = used - 1 /\ UNCHANGED mishaps
      \/ /\ Pending /\ answers = << >> /\ answers' = answers
         /\ used' = used - 1
         /\ mishaps' = IF sg = 2 THEN mishaps \cup {"timeout"} ELSE mishaps
  BY DEF Flush, FlushIdle, FlushRead, FlushTimeout, Went
<1>6. 1 \in DOMAIN queue
  BY <1>1
<1> QED BY <1>0, <1>1, <1>2, <1>3, <1>4, <1>5, <1>6

-------------------------------------------------------------------------------
(* After an answer that was missed.                                        *)

\* The command whose wait is over is done.
HeadFinished == fn.pc = "issueNext" => At(1).done

\* An answer did not come in time, or select was interrupted.
Missed == "timeout" \in mishaps \/ "interrupt" \in mishaps

\* After an answer that was missed the reader writes no more.
Doomed ==
  Missed =>
    \/ rpc \in {"flush", "exited"}
    \/ /\ rpc = "wait" /\ "timeout" \notin mishaps
       /\ IF Idle THEN ret.status # "good" ELSE fn.pc = "issueNext" /\ fn.st = "io_error"

Fate == HeadFinished /\ Doomed

\* Nothing is done or missed at first.
LEMMA InitFate == ASSUME ReaderInit PROVE Fate
BY NoFnFacts DEF ReaderInit, Init, Fate, HeadFinished, Doomed, Missed

\* Steps of reader_process that do not call the queue.
ReaderStep == \/ BlockStart \/ AllRead \/ NotReady \/ Waited \/ Entered
              \/ NothingToEnter \/ HandlerExits \/ Kill \/ UNCHANGED vars

\* The steps, with what each leaves alone.
LEMMA StepCases ==
  ASSUME Base, [Next]_vars
  PROVE  \/ ReaderStep /\ UNCHANGED queueVars
         \/ StartWait
         \/ \E c : StartEnter /\ c = line + 1 /\ (req_enter(c) \/ req_enter_no_mem(c))
         \/ sigterm_handler
         \/ UNCHANGED reader /\ AttemptTaken
         \/ UNCHANGED reader /\ (AttemptAgain \/ AttemptLater)
         \/ UNCHANGED reader /\ AttemptRefused
         \/ UNCHANGED reader /\ EnterReturns
         \/ UNCHANGED reader /\ WaitOver
         \/ UNCHANGED reader /\ WaitRead
         \/ UNCHANGED reader /\ WaitInterrupted
         \/ UNCHANGED reader /\ WaitSG3
         \/ UNCHANGED reader /\ WaitReturns
         \/ UNCHANGED reader /\ rpc # "exited" /\ Flush
         \/ UNCHANGED reader /\ DeviceAnswers
<1>1. CASE Process
  <2>1. CASE StartWait
    BY <2>1
  <2>2. CASE StartEnter
    <3>1. PICK c : c = line + 1
      OBVIOUS
    <3>2. req_enter(c) \/ req_enter_no_mem(c)
      BY <2>2, <3>1 DEF StartEnter
    <3> QED BY <2>2, <3>1, <3>2
  <2>3. CASE ~StartWait /\ ~StartEnter
    <3>1. ReaderStep
      BY <1>1, <2>3 DEF Process, ReaderStep
    <3>2. UNCHANGED queueVars
      BY <1>1, <2>3 DEF Process, BlockStart, AllRead, NotReady, Waited, Entered,
             NothingToEnter, HandlerExits
    <3> QED BY <3>1, <3>2
  <2> QED BY <2>1, <2>2, <2>3
<1>2. CASE InQueue
  BY <1>2 DEF InQueue, QueueStep, issue
<1>3. CASE DeviceAnswers /\ UNCHANGED reader
  BY <1>3
<1>4. CASE Kill
  BY <1>4 DEF Kill, ReaderStep
<1>5. CASE sigterm_handler
  BY <1>5
<1>6. CASE UNCHANGED vars
  BY <1>6 DEF vars, ReaderStep
<1> QED BY <1>1, <1>2, <1>3, <1>4, <1>5, <1>6 DEF Next, Terminated

\* Every step preserves HeadFinished.
LEMMA HeadFinishedStep == ASSUME Base, Base', HeadFinished, [Next]_vars PROVE HeadFinished'
<1>1. ASSUME UNCHANGED << queue, req >>, fn'.pc = fn.pc PROVE HeadFinished'
  BY <1>1 DEF HeadFinished, At
<1>2. ASSUME fn'.pc # "issueNext" PROVE HeadFinished'
  BY <1>2 DEF HeadFinished
<1>3. ASSUME UNCHANGED queue, fn'.pc = fn.pc,
             \A i \in DOMAIN queue : At(i).done => At(i)'.done
      PROVE  HeadFinished'
  <2>1. fn.pc = "issueNext" => 1 \in DOMAIN queue
    BY DEF Base, Calls, Types, QueueTypes
  <2> QED BY <1>3, <2>1 DEF HeadFinished
<1>a. CASE UNCHANGED queueVars
  BY <1>a, <1>1 DEF queueVars, requests
<1>b. CASE StartWait
  <2>1. rpc' = "wait" /\ fn' = Issue([NoFn EXCEPT !.op = "wait", !.id = bstat[bn].id],
                                     bstat[bn].id, "issue", queue, req)
    BY <1>b DEF StartWait, req_wait
  <2>2. fn'.pc = "issue"
    BY <2>1, NoFnFacts DEF Issue, NoFn
  <2> QED BY <2>2, <1>2
<1>c. CASE \E c : StartEnter /\ c = line + 1 /\ (req_enter(c) \/ req_enter_no_mem(c))
  <2>1. PICK c : StartEnter /\ c = line + 1 /\ (req_enter(c) \/ req_enter_no_mem(c))
    BY <1>c
  <2>2. CASE req_enter(c)
    <3>1. fn'.pc = "issue"
      BY <2>1, <2>2, EnterOkView
    <3> QED BY <3>1, <1>2
  <2>3. CASE req_enter_no_mem(c)
    BY <2>3, <1>1 DEF req_enter_no_mem, requests
  <2> QED BY <2>1, <2>2, <2>3
<1>d. CASE sigterm_handler
  <2>1. fn'.pc = "none"
    BY <1>d, NoFnFacts DEF sigterm_handler, flush_all, NoFn
  <2> QED BY <2>1, <1>2
<1>e. CASE AttemptTaken
  BY <1>e, TakenFacts, <1>3 DEF SameCall
<1>f. CASE AttemptAgain \/ AttemptLater
  BY <1>f, PutOffFacts, <1>3 DEF SameCall
<1>g. CASE AttemptRefused
  <2>1. /\ UNCHANGED queue /\ fn'.pc = fn.pc
        /\ \A i \in DOMAIN queue : /\ i # fn.rp => At(i)' = At(i)
                                   /\ i = fn.rp => At(i)'.done
    BY <1>g, RefusedFacts DEF SameCall
  <2> QED BY <2>1, <1>3
<1>h. CASE EnterReturns
  <2>1. fn'.pc = "none"
    BY <1>h DEF EnterReturns, NoFn
  <2> QED BY <2>1, <1>2
<1>i. ASSUME NEW st, NEW got, Finished(st, got) PROVE HeadFinished'
  BY <1>i DEF Finished, HeadFinished
<1>j. CASE UNCHANGED reader /\ WaitOver
  BY <1>j, <1>i, WaitOverView
<1>k. CASE UNCHANGED reader /\ WaitRead
  BY <1>k, <1>i, WaitReadView
<1>l. CASE UNCHANGED reader /\ WaitInterrupted
  BY <1>l, <1>i, WaitInterruptedView
<1>m. CASE UNCHANGED reader /\ WaitSG3
  BY <1>m, <1>i, WaitSG3View
<1>n. CASE UNCHANGED reader /\ WaitReturns
  BY <1>n, <1>2, WaitReturnsView
<1>o. CASE UNCHANGED reader /\ rpc # "exited" /\ Flush
  BY <1>o, <1>2, FlushView
<1>p. CASE DeviceAnswers
  BY <1>p, <1>1 DEF DeviceAnswers, requests
<1> QED BY StepCases, <1>a, <1>b, <1>c, <1>d, <1>e, <1>f, <1>g, <1>h, <1>j, <1>k, <1>l,
           <1>m, <1>n, <1>o, <1>p

\* Every step preserves Doomed.
LEMMA DoomedStep == ASSUME Base, Base', Doomed, [Next]_vars PROVE Doomed'
<1>1. ASSUME UNCHANGED << fn, ret, mishaps >>, rpc' \in {rpc, "exited"} PROVE Doomed'
  BY <1>1 DEF Doomed, Missed, Idle
<1>2. ASSUME ~Missed, UNCHANGED mishaps PROVE Doomed'
  BY <1>2 DEF Doomed, Missed
<1>3. ASSUME UNCHANGED rpc, ret' = ret, fn'.op = fn.op, fn'.pc = fn.pc, fn'.st = fn.st,
             mishaps' \in {mishaps, mishaps \cup {"again"}, mishaps \cup {"error"}}
      PROVE  Doomed'
  BY <1>3 DEF Doomed, Missed, Idle
<1>4. ASSUME Missed, rpc \notin {"flush", "exited", "wait"} PROVE FALSE
  BY <1>4 DEF Doomed
<1>5. ASSUME UNCHANGED mishaps, rpc \notin {"flush", "exited", "wait"} PROVE Doomed'
  BY <1>2, <1>4, <1>5
<1>6. ASSUME Running, UNCHANGED mishaps PROVE Doomed'
  <2>1. ~Idle /\ fn.pc = "issue" /\ rpc \notin {"flush", "exited"}
    BY <1>6 DEF Running, Idle, Base, Calls
  <2>2. ~Missed
    BY <2>1 DEF Doomed
  <2> QED BY <1>6, <1>2, <2>2
<1>a. CASE ReaderStep /\ UNCHANGED queueVars
  <2>1. UNCHANGED << fn, ret, mishaps >>
    BY <1>a DEF queueVars
  <2>2. CASE rpc \notin {"flush", "exited", "wait"}
    BY <2>1, <2>2, <1>5
  <2>3. CASE Waited
    <3>1. Idle
      BY <2>3 DEF Waited
    <3>2. CASE ret.status # "good"
      <4>1. rpc' = "exited"
        BY <2>3, <3>2 DEF Waited, Exit
      <4> QED BY <4>1, <2>1, <1>1
    <3>3. CASE ret.status = "good"
      <4>1. ~Missed
        BY <2>3, <3>1, <3>3 DEF Waited, Doomed
      <4> QED BY <4>1, <2>1, <1>2
    <3> QED BY <3>2, <3>3
  <2>4. CASE ~Waited /\ rpc \in {"flush", "exited", "wait"}
    <3>1. rpc' \in {rpc, "exited"}
      BY <1>a, <2>4 DEF ReaderStep, BlockStart, AllRead, NotReady, Entered, NothingToEnter,
                        HandlerExits, Exit, Kill, vars, reader
    <3> QED BY <3>1, <2>1, <1>1
  <2> QED BY <2>2, <2>3, <2>4
<1>b. CASE StartWait
  <2>1. rpc = "top" /\ UNCHANGED mishaps
    BY <1>b DEF StartWait, req_wait
  <2> QED BY <2>1, <1>5
<1>c. CASE \E c : StartEnter /\ c = line + 1 /\ (req_enter(c) \/ req_enter_no_mem(c))
  <2>1. rpc = "enter" /\ UNCHANGED mishaps
    BY <1>c DEF StartEnter, req_enter, req_enter_no_mem
  <2> QED BY <2>1, <1>5
<1>d. CASE sigterm_handler
  BY <1>d DEF sigterm_handler, Doomed
<1>e. CASE UNCHANGED reader /\ AttemptTaken
  <2>1. SameCall /\ UNCHANGED << ret, mishaps >>
    BY <1>e, TakenFacts
  <2> QED BY <1>e, <2>1, <1>3 DEF reader, SameCall
<1>f. CASE UNCHANGED reader /\ (AttemptAgain \/ AttemptLater)
  <2>1. SameCall /\ UNCHANGED ret /\ (mishaps' = mishaps \/ mishaps' = mishaps \cup {"again"})
    BY <1>f, PutOffFacts
  <2> QED BY <1>f, <2>1, <1>3 DEF reader, SameCall
<1>g. CASE UNCHANGED reader /\ AttemptRefused
  <2>1. SameCall /\ UNCHANGED ret /\ mishaps' = mishaps \cup {"error"}
    BY <1>g, RefusedFacts
  <2> QED BY <1>g, <2>1, <1>3 DEF reader, SameCall
<1>h. CASE EnterReturns
  <2>1. UNCHANGED mishaps /\ rpc = "entering"
    BY <1>h DEF EnterReturns, Base, Calls, Types, ReaderTypes, Places
  <2> QED BY <2>1, <1>5
<1>j. CASE UNCHANGED reader /\ WaitOver
  BY <1>j, <1>6, WaitOverView DEF Finished
<1>k. CASE UNCHANGED reader /\ WaitRead
  BY <1>k, <1>6, WaitReadView DEF Finished
<1>l. CASE UNCHANGED reader /\ WaitInterrupted
  <2>1. Finished("io_error", fn.got) /\ mishaps' = mishaps \cup {"interrupt"} /\ UNCHANGED rpc
    BY <1>l, WaitInterruptedView DEF reader
  <2>2. rpc = "wait" /\ fn.pc = "issue" /\ ~Idle
    BY <2>1 DEF Finished, Running, Base, Calls, Idle, Types, ReaderTypes, Places
  <2>3. "timeout" \notin mishaps
    BY <2>2 DEF Doomed, Missed
  <2> QED BY <2>1, <2>2, <2>3 DEF Finished, Doomed, Idle
<1>m. CASE UNCHANGED reader /\ WaitSG3
  BY <1>m, <1>6, WaitSG3View DEF Finished
<1>n. CASE UNCHANGED reader /\ WaitReturns
  <2>1. /\ fn.op = "wait" /\ fn'.op = "none" /\ UNCHANGED << mishaps, rpc >> /\ rpc = "wait"
        /\ ret'.status = IF fn.st = "own" THEN At(1).status ELSE fn.st
    BY <1>n, WaitReturnsView DEF reader
  <2>2. CASE Missed
    <3>1. fn.st = "io_error" /\ "timeout" \notin mishaps
      BY <2>1, <2>2 DEF Doomed, Idle
    <3> QED BY <2>1, <3>1 DEF Doomed, Idle
  <2>3. CASE ~Missed
    BY <2>1, <2>3, <1>2
  <2> QED BY <2>2, <2>3
<1>o. CASE UNCHANGED reader /\ rpc # "exited" /\ Flush
  BY <1>o, FlushView DEF Doomed
<1>p. CASE UNCHANGED reader /\ DeviceAnswers
  BY <1>p, <1>1 DEF DeviceAnswers, reader
<1> QED BY StepCases, <1>a, <1>b, <1>c, <1>d, <1>e, <1>f, <1>g, <1>h, <1>j, <1>k, <1>l,
           <1>m, <1>n, <1>o, <1>p

(***************************************************************************)
(* The command whose wait is over is done, and once an answer was missed   *)
(* the reader writes nothing more: it is being ended, or returns the       *)
(* error.                                                                  *)
(***************************************************************************)
THEOREM FateHolds == Spec => []Fate
<1>1. ReaderInit => Fate
  BY InitFate
<1>2. Base /\ Base' /\ Fate /\ [Next]_vars => Fate'
  BY HeadFinishedStep, DoomedStep DEF Fate
<1> QED BY <1>1, <1>2, BaseHolds, PTL DEF Spec

-------------------------------------------------------------------------------
(* The answers that are due, with version 2 of the driver.                 *)

\* The driver has the command at place i; the answers still to be read.
InDriver(i) == i \in DOMAIN queue /\ At(i).running /\ ~At(i).done
NInDriver   == (IF InDriver(1) THEN 1 ELSE 0) + (IF InDriver(2) THEN 1 ELSE 0)
Undelivered == answers \o driver

\* Version 2: the answers yet to be read are those of the commands handed out.
Answering ==
  sg = 2 /\ ~Missed =>
    /\ \A i \in DOMAIN queue : At(i).done => At(i).running
    /\ Len(Undelivered) = NInDriver
    /\ InDriver(1) => Undelivered[1] = At(1).cmd
    /\ InDriver(2) => Undelivered[NInDriver] = At(2).cmd

\* An answer is read.
LEMMA UndeliveredTail ==
  ASSUME Base, answers # << >>, answers' = Tail(answers), UNCHANGED driver
  PROVE  /\ Len(Undelivered) \in Nat \ {0} /\ Len(Undelivered') = Len(Undelivered) - 1
         /\ Head(answers) = Undelivered[1]
         /\ \A i \in 1..Len(Undelivered') : Undelivered'[i] = Undelivered[i + 1]
BY DEF Base, Types, DeviceTypes, Undelivered

\* A command is handed to the driver.
LEMMA UndeliveredAppend ==
  ASSUME Base, NEW c \in Nat, driver' = Append(driver, c), UNCHANGED answers
  PROVE  /\ Len(Undelivered) \in Nat /\ Len(Undelivered') = Len(Undelivered) + 1
         /\ \A i \in 1..Len(Undelivered) : Undelivered'[i] = Undelivered[i]
         /\ Undelivered'[Len(Undelivered) + 1] = c
BY DEF Base, Types, DeviceTypes, Undelivered

\* The scanner answers: what is still to be read is the same.
LEMMA UndeliveredMoved ==
  ASSUME Base, driver # << >>, driver' = Tail(driver), answers' = Append(answers, Head(driver))
  PROVE  Undelivered' = Undelivered
<1>1. driver \in Seq(Nat) /\ answers \in Seq(Nat) /\ Head(driver) \in Nat /\ Tail(driver) \in Seq(Nat)
  BY DEF Base, Types, DeviceTypes
<1>2. answers' = answers \o << Head(driver) >> /\ << Head(driver) >> \in Seq(Nat)
  BY <1>1, AppendIsConcat
<1>3. driver = << Head(driver) >> \o Tail(driver)
  BY <1>1
<1>4. (answers \o << Head(driver) >>) \o Tail(driver) = answers \o (<< Head(driver) >> \o Tail(driver))
  BY <1>1, <1>2, ConcatAssociative
<1> QED BY <1>2, <1>3, <1>4 DEF Undelivered

\* No answer is due at first.
LEMMA InitAnswering == ASSUME ReaderInit PROVE Answering
<1>1. queue = << >> /\ answers = << >> /\ driver = << >>
  BY DEF ReaderInit, Init
<1>2. ~InDriver(1) /\ ~InDriver(2)
  BY <1>1 DEF InDriver
<1>3. Len(Undelivered) = 0
  BY <1>1 DEF Undelivered
<1> QED BY <1>1, <1>2, <1>3 DEF Answering, NInDriver

\* Steps that leave the commands with the driver alone.
LEMMA AnsweringKept ==
  ASSUME Answering, UNCHANGED sg, Missed => Missed', Undelivered' = Undelivered,
         InDriver(1)' <=> InDriver(1), InDriver(2)' <=> InDriver(2),
         InDriver(1) => At(1)'.cmd = At(1).cmd, InDriver(2) => At(2)'.cmd = At(2).cmd,
         sg = 2 /\ ~Missed => \A i \in DOMAIN queue' : At(i)'.done => At(i)'.running
  PROVE  Answering'
<1>1. NInDriver' = NInDriver
  BY DEF NInDriver
<1> QED BY <1>1 DEF Answering

\* Steps that leave the queue and the driver alone.
LEMMA AnsweringSame ==
  ASSUME Answering, UNCHANGED << sg, queue, req, answers, driver, mishaps >>
  PROVE  Answering'
BY DEF Answering, Missed, InDriver, NInDriver, Undelivered, At

\* A command is entered; the driver does not have it yet.
LEMMA AnsweringEntered ==
  ASSUME Base, Answering, StartEnter, NEW c, c = line + 1, req_enter(c)
  PROVE  Answering'
<1>1. /\ \A i \in DOMAIN queue : i \in DOMAIN queue' /\ At(i)' = At(i)
      /\ \A i \in DOMAIN queue' :
              \/ i \in DOMAIN queue
              \/ i = Len(queue) + 1 /\ At(i)' = [NoReq EXCEPT !.cmd = c]
      /\ UNCHANGED << sg, driver, answers, mishaps >>
  BY EnterOkView
<1>2. ~[NoReq EXCEPT !.cmd = c].running /\ ~[NoReq EXCEPT !.cmd = c].done
  BY DEF NoReq
<1>3. \A i \in DOMAIN queue' : \/ i \in DOMAIN queue /\ At(i)' = At(i)
                               \/ ~At(i)'.running /\ ~At(i)'.done /\ i \notin DOMAIN queue
  <2> TAKE i \in DOMAIN queue'
  <2>1. CASE i \in DOMAIN queue
    BY <1>1, <2>1
  <2>2. CASE i \notin DOMAIN queue
    BY <1>1, <1>2, <2>2
  <2> QED BY <2>1, <2>2
<1>4. /\ InDriver(1)' <=> InDriver(1)
      /\ InDriver(2)' <=> InDriver(2)
      /\ InDriver(1) => At(1)' = At(1)
      /\ InDriver(2) => At(2)' = At(2)
  BY <1>1, <1>3 DEF InDriver
<1>5. sg = 2 /\ ~Missed => \A i \in DOMAIN queue' : At(i)'.done => At(i)'.running
  BY <1>3 DEF Answering
<1>6. Undelivered' = Undelivered /\ (Missed => Missed')
  BY <1>1 DEF Undelivered, Missed
<1> QED BY <1>1, <1>4, <1>5, <1>6, AnsweringKept

\* The driver takes a command behind all others that it has.
LEMMA AnsweringTaken ==
  ASSUME Base, Base', Answering, AttemptTaken, sg = 2, ~Missed
  PROVE  Answering'
<1> DEFINE c == req[rpNode].cmd
           p == fn.rp
<1>0. /\ p \in DOMAIN queue /\ p \in 1..2 /\ rpNode \in Node
      /\ \A i \in DOMAIN queue : At(i).running <=> i < p
      /\ \A i \in DOMAIN queue : queue[i] \in Node /\ i \in 1..2
  BY LoopFacts DEF AttemptTaken
<1>1. /\ \A i \in DOMAIN queue : /\ At(i)'.cmd = At(i).cmd /\ At(i)'.cmd \in Nat
                                 /\ At(i)'.running <=> At(i).running \/ i = p
                                 /\ At(i)'.done <=> At(i).done
      /\ UNCHANGED << sg, queue, answers, mishaps >>
  BY TakenFacts
<1>2. c = At(p).cmd /\ c \in Nat
  BY <1>0, <1>1 DEF At, rpNode
<1>3. driver' = Append(driver, c)
  BY DEF AttemptTaken
<1> HIDE DEF c, p
<1>4. /\ Len(Undelivered) \in Nat /\ Len(Undelivered') = Len(Undelivered) + 1
      /\ \A i \in 1..Len(Undelivered) : Undelivered'[i] = Undelivered[i]
      /\ Undelivered'[Len(Undelivered) + 1] = c
  BY <1>1, <1>2, <1>3, UndeliveredAppend
<1>5. /\ \A i \in DOMAIN queue : At(i).done => At(i).running
      /\ Len(Undelivered) = NInDriver
      /\ InDriver(1) => Undelivered[1] = At(1).cmd
      /\ InDriver(2) => Undelivered[NInDriver] = At(2).cmd
  BY DEF Answering
<1>6. ~At(p).running /\ ~At(p).done
  BY <1>0, <1>5
<1>7. CASE p = 1
  <2>1. ~InDriver(1) /\ ~InDriver(2) /\ InDriver(1)' /\ ~InDriver(2)'
    BY <1>0, <1>1, <1>6, <1>7 DEF InDriver
  <2>2. NInDriver = 0 /\ NInDriver' = 1
    BY <2>1 DEF NInDriver
  <2> QED BY <1>1, <1>2, <1>4, <1>5, <1>7, <2>1, <2>2, <1>0 DEF Answering
<1>8. CASE p = 2
  <2>1. /\ ~InDriver(2) /\ InDriver(2)' /\ (InDriver(1)' <=> InDriver(1))
        /\ InDriver(1) => 1 \in DOMAIN queue
    BY <1>0, <1>1, <1>6, <1>8 DEF InDriver
  <2>2. NInDriver \in {0, 1} /\ NInDriver' = NInDriver + 1 /\ (InDriver(1) => NInDriver = 1)
    BY <2>1 DEF NInDriver
  <2>3. InDriver(1)' => Undelivered'[1] = At(1)'.cmd
    BY <1>1, <1>4, <1>5, <2>1, <2>2
  <2>4. Undelivered'[NInDriver'] = At(2)'.cmd
    BY <1>0, <1>1, <1>2, <1>4, <1>5, <1>8, <2>2
  <2>5. \A i \in DOMAIN queue' : At(i)'.done => At(i)'.running
    BY <1>1, <1>5
  <2>6. Len(Undelivered') = NInDriver'
    BY <1>4, <1>5, <2>2
  <2> QED BY <2>3, <2>4, <2>5, <2>6 DEF Answering
<1> QED BY <1>0, <1>7, <1>8

\* The head leaves the queue and its answer, if it had one, the driver.
LEMMA AnsweringReleased ==
  ASSUME Base, Answering, sg = 2, ~Missed,
         1 \in DOMAIN queue, Len(queue') = Len(queue) - 1,
         \A i \in DOMAIN queue' : i = 1 /\ i + 1 \in DOMAIN queue /\ At(i)' = At(i + 1),
         queue' \in Seq(Node),
         UNCHANGED << sg, driver >>,
         \/ ~InDriver(1) /\ answers' = answers
         \/ InDriver(1) /\ answers # << >> /\ answers' = Tail(answers)
  PROVE  Answering'
<1>0. queue \in Seq(Node) /\ Len(queue) \in Nat
  BY DEF Base, Types, QueueTypes
<1>1. ~InDriver(2)' /\ (1 \in DOMAIN queue' => At(1)' = At(2) /\ 2 \in DOMAIN queue)
  BY DEF InDriver
<1>2. 2 \in DOMAIN queue => 1 \in DOMAIN queue'
  BY <1>0
<1>3. InDriver(1)' <=> InDriver(2)
  BY <1>1, <1>2 DEF InDriver
<1>4. InDriver(1)' => At(1)'.cmd = At(2).cmd
  BY <1>1 DEF InDriver
<1>5. /\ \A i \in DOMAIN queue : At(i).done => At(i).running
      /\ Len(Undelivered) = NInDriver
      /\ InDriver(1) => Undelivered[1] = At(1).cmd
      /\ InDriver(2) => Undelivered[NInDriver] = At(2).cmd
  BY DEF Answering
<1>6. \A i \in DOMAIN queue' : At(i)'.done => At(i)'.running
  BY <1>5
<1>7. NInDriver' = IF InDriver(2) THEN 1 ELSE 0
  BY <1>1, <1>3 DEF NInDriver
<1>8. CASE ~InDriver(1) /\ answers' = answers
  <2>1. NInDriver = IF InDriver(2) THEN 1 ELSE 0
    BY <1>8 DEF NInDriver
  <2>2. Undelivered' = Undelivered
    BY <1>8 DEF Undelivered
  <2> QED BY <1>1, <1>3, <1>4, <1>5, <1>6, <1>7, <2>1, <2>2 DEF Answering
<1>9. CASE InDriver(1) /\ answers # << >> /\ answers' = Tail(answers)
  <2>1. /\ Len(Undelivered) \in Nat \ {0} /\ Len(Undelivered') = Len(Undelivered) - 1
        /\ \A i \in 1..Len(Undelivered') : Undelivered'[i] = Undelivered[i + 1]
    BY <1>9, UndeliveredTail
  <2>2. NInDriver = IF InDriver(2) THEN 2 ELSE 1
    BY <1>9 DEF NInDriver
  <2>3. Len(Undelivered') = NInDriver'
    BY <1>5, <1>7, <2>1, <2>2
  <2>4. InDriver(2) => Undelivered'[1] = At(2).cmd
    BY <1>5, <1>7, <2>1, <2>2, <2>3
  <2> QED BY <1>1, <1>3, <1>4, <1>6, <2>3, <2>4 DEF Answering
<1> QED BY <1>8, <1>9

\* The first answer is that of the command waited for.
LEMMA AnsweringRead ==
  ASSUME Base, Base', Answering, WaitRead, UNCHANGED reader, ~Missed
  PROVE  Answering' /\ InDriver(1) /\ Head(answers) = At(1).cmd
<1>1. /\ ~At(1).done /\ sg = 2 /\ answers # << >> /\ answers' = Tail(answers) /\ UNCHANGED mishaps
      /\ \E st \in {"good", "io_error", "busy"} : Finished(st, Head(answers))
  BY WaitReadView
<1>2. /\ 1 \in DOMAIN queue /\ UNCHANGED << sg, queue, driver >>
      /\ \A i \in DOMAIN queue : /\ At(i)'.cmd = At(i).cmd
                                 /\ At(i)'.running <=> At(i).running
                                 /\ At(i)'.done <=> At(i).done \/ i = 1
  BY <1>1 DEF Finished
<1>3. /\ Len(Undelivered) \in Nat \ {0} /\ Len(Undelivered') = Len(Undelivered) - 1
      /\ Head(answers) = Undelivered[1]
      /\ \A i \in 1..Len(Undelivered') : Undelivered'[i] = Undelivered[i + 1]
  BY <1>1, <1>2, UndeliveredTail
<1>4. /\ \A i \in DOMAIN queue : At(i).done => At(i).running
      /\ Len(Undelivered) = NInDriver
      /\ InDriver(1) => Undelivered[1] = At(1).cmd
      /\ InDriver(2) => Undelivered[NInDriver] = At(2).cmd
  BY <1>1 DEF Answering
<1>5. InDriver(1)
  <2>1. InDriver(1) \/ InDriver(2)
    BY <1>3, <1>4 DEF NInDriver
  <2>2. InDriver(2) => At(1).running
    BY <1>2 DEF InDriver, Base, Prefix
  <2> QED BY <1>1, <1>2, <2>1, <2>2 DEF InDriver
<1>6. ~InDriver(1)' /\ (InDriver(2)' <=> InDriver(2))
  BY <1>2 DEF InDriver
<1>7. NInDriver' = (IF InDriver(2) THEN 1 ELSE 0) /\ NInDriver = IF InDriver(2) THEN 2 ELSE 1
  BY <1>5, <1>6 DEF NInDriver
<1>8. Len(Undelivered') = NInDriver'
  BY <1>3, <1>4, <1>7
<1>9. InDriver(2)' => Undelivered'[NInDriver'] = At(2)'.cmd
  <2>1. InDriver(2) => At(2)'.cmd = At(2).cmd
    BY <1>2 DEF InDriver
  <2> QED BY <1>3, <1>4, <1>6, <1>7, <1>8, <2>1
<1>10. \A i \in DOMAIN queue' : At(i)'.done => At(i)'.running
  BY <1>2, <1>4, <1>5 DEF InDriver
<1> QED BY <1>3, <1>4, <1>5, <1>6, <1>8, <1>9, <1>10 DEF Answering

\* An answer missed stays missed.
LEMMA MissedGrows ==
  ASSUME NEW m, mishaps' = mishaps \/ mishaps' = mishaps \cup {m} PROVE Missed => Missed'
BY DEF Missed

\* Every step preserves Answering.
LEMMA AnsweringStep ==
  ASSUME Base, Base', Fate, Answering, [Next]_vars PROVE Answering'
<1>1. ASSUME sg # 2, UNCHANGED sg PROVE Answering'
  BY <1>1 DEF Answering
<1>2. ASSUME Missed, Missed' PROVE Answering'
  BY <1>2 DEF Answering
<1>3. queue' \in Seq(Node) /\ sg \in {2, 3}
  BY DEF Base, Types, QueueTypes
<1>a. CASE UNCHANGED queueVars
  BY <1>a, AnsweringSame DEF queueVars, requests, device
<1>b. CASE StartWait
  BY <1>b, AnsweringSame DEF StartWait, req_wait, requests, device
<1>c. CASE \E c : StartEnter /\ c = line + 1 /\ (req_enter(c) \/ req_enter_no_mem(c))
  <2>1. PICK c : StartEnter /\ c = line + 1 /\ (req_enter(c) \/ req_enter_no_mem(c))
    BY <1>c
  <2>2. CASE req_enter(c)
    BY <2>1, <2>2, AnsweringEntered
  <2>3. CASE req_enter_no_mem(c)
    BY <2>3, AnsweringSame DEF req_enter_no_mem, requests, device
  <2> QED BY <2>1, <2>2, <2>3
<1>d. CASE sigterm_handler
  BY <1>d, AnsweringSame DEF sigterm_handler, flush_all, requests, device
<1>e. CASE AttemptTaken
  <2>1. UNCHANGED << sg, mishaps >>
    BY <1>e, TakenFacts
  <2>2. CASE sg = 2 /\ ~Missed
    BY <1>e, <2>2, AnsweringTaken
  <2>3. CASE ~(sg = 2 /\ ~Missed)
    BY <2>1, <2>3 DEF Answering, Missed
  <2> QED BY <2>2, <2>3
<1>f. CASE AttemptAgain \/ AttemptLater
  <2>1. /\ \A i \in DOMAIN queue : /\ At(i)'.cmd = At(i).cmd
                                   /\ At(i)'.running <=> At(i).running
                                   /\ At(i)'.done <=> At(i).done
        /\ UNCHANGED << sg, queue, driver, answers >>
        /\ mishaps' = mishaps \/ mishaps' = mishaps \cup {"again"}
    BY <1>f, PutOffFacts
  <2>2. (InDriver(1)' <=> InDriver(1)) /\ (InDriver(2)' <=> InDriver(2))
    BY <2>1 DEF InDriver
  <2>3. (InDriver(1) => At(1)'.cmd = At(1).cmd) /\ (InDriver(2) => At(2)'.cmd = At(2).cmd)
    BY <2>1 DEF InDriver
  <2>4. Undelivered' = Undelivered
    BY <2>1 DEF Undelivered
  <2>5. sg = 2 /\ ~Missed => \A i \in DOMAIN queue' : At(i)'.done => At(i)'.running
    BY <2>1 DEF Answering
  <2> QED BY <2>1, <2>2, <2>3, <2>4, <2>5, MissedGrows, AnsweringKept
<1>g. CASE AttemptRefused
  <2>1. /\ \A i \in DOMAIN queue :
              /\ At(i)'.cmd = At(i).cmd
              /\ i # fn.rp => At(i)' = At(i)
              /\ i = fn.rp => /\ At(i)'.running <=> sg = 2
                              /\ At(i)'.done
        /\ UNCHANGED << sg, queue, driver, answers >>
        /\ mishaps' = mishaps \cup {"error"}
    BY <1>g, RefusedFacts
  <2>2. \A i \in DOMAIN queue : i = fn.rp => ~At(i).running
    BY <1>g, LoopFacts DEF AttemptRefused
  <2>3. CASE sg = 2
    <3>1. (InDriver(1)' <=> InDriver(1)) /\ (InDriver(2)' <=> InDriver(2))
      BY <2>1, <2>2 DEF InDriver
    <3>2. (InDriver(1) => At(1)'.cmd = At(1).cmd) /\ (InDriver(2) => At(2)'.cmd = At(2).cmd)
      BY <2>1 DEF InDriver
    <3>3. Undelivered' = Undelivered
      BY <2>1 DEF Undelivered
    <3>4. sg = 2 /\ ~Missed => \A i \in DOMAIN queue' : At(i)'.done => At(i)'.running
      BY <2>1, <2>3 DEF Answering
    <3> QED BY <2>1, <3>1, <3>2, <3>3, <3>4, MissedGrows, AnsweringKept
  <2>4. CASE sg # 2
    BY <2>1, <2>4, <1>1
  <2> QED BY <2>3, <2>4
<1>h. CASE EnterReturns \/ WaitOver
  BY <1>h, AnsweringSame DEF EnterReturns, WaitOver, requests, device
<1>k. CASE UNCHANGED reader /\ WaitRead
  <2>1. UNCHANGED mishaps
    BY <1>k DEF WaitRead
  <2>2. CASE Missed
    BY <2>1, <2>2, <1>2 DEF Missed
  <2>3. CASE ~Missed
    BY <1>k, <2>3, AnsweringRead
  <2> QED BY <2>2, <2>3
<1>l. CASE UNCHANGED reader /\ WaitInterrupted
  <2>1. Missed'
    BY <1>l, WaitInterruptedView DEF Missed
  <2> QED BY <2>1 DEF Answering
<1>m. CASE UNCHANGED reader /\ WaitSG3
  <2>1. sg = 3 /\ UNCHANGED sg
    BY <1>m DEF WaitSG3
  <2> QED BY <2>1, <1>1
<1>n. CASE UNCHANGED reader /\ WaitReturns
  <2>1. /\ fn.pc = "issueNext" /\ 1 \in DOMAIN queue /\ Len(queue') = Len(queue) - 1
        /\ \A i \in DOMAIN queue' : i = 1 /\ i + 1 \in DOMAIN queue /\ At(i)' = At(i + 1)
        /\ UNCHANGED << sg, driver, answers, mishaps >>
    BY <1>n, WaitReturnsView
  <2>2. ~InDriver(1)
    BY <2>1 DEF Fate, HeadFinished, InDriver
  <2>3. CASE sg = 2 /\ ~Missed
    BY <2>1, <2>2, <2>3, <1>3, AnsweringReleased
  <2>4. CASE ~(sg = 2 /\ ~Missed)
    BY <2>1, <2>4 DEF Answering, Missed
  <2> QED BY <2>3, <2>4
<1>o. CASE UNCHANGED reader /\ rpc # "exited" /\ Flush
  <2>1. /\ 1 \in DOMAIN queue /\ Len(queue') = Len(queue) - 1
        /\ \A i \in DOMAIN queue' : i = 1 /\ i + 1 \in DOMAIN queue /\ At(i)' = At(i + 1)
        /\ UNCHANGED << sg, driver >>
        /\ \/ ~(At(1).running /\ ~At(1).done) /\ UNCHANGED << answers, mishaps >>
           \/ /\ At(1).running /\ ~At(1).done /\ answers # << >> /\ answers' = Tail(answers)
              /\ UNCHANGED mishaps
           \/ mishaps' = IF sg = 2 THEN mishaps \cup {"timeout"} ELSE mishaps
    BY <1>o, FlushView
  <2>2. CASE sg = 2 /\ ~Missed'
    <3>1. \/ ~InDriver(1) /\ answers' = answers /\ UNCHANGED mishaps
          \/ InDriver(1) /\ answers # << >> /\ answers' = Tail(answers) /\ UNCHANGED mishaps
      BY <2>1, <2>2 DEF InDriver, Missed
    <3>2. ~Missed
      BY <2>2, <3>1 DEF Missed
    <3> QED BY <2>1, <2>2, <3>1, <3>2, <1>3, AnsweringReleased
  <2>3. CASE ~(sg = 2 /\ ~Missed')
    BY <2>1, <2>3 DEF Answering
  <2> QED BY <2>2, <2>3
<1>p. CASE DeviceAnswers
  <2>1. /\ driver # << >> /\ driver' = Tail(driver) /\ answers' = Append(answers, Head(driver))
        /\ UNCHANGED << sg, queue, req, mishaps >>
    BY <1>p DEF DeviceAnswers, requests
  <2>2. Undelivered' = Undelivered
    BY <2>1, UndeliveredMoved
  <2> QED BY <2>1, <2>2 DEF Answering, Missed, InDriver, NInDriver, At
<1> QED BY StepCases, <1>a, <1>b, <1>c, <1>d, <1>e, <1>f, <1>g, <1>h, <1>k, <1>l,
           <1>m, <1>n, <1>o, <1>p

(***************************************************************************)
(* With version 2 of the driver, and as long as no answer was missed, the  *)
(* answers still to be read are those of the commands that the queue has   *)
(* with the driver, in order.                                              *)
(***************************************************************************)
THEOREM AnsweringHolds == Spec => []Answering
<1>1. ReaderInit => Answering
  BY InitAnswering
<1>2. Base /\ Base' /\ Fate /\ Answering /\ [Next]_vars => Answering'
  BY AnsweringStep
<1> QED BY <1>1, <1>2, BaseHolds, FateHolds, PTL DEF Spec

(***************************************************************************)
(* A reader ended by SIGTERM has fetched every answer:                     *)
(* sanei_scsi_req_flush_all leaves nothing with the driver, unless an      *)
(* answer did not come.                                                    *)
(***************************************************************************)
THEOREM NonePending == Spec => []NothingPending
<1>1. Base /\ Order /\ Answering => NothingPending
  <2> SUFFICES ASSUME Base, Order, Answering, result = "killed",
                      mishaps \cap {"timeout", "interrupt"} = {}
               PROVE  driver = << >> /\ answers = << >>
    BY DEF NothingPending
  <2>1. Len(queue) = 0 /\ ~Missed /\ sg \in {2, 3} /\ queue \in Seq(Node)
    BY DEF Base, Calls, Missed, Types, QueueTypes
  <2>2. CASE sg = 2
    <3>1. ~InDriver(1) /\ ~InDriver(2)
      BY <2>1 DEF InDriver
    <3>2. Len(Undelivered) = 0
      BY <2>1, <2>2, <3>1 DEF Answering, NInDriver
    <3>3. driver \in Seq(Nat) /\ answers \in Seq(Nat)
      BY DEF Base, Types, DeviceTypes
    <3>4. Len(answers) + Len(driver) = 0
      BY <3>2, <3>3, ConcatProperties DEF Undelivered
    <3> QED BY <3>3, <3>4
  <2>3. CASE sg = 3
    BY <2>3 DEF Order
  <2> QED BY <2>1, <2>2, <2>3
<1> QED BY <1>1, BaseHolds, OrderHolds, AnsweringHolds, PTL

-------------------------------------------------------------------------------
(* The number of commands with the driver.                                 *)

\* sg_queue_used counts the commands with the driver, and the head of the
\* queue is one of them when it is waited for.
Counts ==
  /\ used = NInDriver /\ used <= max
  /\ \A i \in DOMAIN queue : At(i).done => At(i).running
  /\ fn.op = "wait" /\ fn.pc = "issue" /\ fn.rp = 0 => At(1).running \/ "again" \in mishaps
Used == ~Upset => Counts

\* No command is counted at first.
LEMMA InitUsed == ASSUME ReaderInit PROVE Used
<1>1. queue = << >> /\ used = 0 /\ fn.op = "none" /\ max \in Nat
  BY NoFnFacts, QueueAssumption DEF ReaderInit, Init
<1>2. ~InDriver(1) /\ ~InDriver(2)
  BY <1>1 DEF InDriver
<1>3. NInDriver = 0
  BY <1>2 DEF NInDriver
<1> QED BY <1>1, <1>3 DEF Used, Counts

\* What has gone wrong has gone wrong.
LEMMA UpsetGrows ==
  ASSUME UNCHANGED sg, mishaps \subseteq mishaps' PROVE Upset => Upset'
BY DEF Upset

\* The driver has the command waited for, unless it was put off for good.
LEMMA HeadRunning ==
  ASSUME Base, Counts, Running, "again" \notin mishaps PROVE At(1).running
<1>0. fn.op = "wait" /\ fn.pc = "issue" /\ ~Looping /\ Issuing
  BY DEF Running, Issuing
<1>1. CASE fn.rp = 0
  BY <1>0, <1>1 DEF Counts
<1>2. CASE fn.rp # 0
  <2>1. /\ ~(used < max) /\ used \in Int /\ max \in Nat \ {0}
        /\ fn.rp \in DOMAIN queue /\ \A i \in DOMAIN queue : At(i).running <=> i < fn.rp
    BY <1>0, <1>2 DEF Looping, Base, Types, QueueTypes, Prefix
  <2>2. queue \in Seq(Node) /\ Len(queue) <= 2
    BY DEF Base, Types, QueueTypes
  <2>3. fn.rp \in {1, 2} /\ 1 \in DOMAIN queue
    BY <2>1, <2>2
  <2>4. fn.rp # 1
    <3> SUFFICES ASSUME fn.rp = 1 PROVE FALSE
      OBVIOUS
    <3>1. ~InDriver(1) /\ ~InDriver(2)
      BY <2>1 DEF InDriver
    <3>2. NInDriver = 0
      BY <3>1 DEF NInDriver
    <3>3. used = 0
      BY <3>2 DEF Counts
    <3> QED BY <2>1, <3>3
  <2> QED BY <2>1, <2>3, <2>4
<1> QED BY <1>1, <1>2

\* No answer has been missed when a command is waited for.
LEMMA RunningUnmissed == ASSUME Base, Fate, Running PROVE ~Missed
BY DEF Running, Base, Calls, Fate, Doomed, Idle, Types, ReaderTypes, Places

\* Steps that leave the queue and the count alone.
LEMMA CountsSame ==
  ASSUME Counts, UNCHANGED << queue, req, used, max >>, mishaps \subseteq mishaps',
         \/ fn'.op # "wait" \/ fn'.pc # "issue" \/ fn'.rp # 0
         \/ fn'.op = fn.op /\ fn'.pc = fn.pc /\ fn'.rp = fn.rp
         \/ At(1).running
  PROVE  Counts'
<1>1. NInDriver' = NInDriver
  BY DEF NInDriver, InDriver, At
<1> QED BY <1>1 DEF Counts, At

\* A wait begins: the head runs, or issue() starts with it.
LEMMA CountsStartWait == ASSUME Base, Base', Counts, StartWait PROVE Counts'
<1> DEFINE m == bstat[bn].id
           f == [NoFn EXCEPT !.op = "wait", !.id = m]
<1>0. /\ fn' = Issue(f, m, "issue", queue, req) /\ m \in Node \cup {0} /\ rpc' = "wait"
      /\ UNCHANGED << queue, req, used, max, mishaps >>
  BY DEF StartWait, req_wait, requests, Base, Types, ReaderTypes
<1>1. f \in CallsOfQueue /\ f.op = "wait" /\ f.id = m
  BY <1>0, NoFnFacts DEF CallsOfQueue
<1> HIDE DEF f, m
<1>2. IssueArgs(f, m, "issue", queue, req)
  BY <1>0, <1>1 DEF IssueArgs, Base, Types, QueueTypes
<1>3. Issued(fn', f, m, "issue", queue, req)
  BY <1>0, <1>2, IssueFacts, Zenon
<1>4. /\ fn'.op = "wait" /\ fn'.id = m
      /\ m \in Node => fn'.rp = FirstWaiting(queue, req)
  BY <1>1, <1>3 DEF Issued
<1>5. Len(queue) > 0 /\ m = queue[1] /\ queue \in Seq(Node) /\ Len(queue) <= 2
      /\ req \in [Node -> Requests]
  BY <1>0, <1>4 DEF Base, Calls, Types, QueueTypes
<1>6. m \in Node /\ 1 \in DOMAIN queue
  BY <1>5
<1>7. fn'.rp = 0 => At(1).running
  BY <1>4, <1>5, <1>6, FirstWaitingFacts DEF At
<1> QED BY <1>0, <1>7, CountsSame

\* A command is entered; the driver does not have it yet.
LEMMA CountsEntered ==
  ASSUME Base, Counts, StartEnter, NEW c, c = line + 1, req_enter(c)
  PROVE  Counts'
<1>1. /\ \A i \in DOMAIN queue : i \in DOMAIN queue' /\ At(i)' = At(i)
      /\ \A i \in DOMAIN queue' :
              \/ i \in DOMAIN queue
              \/ i = Len(queue) + 1 /\ At(i)' = [NoReq EXCEPT !.cmd = c]
      /\ fn'.op = "enter" /\ UNCHANGED << used, max, mishaps >>
  BY EnterOkView
<1>2. ~[NoReq EXCEPT !.cmd = c].running /\ ~[NoReq EXCEPT !.cmd = c].done
  BY DEF NoReq
<1>3. \A i \in DOMAIN queue' : \/ i \in DOMAIN queue /\ At(i)' = At(i)
                               \/ ~At(i)'.running /\ ~At(i)'.done /\ i \notin DOMAIN queue
  <2> TAKE i \in DOMAIN queue'
  <2>1. CASE i \in DOMAIN queue
    BY <1>1, <2>1
  <2>2. CASE i \notin DOMAIN queue
    BY <1>1, <1>2, <2>2
  <2> QED BY <2>1, <2>2
<1>4. (InDriver(1)' <=> InDriver(1)) /\ (InDriver(2)' <=> InDriver(2))
  BY <1>1, <1>3 DEF InDriver
<1>5. NInDriver' = NInDriver
  BY <1>4 DEF NInDriver
<1>6. \A i \in DOMAIN queue' : At(i)'.done => At(i)'.running
  BY <1>3 DEF Counts
<1> QED BY <1>1, <1>5, <1>6 DEF Counts

\* The driver takes a command: it has one more.
LEMMA CountsTaken == ASSUME Base, Base', Counts, AttemptTaken PROVE Counts'
<1> DEFINE p == fn.rp
<1>0. /\ p \in DOMAIN queue /\ p \in 1..2 /\ used < max
      /\ \A i \in DOMAIN queue : At(i).running <=> i < p
      /\ \A i \in DOMAIN queue : i \in 1..2
  BY LoopFacts DEF AttemptTaken
<1>1. /\ \A i \in DOMAIN queue : /\ At(i)'.running <=> At(i).running \/ i = p
                                 /\ At(i)'.done <=> At(i).done
      /\ UNCHANGED << max, queue, mishaps >> /\ used' = used + 1
  BY TakenFacts
<1> HIDE DEF p
<1>2. ~At(p).running /\ ~At(p).done
  BY <1>0 DEF Counts
<1>3. NInDriver' = NInDriver + 1
  <2>1. CASE p = 1
    <3>1. ~InDriver(1) /\ ~InDriver(2) /\ InDriver(1)' /\ ~InDriver(2)'
      BY <1>0, <1>1, <1>2, <2>1 DEF InDriver
    <3> QED BY <3>1 DEF NInDriver
  <2>2. CASE p = 2
    <3>1. ~InDriver(2) /\ InDriver(2)' /\ (InDriver(1)' <=> InDriver(1))
      BY <1>0, <1>1, <1>2, <2>2 DEF InDriver
    <3> QED BY <3>1 DEF NInDriver
  <2> QED BY <1>0, <2>1, <2>2
<1>4. used' = NInDriver' /\ used' <= max'
  <2>1. used \in Int /\ max \in Nat
    BY DEF Base, Types, QueueTypes
  <2> QED BY <1>0, <1>1, <1>3, <2>1 DEF Counts
<1>5. \A i \in DOMAIN queue' : At(i)'.done => At(i)'.running
  BY <1>1 DEF Counts
<1>6. At(1)'.running
  <2>1. 1 \in DOMAIN queue
    BY <1>0 DEF Base, Types, QueueTypes
  <2> QED BY <1>0, <1>1, <2>1
<1> QED BY <1>4, <1>5, <1>6 DEF Counts

\* A command put off leaves the count alone.
LEMMA CountsPutOff ==
  ASSUME Base, Counts, AttemptAgain \/ AttemptLater PROVE Counts'
<1>1. /\ SameCall /\ (fn'.rp = fn.rp \/ fn'.rp = 0)
      /\ \A i \in DOMAIN queue : /\ At(i)'.running <=> At(i).running
                                 /\ At(i)'.done <=> At(i).done
      /\ UNCHANGED << max, queue, used >>
      /\ fn'.rp = 0 /\ fn.rp = 1 => "again" \in mishaps'
  BY PutOffFacts
<1>2. /\ fn.rp \in DOMAIN queue /\ fn.rp \in 1..2 /\ fn.rp # 0
      /\ \A i \in DOMAIN queue : At(i).running <=> i < fn.rp
  BY LoopFacts DEF AttemptAgain, AttemptLater
<1>3. (InDriver(1)' <=> InDriver(1)) /\ (InDriver(2)' <=> InDriver(2))
  BY <1>1 DEF InDriver
<1>4. NInDriver' = NInDriver
  BY <1>3 DEF NInDriver
<1>5. fn'.rp = 0 => At(1)'.running \/ "again" \in mishaps'
  <2>1. CASE fn.rp = 1
    BY <1>1, <2>1
  <2>2. CASE fn.rp = 2
    <3>1. 1 \in DOMAIN queue
      BY <1>2, <2>2 DEF Base, Types, QueueTypes
    <3> QED BY <1>1, <1>2, <2>2, <3>1
  <2> QED BY <1>2, <2>1, <2>2
<1>6. \A i \in DOMAIN queue' : At(i)'.done => At(i)'.running
  BY <1>1 DEF Counts
<1> QED BY <1>1, <1>4, <1>5, <1>6 DEF Counts

\* With version 2 a refused command is done and is not counted.
LEMMA CountsRefused == ASSUME Base, Counts, AttemptRefused, sg = 2 PROVE Counts'
<1>1. /\ \A i \in DOMAIN queue : /\ i # fn.rp => At(i)' = At(i)
                                 /\ i = fn.rp => At(i)'.running /\ At(i)'.done
      /\ UNCHANGED << max, queue, used >>
  BY RefusedFacts
<1>2. /\ fn.rp \in DOMAIN queue /\ fn.rp \in 1..2
      /\ \A i \in DOMAIN queue : At(i).running <=> i < fn.rp
  BY LoopFacts DEF AttemptRefused
<1>3. (InDriver(1)' <=> InDriver(1)) /\ (InDriver(2)' <=> InDriver(2))
  BY <1>1, <1>2 DEF InDriver
<1>4. NInDriver' = NInDriver
  BY <1>3 DEF NInDriver
<1>5. At(1)'.running
  <2>1. 1 \in DOMAIN queue
    BY <1>2 DEF Base, Types, QueueTypes
  <2> QED BY <1>1, <1>2, <2>1
<1>6. \A i \in DOMAIN queue' : At(i)'.done => At(i)'.running
  BY <1>1 DEF Counts
<1> QED BY <1>1, <1>4, <1>5, <1>6 DEF Counts

\* The head was with the driver, and is not when its wait is over.
LEMMA CountsWaited ==
  ASSUME Base, Counts, NEW st, NEW got, Finished(st, got), InDriver(1), used' = used - 1
  PROVE  Counts'
<1>1. /\ fn'.pc = "issueNext" /\ UNCHANGED << max, queue >>
      /\ \A i \in DOMAIN queue : /\ At(i)'.running <=> At(i).running
                                 /\ At(i)'.done <=> At(i).done \/ i = 1
  BY DEF Finished
<1>2. ~InDriver(1)' /\ (InDriver(2)' <=> InDriver(2))
  BY <1>1 DEF InDriver
<1>3. NInDriver' = NInDriver - 1
  BY <1>2 DEF NInDriver
<1>4. used' = NInDriver' /\ used' <= max'
  <2>1. used \in Int /\ max \in Nat
    BY DEF Base, Types, QueueTypes
  <2> QED BY <1>1, <1>3, <2>1 DEF Counts
<1>5. \A i \in DOMAIN queue' : At(i)'.done => At(i)'.running
  BY <1>1 DEF Counts, InDriver
<1> QED BY <1>1, <1>4, <1>5 DEF Counts

\* The head leaves the queue; it is counted only if the driver had it.
LEMMA CountsReleased ==
  ASSUME Base, Counts, 1 \in DOMAIN queue, Len(queue') = Len(queue) - 1, queue' \in Seq(Node),
         \A i \in DOMAIN queue' : i = 1 /\ i + 1 \in DOMAIN queue /\ At(i)' = At(i + 1),
         UNCHANGED max, fn'.op # "wait",
         used' = IF InDriver(1) THEN used - 1 ELSE used
  PROVE  Counts'
<1>0. queue \in Seq(Node) /\ Len(queue) \in Nat
  BY DEF Base, Types, QueueTypes
<1>1. ~InDriver(2)' /\ (1 \in DOMAIN queue' => At(1)' = At(2) /\ 2 \in DOMAIN queue)
  BY DEF InDriver
<1>2. 2 \in DOMAIN queue => 1 \in DOMAIN queue'
  BY <1>0
<1>3. InDriver(1)' <=> InDriver(2)
  BY <1>1, <1>2 DEF InDriver
<1>4. NInDriver' = IF InDriver(2) THEN 1 ELSE 0
  BY <1>1, <1>3 DEF NInDriver
<1>5. used' = NInDriver' /\ used' <= max'
  <2>1. used \in Int /\ max \in Nat
    BY DEF Base, Types, QueueTypes
  <2>2. CASE InDriver(1)
    <3>1. NInDriver = IF InDriver(2) THEN 2 ELSE 1
      BY <2>2 DEF NInDriver
    <3> QED BY <1>4, <2>1, <2>2, <3>1 DEF Counts
  <2>3. CASE ~InDriver(1)
    <3>1. NInDriver = IF InDriver(2) THEN 1 ELSE 0
      BY <2>3 DEF NInDriver
    <3> QED BY <1>4, <2>1, <2>3, <3>1 DEF Counts
  <2> QED BY <2>2, <2>3
<1>6. \A i \in DOMAIN queue' : At(i)'.done => At(i)'.running
  BY DEF Counts
<1> QED BY <1>5, <1>6 DEF Counts

\* What has gone wrong is not forgotten.
LEMMA MishapsGrow == ASSUME Base, [Next]_vars PROVE mishaps \subseteq mishaps' /\ UNCHANGED sg
<1>a. CASE UNCHANGED queueVars
  BY <1>a DEF queueVars
<1>b. CASE StartWait
  BY <1>b DEF StartWait, req_wait
<1>c. CASE \E c : StartEnter /\ c = line + 1 /\ (req_enter(c) \/ req_enter_no_mem(c))
  BY <1>c DEF req_enter, req_enter_no_mem
<1>d. CASE sigterm_handler
  BY <1>d DEF sigterm_handler, flush_all
<1>e. CASE AttemptTaken
  BY <1>e DEF AttemptTaken
<1>f. CASE AttemptAgain \/ AttemptLater
  BY <1>f, PutOffFacts
<1>g. CASE AttemptRefused
  BY <1>g, RefusedFacts
<1>h. CASE EnterReturns \/ WaitOver \/ WaitReturns
  BY <1>h DEF EnterReturns, WaitOver, WaitReturns
<1>k. CASE WaitRead \/ WaitInterrupted \/ WaitSG3
  BY <1>k DEF WaitRead, WaitInterrupted, WaitSG3, Went
<1>o. CASE UNCHANGED reader /\ rpc # "exited" /\ Flush
  BY <1>o, FlushView
<1>p. CASE DeviceAnswers
  BY <1>p DEF DeviceAnswers
<1> QED BY StepCases, <1>a, <1>b, <1>c, <1>d, <1>e, <1>f, <1>g, <1>h, <1>k, <1>o, <1>p

\* Every step preserves Used.
LEMMA UsedStep ==
  ASSUME Base, Base', Fate, Answering, Used, [Next]_vars PROVE Used'
<1>0. mishaps \subseteq mishaps' /\ UNCHANGED sg
  BY MishapsGrow
<1>1. SUFFICES ASSUME ~Upset' PROVE Counts'
  BY DEF Used
<1>2. ~Upset /\ Counts
  BY <1>0, <1>1, UpsetGrows DEF Used
<1>3. queue' \in Seq(Node) /\ sg \in {2, 3}
  BY DEF Base, Types, QueueTypes
<1>a. CASE UNCHANGED queueVars
  <2>1. UNCHANGED << queue, req, used, max, fn >>
    BY <1>a DEF queueVars, requests
  <2> QED BY <2>1, <1>0, <1>2, CountsSame
<1>b. CASE StartWait
  BY <1>b, <1>2, CountsStartWait
<1>c. CASE \E c : StartEnter /\ c = line + 1 /\ (req_enter(c) \/ req_enter_no_mem(c))
  <2>1. PICK c : StartEnter /\ c = line + 1 /\ (req_enter(c) \/ req_enter_no_mem(c))
    BY <1>c
  <2>2. CASE req_enter(c)
    BY <2>1, <2>2, <1>2, CountsEntered
  <2>3. CASE req_enter_no_mem(c)
    <3>1. UNCHANGED << queue, req, used, max, fn >>
      BY <2>3 DEF req_enter_no_mem, requests
    <3> QED BY <3>1, <1>0, <1>2, CountsSame
  <2> QED BY <2>1, <2>2, <2>3
<1>d. CASE sigterm_handler
  <2>1. UNCHANGED << queue, req, used, max >> /\ fn'.op # "wait"
    BY <1>d DEF sigterm_handler, flush_all, requests, NoFn
  <2> QED BY <2>1, <1>0, <1>2, CountsSame
<1>e. CASE AttemptTaken
  BY <1>e, <1>2, CountsTaken
<1>f. CASE AttemptAgain \/ AttemptLater
  BY <1>f, <1>2, CountsPutOff
<1>g. CASE AttemptRefused
  <2>1. mishaps' = mishaps \cup {"error"}
    BY <1>g, RefusedFacts
  <2>2. sg = 2
    BY <1>0, <1>1, <1>3, <2>1 DEF Upset
  <2> QED BY <1>g, <1>2, <2>2, CountsRefused
<1>h. CASE EnterReturns
  <2>1. UNCHANGED << queue, req, used, max >> /\ fn'.op # "wait"
    BY <1>h DEF EnterReturns, requests, NoFn
  <2> QED BY <2>1, <1>0, <1>2, CountsSame
<1>j. CASE UNCHANGED reader /\ WaitOver
  <2>1. UNCHANGED << queue, req, used, max >> /\ fn'.pc # "issue"
    BY <1>j, WaitOverView DEF WaitOver, requests, Finished
  <2> QED BY <2>1, <1>0, <1>2, CountsSame
<1>k. CASE UNCHANGED reader /\ WaitRead
  <2>1. used' = used - 1 /\ \E st \in {"good", "io_error", "busy"} : Finished(st, Head(answers))
    BY <1>k, WaitReadView
  <2>2. ~Missed
    BY <2>1, RunningUnmissed DEF Finished
  <2>3. InDriver(1)
    BY <1>k, <2>2, AnsweringRead
  <2> QED BY <2>1, <2>3, <1>2, CountsWaited
<1>l. CASE UNCHANGED reader /\ WaitInterrupted
  <2>1. /\ used' = used - 1 /\ Finished("io_error", fn.got) /\ ~At(1).done /\ sg = 2
        /\ mishaps' = mishaps \cup {"interrupt"}
    BY <1>l, WaitInterruptedView
  <2>2. "again" \notin mishaps
    BY <1>0, <1>1, <2>1 DEF Upset
  <2>3. InDriver(1)
    BY <1>2, <2>1, <2>2, HeadRunning DEF Finished, InDriver
  <2> QED BY <2>1, <2>3, <1>2, CountsWaited
<1>m. CASE UNCHANGED reader /\ WaitSG3
  <2>1. /\ used' = used - 1 /\ \E st \in {"good", "io_error", "busy"} : Finished(st, fn.got)
        /\ ~At(1).done /\ sg = 3
    BY <1>m, WaitSG3View
  <2>2. "again" \notin mishaps
    BY <1>2, <2>1 DEF Upset
  <2>3. InDriver(1)
    BY <1>2, <2>1, <2>2, HeadRunning DEF Finished, InDriver
  <2> QED BY <2>1, <2>3, <1>2, CountsWaited
<1>n. CASE UNCHANGED reader /\ WaitReturns
  <2>1. /\ fn.pc = "issueNext" /\ 1 \in DOMAIN queue /\ Len(queue') = Len(queue) - 1
        /\ \A i \in DOMAIN queue' : i = 1 /\ i + 1 \in DOMAIN queue /\ At(i)' = At(i + 1)
        /\ UNCHANGED << max, used >> /\ fn'.op # "wait"
    BY <1>n, WaitReturnsView
  <2>2. ~InDriver(1)
    BY <2>1 DEF Fate, HeadFinished, InDriver
  <2> QED BY <2>1, <2>2, <1>2, <1>3, CountsReleased
<1>o. CASE UNCHANGED reader /\ rpc # "exited" /\ Flush
  <2>1. /\ fn' = fn /\ fn.op = "flush"
        /\ 1 \in DOMAIN queue /\ Len(queue') = Len(queue) - 1
        /\ \A i \in DOMAIN queue' : i = 1 /\ i + 1 \in DOMAIN queue /\ At(i)' = At(i + 1)
        /\ UNCHANGED max
        /\ \/ ~(At(1).running /\ ~At(1).done) /\ UNCHANGED used
           \/ At(1).running /\ ~At(1).done /\ used' = used - 1
    BY <1>o, FlushView
  <2>2. used' = IF InDriver(1) THEN used - 1 ELSE used
    BY <2>1 DEF InDriver
  <2> QED BY <2>1, <2>2, <1>2, <1>3, CountsReleased
<1>p. CASE DeviceAnswers
  <2>1. UNCHANGED << queue, req, used, max, fn >>
    BY <1>p DEF DeviceAnswers, requests
  <2> QED BY <2>1, <1>0, <1>2, CountsSame
<1> QED BY StepCases, <1>a, <1>b, <1>c, <1>d, <1>e, <1>f, <1>g, <1>h, <1>j, <1>k, <1>l,
           <1>m, <1>n, <1>o, <1>p

(***************************************************************************)
(* sg_queue_used counts the commands with the driver as long as none was   *)
(* put off for good.                                                       *)
(***************************************************************************)
THEOREM UsedHolds == Spec => []Used
<1>1. ReaderInit => Used
  BY InitUsed
<1>2. Base /\ Base' /\ Fate /\ Answering /\ Used /\ [Next]_vars => Used'
  BY UsedStep
<1> QED BY <1>1, <1>2, BaseHolds, FateHolds, AnsweringHolds, PTL DEF Spec

\* The cardinality of DriverHas, place by place.
LEMMA DriverHasCount == ASSUME Base PROVE Cardinality(DriverHas) = NInDriver
<1>1. queue \in Seq(Node) /\ Len(queue) <= 2
  BY DEF Base, Types, QueueTypes
<1>2. DOMAIN queue \subseteq {1, 2}
  BY <1>1
<1>3. \A i : i \in DriverHas <=> InDriver(i)
  BY DEF DriverHas, InDriver, At
<1>4. DriverHas \subseteq {1, 2}
  BY <1>2 DEF DriverHas
<1>5. Cardinality({1, 2}) = 2
  <2>1. IsFiniteSet({1}) /\ Cardinality({1}) = 1
    BY FS_Singleton
  <2>2. Cardinality({1} \cup {2}) = 1 + 1
    BY <2>1, FS_AddElement
  <2>3. {1} \cup {2} = {1, 2}
    OBVIOUS
  <2> QED BY <2>2, <2>3
<1>6. CASE InDriver(1) /\ InDriver(2)
  <2>1. DriverHas = {1, 2}
    BY <1>3, <1>4, <1>6
  <2> QED BY <1>5, <1>6, <2>1 DEF NInDriver
<1>7. CASE InDriver(1) /\ ~InDriver(2)
  <2>1. DriverHas = {1}
    BY <1>3, <1>4, <1>7
  <2>2. Cardinality(DriverHas) = 1
    BY <2>1, FS_Singleton
  <2> QED BY <1>7, <2>2 DEF NInDriver
<1>8. CASE ~InDriver(1) /\ InDriver(2)
  <2>1. DriverHas = {2}
    BY <1>3, <1>4, <1>8
  <2>2. Cardinality(DriverHas) = 1
    BY <2>1, FS_Singleton
  <2> QED BY <1>8, <2>2 DEF NInDriver
<1>9. CASE ~InDriver(1) /\ ~InDriver(2)
  <2>1. DriverHas = {}
    BY <1>3, <1>4, <1>9
  <2>2. Cardinality(DriverHas) = 0
    BY <2>1, FS_EmptySet
  <2> QED BY <1>9, <2>2 DEF NInDriver
<1> QED BY <1>6, <1>7, <1>8, <1>9

(***************************************************************************)
(* sg_queue_used is the number of commands that the driver has, and never  *)
(* more than sg_queue_max.                                                 *)
(***************************************************************************)
THEOREM UsedExact == Spec => []UsedIsExact
<1>1. Base /\ Used => UsedIsExact
  BY DriverHasCount DEF Used, Counts, UsedIsExact
<1> QED BY <1>1, BaseHolds, UsedHolds, PTL

-------------------------------------------------------------------------------
(* What a wait ends with.                                                  *)

\* How the commands that are done came to it, and what is known of the answer
\* to the head of the queue while issue(req->next) runs.
Settled == \A i \in DOMAIN queue :
             At(i).done => (i = 1 /\ fn.pc = "issueNext") \/ (sg = 2 /\ At(i).status # "good")
Fetched == fn.pc = "issueNext" =>
             /\ fn.st = "good" => IF sg = 3 THEN At(1).running ELSE fn.got = At(1).cmd
             /\ fn.st = "own" => sg = 2 /\ At(1).status # "good"
Live    == rpc \notin {"flush", "exited"}
Outcome == ~Upset /\ Live => Settled /\ Fetched

\* Nothing has come out at first.
LEMMA InitOutcome == ASSUME ReaderInit PROVE Outcome
BY NoFnFacts DEF ReaderInit, Init, Outcome, Settled, Fetched

\* With version 2 no status becomes good by a command that is taken.
LEMMA TakenStatus ==
  ASSUME Base, AttemptTaken, sg = 2
  PROVE  \A i \in DOMAIN queue : At(i).status # "good" => At(i)'.status # "good"
<1> DEFINE runs == [req EXCEPT ![rpNode].running = TRUE]
<1>0. Looping /\ UNCHANGED queue /\ req' = [runs EXCEPT ![fn.arg].status = "io_error"]
  BY DEF AttemptTaken
<1>1. rpNode \in Node /\ \A i \in DOMAIN queue : queue[i] \in Node
  BY <1>0, LoopFacts
<1>2. req \in [Node -> Requests]
  BY DEF Base, Types, QueueTypes
<1>3. runs \in [Node -> Requests] /\ \A m \in Node : runs[m].status = req[m].status
  BY <1>1, <1>2 DEF Requests
<1> HIDE DEF runs
<1>4. \A m \in Node : req'[m].status = runs[m].status \/ req'[m].status = "io_error"
  BY <1>0, <1>3 DEF Requests
<1> QED BY <1>0, <1>1, <1>3, <1>4 DEF At

\* The head of the queue while issue(req->next) runs.
LEMMA HeadThere == ASSUME Base, fn.pc = "issueNext" PROVE 1 \in DOMAIN queue
BY DEF Base, Calls, Types, QueueTypes

\* Steps of issue() keep what is known of the commands done.
LEMMA OutcomeKept ==
  ASSUME Base, Settled, Fetched, UNCHANGED << queue, sg >>,
         fn'.pc = "issueNext" <=> fn.pc = "issueNext",
         fn.pc = "issueNext" => fn'.st = fn.st /\ fn'.got = fn.got,
         \A i \in DOMAIN queue : /\ At(i)'.cmd = At(i).cmd
                                 /\ At(i).running => At(i)'.running
                                 /\ At(i)'.done => At(i).done \/ (sg = 2 /\ At(i)'.status # "good")
                                 /\ sg = 2 /\ At(i).status # "good" => At(i)'.status # "good"
  PROVE  Settled' /\ Fetched'
<1>1. Settled'
  BY DEF Settled
<1>2. fn.pc = "issueNext" => 1 \in DOMAIN queue
  BY HeadThere
<1>3. Fetched'
  BY <1>2 DEF Fetched
<1> QED BY <1>1, <1>3

\* Steps that leave the queue alone, and the answer fetched.
LEMMA OutcomeSame ==
  ASSUME Base, Settled, Fetched, UNCHANGED << queue, sg, req >>,
         fn'.pc = "issueNext" <=> fn.pc = "issueNext",
         fn.pc = "issueNext" => fn'.st = fn.st /\ fn'.got = fn.got
  PROVE  Settled' /\ Fetched'
BY DEF Settled, Fetched, At

\* A command is entered; it is not done.
LEMMA OutcomeEntered ==
  ASSUME Base, Settled, Fetched, StartEnter, NEW c, c = line + 1, req_enter(c)
  PROVE  Settled' /\ Fetched'
<1>1. /\ \A i \in DOMAIN queue : i \in DOMAIN queue' /\ At(i)' = At(i)
      /\ \A i \in DOMAIN queue' :
              \/ i \in DOMAIN queue
              \/ i = Len(queue) + 1 /\ At(i)' = [NoReq EXCEPT !.cmd = c]
      /\ fn'.pc = "issue" /\ UNCHANGED sg /\ Idle
  BY EnterOkView
<1>2. ~[NoReq EXCEPT !.cmd = c].done
  BY DEF NoReq
<1>3. \A i \in DOMAIN queue' : (i \in DOMAIN queue /\ At(i)' = At(i)) \/ ~At(i)'.done
  <2> TAKE i \in DOMAIN queue'
  <2>1. CASE i \in DOMAIN queue
    BY <1>1, <2>1
  <2>2. CASE i \notin DOMAIN queue
    BY <1>1, <1>2, <2>2
  <2> QED BY <2>1, <2>2
<1>4. fn.pc # "issueNext"
  BY <1>1 DEF Idle, Base, Calls
<1>5. Settled'
  BY <1>1, <1>3, <1>4 DEF Settled
<1>6. Fetched'
  BY <1>1 DEF Fetched
<1> QED BY <1>5, <1>6

\* A wait is over with the status st and the data got.
LEMMA OutcomeWaited ==
  ASSUME Base, Settled, NEW st, NEW got, Finished(st, got),
         st = "good" => IF sg = 3 THEN At(1).running ELSE got = At(1).cmd,
         st = "own" => sg = 2 /\ At(1).status # "good"
  PROVE  Settled' /\ Fetched'
<1>1. /\ fn.pc = "issue" /\ fn'.pc = "issueNext" /\ fn'.st = st /\ fn'.got = got
      /\ UNCHANGED << sg, queue >> /\ 1 \in DOMAIN queue
      /\ \A i \in DOMAIN queue : /\ At(i)'.cmd = At(i).cmd
                                 /\ At(i)'.running <=> At(i).running
                                 /\ At(i)'.done <=> At(i).done \/ i = 1
                                 /\ At(i)'.status = At(i).status
  BY DEF Finished, Running
<1>2. Settled'
  BY <1>1 DEF Settled
<1>3. Fetched'
  BY <1>1 DEF Fetched
<1> QED BY <1>2, <1>3

\* Every step preserves Outcome.
LEMMA OutcomeStep ==
  ASSUME Base, Base', Fate, Answering, Used, Outcome, [Next]_vars PROVE Outcome'
<1>0. mishaps \subseteq mishaps' /\ UNCHANGED sg
  BY MishapsGrow
<1>1. SUFFICES ASSUME ~Upset', Live' PROVE Settled' /\ Fetched'
  BY DEF Outcome
<1>2. ~Upset /\ Counts
  BY <1>0, <1>1, UpsetGrows DEF Used
<1>3. ASSUME Live PROVE Settled /\ Fetched
  BY <1>2, <1>3 DEF Outcome
<1>4. ASSUME UNCHANGED rpc PROVE Live
  BY <1>1, <1>4 DEF Live
<1>5. UNCHANGED reader => UNCHANGED rpc
  BY DEF reader
<1>6. UNCHANGED reader => Settled /\ Fetched
  BY <1>3, <1>4, <1>5
<1>7. sg \in {2, 3}
  BY DEF Base, Types, QueueTypes
<1>a. CASE ReaderStep /\ UNCHANGED queueVars
  <2>1. UNCHANGED << queue, req, sg, fn >>
    BY <1>a DEF queueVars, requests
  <2>2. Live
    BY <1>1, <1>a DEF Live, ReaderStep, BlockStart, AllRead, NotReady, Waited, Entered, NothingToEnter,
                        HandlerExits, Exit, Kill, vars, reader
  <2> QED BY <2>1, <2>2, <1>3, OutcomeSame
<1>b. CASE StartWait
  <2>1. rpc = "top" /\ UNCHANGED << queue, req, sg >> /\ rpc' = "wait"
        /\ fn' = Issue([NoFn EXCEPT !.op = "wait", !.id = bstat[bn].id],
                                     bstat[bn].id, "issue", queue, req)
    BY <1>b DEF StartWait, req_wait, requests
  <2>2. fn'.pc = "issue"
    BY <2>1, NoFnFacts DEF Issue, NoFn
  <2>3. fn.pc # "issueNext"
    BY <2>1 DEF Base, Calls
  <2>4. Settled /\ Fetched
    BY <1>3, <2>1 DEF Live
  <2> QED BY <2>1, <2>2, <2>3, <2>4, OutcomeSame
<1>c. CASE \E c : StartEnter /\ c = line + 1 /\ (req_enter(c) \/ req_enter_no_mem(c))
  <2>1. PICK c : StartEnter /\ c = line + 1 /\ (req_enter(c) \/ req_enter_no_mem(c))
    BY <1>c
  <2>2. Settled /\ Fetched
    <3>1. rpc = "enter"
      BY <2>1 DEF StartEnter
    <3> QED BY <1>3, <3>1 DEF Live
  <2>3. CASE req_enter(c)
    BY <2>1, <2>2, <2>3, OutcomeEntered
  <2>4. CASE req_enter_no_mem(c)
    <3>1. UNCHANGED << queue, req, sg, fn >>
      BY <2>4 DEF req_enter_no_mem, requests
    <3> QED BY <3>1, <2>2, OutcomeSame
  <2> QED BY <2>1, <2>3, <2>4
<1>d. CASE sigterm_handler
  BY <1>d, <1>1 DEF sigterm_handler, Live
<1>e. CASE UNCHANGED reader /\ AttemptTaken
  <2>1. /\ SameCall /\ UNCHANGED queue
        /\ \A i \in DOMAIN queue : /\ At(i)'.cmd = At(i).cmd
                                   /\ At(i).running => At(i)'.running
                                   /\ At(i)'.done <=> At(i).done
    BY <1>e, TakenFacts
  <2>2. \A i \in DOMAIN queue : sg = 2 /\ At(i).status # "good" => At(i)'.status # "good"
    BY <1>e, TakenStatus
  <2> QED BY <1>0, <1>6, <1>e, <2>1, <2>2, OutcomeKept DEF SameCall
<1>f. CASE UNCHANGED reader /\ (AttemptAgain \/ AttemptLater)
  <2>1. /\ SameCall /\ UNCHANGED queue
        /\ \A i \in DOMAIN queue : /\ At(i)'.cmd = At(i).cmd
                                   /\ At(i)'.running <=> At(i).running
                                   /\ At(i)'.done <=> At(i).done
                                   /\ At(i)'.status = At(i).status
    BY <1>f, PutOffFacts
  <2> QED BY <1>0, <1>6, <1>f, <2>1, OutcomeKept DEF SameCall
<1>g. CASE UNCHANGED reader /\ AttemptRefused
  <2>1. /\ SameCall /\ UNCHANGED queue /\ mishaps' = mishaps \cup {"error"}
        /\ \A i \in DOMAIN queue :
              /\ At(i)'.cmd = At(i).cmd
              /\ i # fn.rp => At(i)' = At(i)
              /\ i = fn.rp => /\ At(i)'.running <=> sg = 2
                              /\ At(i)'.done /\ At(i)'.status # "good"
    BY <1>g, RefusedFacts
  <2>2. sg = 2
    BY <1>0, <1>1, <1>7, <2>1 DEF Upset
  <2>3. \A i \in DOMAIN queue : /\ At(i)'.cmd = At(i).cmd
                                /\ At(i).running => At(i)'.running
                                /\ At(i)'.done => At(i).done \/ (sg = 2 /\ At(i)'.status # "good")
                                /\ sg = 2 /\ At(i).status # "good" => At(i)'.status # "good"
    BY <2>1, <2>2
  <2> QED BY <1>0, <1>6, <1>g, <2>1, <2>3, OutcomeKept DEF SameCall
<1>h. CASE UNCHANGED reader /\ EnterReturns
  <2>1. UNCHANGED << queue, req, sg >> /\ fn'.pc = "none" /\ fn.op = "enter"
    BY <1>h DEF EnterReturns, requests, NoFn
  <2>2. fn.pc # "issueNext"
    BY <2>1 DEF Base, Calls
  <2> QED BY <1>h, <1>6, <2>1, <2>2, OutcomeSame
<1>j. CASE UNCHANGED reader /\ WaitOver
  <2>1. Finished("own", fn.got) /\ At(1).done
    BY <1>j, WaitOverView
  <2>2. 1 \in DOMAIN queue /\ fn.pc = "issue"
    BY <2>1 DEF Finished, Running
  <2>3. sg = 2 /\ At(1).status # "good"
    BY <1>j, <1>6, <2>1, <2>2 DEF Settled
  <2> QED BY <1>j, <1>6, <2>1, <2>3, OutcomeWaited
<1>k. CASE UNCHANGED reader /\ WaitRead
  <2>1. PICK st \in {"good", "io_error", "busy"} : Finished(st, Head(answers))
    BY <1>k, WaitReadView
  <2>2. ~Missed
    BY <2>1, RunningUnmissed DEF Finished
  <2>3. Head(answers) = At(1).cmd /\ sg = 2
    BY <1>k, <2>2, AnsweringRead, WaitReadView
  <2>4. Settled /\ st # "own" /\ sg # 3
    BY <1>k, <1>6, <2>3
  <2> QED BY <2>1, <2>3, <2>4, OutcomeWaited
<1>l. CASE UNCHANGED reader /\ WaitInterrupted
  <2>1. Finished("io_error", fn.got)
    BY <1>l, WaitInterruptedView
  <2> QED BY <1>l, <1>6, <2>1, OutcomeWaited
<1>m. CASE UNCHANGED reader /\ WaitSG3
  <2>1. ~At(1).done /\ sg = 3 /\ \E st \in {"good", "io_error", "busy"} : Finished(st, fn.got)
    BY <1>m, WaitSG3View
  <2>2. PICK st \in {"good", "io_error", "busy"} : Finished(st, fn.got)
    BY <2>1
  <2>3. "again" \notin mishaps
    BY <1>2, <2>1 DEF Upset
  <2>4. At(1).running
    BY <1>2, <2>2, <2>3, HeadRunning DEF Finished
  <2>5. Settled /\ st # "own"
    BY <1>m, <1>6
  <2> QED BY <2>1, <2>2, <2>4, <2>5, OutcomeWaited
<1>n. CASE UNCHANGED reader /\ WaitReturns
  <2>1. /\ fn'.pc = "none" /\ UNCHANGED sg
        /\ \A i \in DOMAIN queue' : i = 1 /\ i + 1 \in DOMAIN queue /\ At(i)' = At(i + 1)
    BY <1>n, WaitReturnsView
  <2>2. \A i \in DOMAIN queue' : 2 \in DOMAIN queue /\ At(i)' = At(2)
    BY <2>1
  <2>3. Settled'
    BY <1>n, <1>6, <2>1, <2>2 DEF Settled
  <2> QED BY <2>1, <2>3 DEF Fetched
<1>o. CASE UNCHANGED reader /\ rpc # "exited" /\ Flush
  BY <1>o, <1>1, FlushView DEF Live
<1>p. CASE UNCHANGED reader /\ DeviceAnswers
  <2>1. UNCHANGED << queue, req, sg, fn >>
    BY <1>p DEF DeviceAnswers, requests
  <2> QED BY <1>p, <1>6, <2>1, OutcomeSame
<1> QED BY StepCases, <1>a, <1>b, <1>c, <1>d, <1>e, <1>f, <1>g, <1>h, <1>j, <1>k, <1>l,
           <1>m, <1>n, <1>o, <1>p

(***************************************************************************)
(* The data that a wait ends with is that of the command at the head of    *)
(* the queue.                                                              *)
(***************************************************************************)
THEOREM OutcomeHolds == Spec => []Outcome
<1>1. ReaderInit => Outcome
  BY InitOutcome
<1>2. Base /\ Base' /\ Fate /\ Answering /\ Used /\ Outcome /\ [Next]_vars => Outcome'
  BY OutcomeStep
<1> QED BY <1>1, <1>2, BaseHolds, FateHolds, AnsweringHolds, UsedHolds, PTL DEF Spec

-------------------------------------------------------------------------------
(* The lines of the image.                                                 *)

\* The lines in k buffers; where s->line stands after them.
Mul(k)    == k * LinesPerBuffer
Capped(k) == IF Mul(k) < Lines THEN Mul(k) ELSE Lines

\* The commands that have left the queue and those entered so far.
Taken   == Len(out) + (IF rpc = "wait" /\ Idle THEN 1 ELSE 0)
Entries == Taken + Len(queue)

\* The commands in the queue and s->line follow from their number.
Lined    == line = Capped(Entries) /\ (Entries > 0 => Mul(Entries - 1) < Lines)
Numbered == \A i \in DOMAIN queue : At(i).cmd = Mul(Taken + i - 1) + 1
Planned  == Live /\ ~EnterFailed => Lined /\ Numbered

\* The data waited for, and the data written.
HeadReturned == rpc = "wait" /\ Idle /\ ret.status = "good" => ret.got = Mul(Len(out)) + 1
Written == \A i \in DOMAIN out : out[i] = Mul(i - 1) + 1
Bounded == /\ Len(out) > 0 => Mul(Len(out) - 1) < Lines
           /\ result = "good" => Lines <= Mul(Len(out))
Correct == ~Upset => HeadReturned /\ Written

Image == Planned /\ Bounded /\ Correct

\* The lines of one more buffer.
LEMMA MulFacts ==
  ASSUME NEW k \in Nat
  PROVE  Mul(k) \in Nat /\ Mul(k + 1) = Mul(k) + LinesPerBuffer /\ Mul(0) = 0
<1>1. LinesPerBuffer \in Nat
  BY ReaderAssumption
<1> QED BY <1>1 DEF Mul

\* The counts of commands, and where they differ from Len(out).
LEMMA TakenNat ==
  ASSUME Types
  PROVE  /\ Len(out) \in Nat /\ Len(queue) \in Nat
         /\ Taken \in Nat /\ Entries \in Nat
         /\ Taken = IF rpc = "wait" /\ Idle THEN Len(out) + 1 ELSE Len(out)
         /\ Entries = Taken + Len(queue)
<1>1. out \in Seq(Nat) /\ queue \in Seq(Node)
  BY DEF Types, ReaderTypes, QueueTypes
<1>2. Len(out) \in Nat /\ Len(queue) \in Nat
  BY <1>1
<1>3. Taken = IF rpc = "wait" /\ Idle THEN Len(out) + 1 ELSE Len(out)
  BY <1>2 DEF Taken
<1> QED BY <1>2, <1>3 DEF Entries

\* Nothing is planned or written at first.
LEMMA InitImage == ASSUME ReaderInit PROVE Image
<1>1. Base /\ out = << >> /\ queue = << >> /\ line = 0 /\ rpc = "block" /\ result = "none"
  BY InitBase DEF ReaderInit, Init
<1>2. Len(out) = 0 /\ Len(queue) = 0
  BY <1>1
<1>3. Taken = 0 /\ Entries = 0
  BY <1>1, <1>2 DEF Taken, Entries
<1>4. Capped(0) = 0
  BY ReaderAssumption, MulFacts DEF Capped
<1>5. Planned
  BY <1>1, <1>3, <1>4 DEF Planned, Lined, Numbered
<1>6. Bounded /\ Correct
  BY <1>1, <1>2 DEF Bounded, Correct, HeadReturned, Written
<1> QED BY <1>5, <1>6 DEF Image

\* Steps that leave the queue's commands, s->line and the pipe alone.
LEMMA PlannedKept ==
  ASSUME Planned, UNCHANGED << queue, line >>, Taken' = Taken,
         \A i \in DOMAIN queue : At(i)'.cmd = At(i).cmd,
         Live' /\ ~EnterFailed' => Live /\ ~EnterFailed
  PROVE  Planned'
<1>1. Entries' = Entries
  BY DEF Entries
<1>2. Lined => Lined'
  BY <1>1 DEF Lined, Capped, Mul
<1>3. Numbered => Numbered'
  BY DEF Numbered, Mul
<1> QED BY <1>2, <1>3 DEF Planned

\* Steps that write nothing and return from no wait.
LEMMA CorrectKept ==
  ASSUME Correct, Upset => Upset', UNCHANGED out,
         rpc' = "wait" /\ Idle' => rpc = "wait" /\ Idle /\ UNCHANGED ret
  PROVE  Correct'
BY DEF Correct, HeadReturned, Written, Mul

\* dev_req_wait returns: the head leaves the queue.
LEMMA ImageReturned ==
  ASSUME Base, Base', Outcome, Image, WaitReturns, UNCHANGED reader, Upset => Upset'
  PROVE  Planned' /\ Correct'
<1>1. /\ fn.op = "wait" /\ fn.pc = "issueNext" /\ fn'.op = "none"
      /\ 1 \in DOMAIN queue /\ Len(queue') = Len(queue) - 1
      /\ \A i \in DOMAIN queue' : i = 1 /\ i + 1 \in DOMAIN queue /\ At(i)' = At(i + 1)
      /\ ret'.got = IF sg = 3 /\ At(1).running THEN At(1).cmd ELSE fn.got
      /\ ret'.status = IF fn.st = "own" THEN At(1).status ELSE fn.st
      /\ rpc = "wait" /\ UNCHANGED << sg, rpc, out, line >>
  BY WaitReturnsView DEF reader
<1>2. Live /\ ~EnterFailed
  BY <1>1 DEF Live, EnterFailed
<1>3. Lined /\ Numbered
  BY <1>2 DEF Image, Planned
<1>4. Types /\ Types'
  BY DEF Base
<1>5. Taken = Len(out) /\ Taken' = Len(out) + 1 /\ Len(out) \in Nat /\ Len(queue) \in Nat
  BY <1>1, <1>4 DEF Taken, Idle, Types, ReaderTypes, QueueTypes
<1>6. Entries' = Entries
  BY <1>1, <1>5 DEF Entries
<1>7. Lined'
  BY <1>1, <1>3, <1>6 DEF Lined, Capped, Mul
<1>8. Numbered'
  <2>1. ASSUME NEW i \in DOMAIN queue' PROVE At(i)'.cmd = Mul(Taken' + i - 1) + 1
    <3>1. i = 1 /\ 2 \in DOMAIN queue /\ At(i)' = At(2)
      BY <1>1
    <3>2. At(2).cmd = Mul(Taken + 2 - 1) + 1
      BY <1>3, <3>1 DEF Numbered
    <3>3. Taken + 2 - 1 = Taken' + i - 1
      BY <1>5, <3>1
    <3> QED BY <3>1, <3>2, <3>3
  <2> QED BY <2>1 DEF Numbered, Mul
<1>9. ~Upset /\ ret'.status = "good" => ret'.got = Mul(Len(out)) + 1
  <2> SUFFICES ASSUME ~Upset, ret'.status = "good" PROVE ret'.got = Mul(Len(out)) + 1
    OBVIOUS
  <2>1. Fetched
    BY <1>2 DEF Outcome
  <2>2. fn.st = "good"
    BY <1>1, <2>1 DEF Fetched
  <2>3. sg \in {2, 3}
    BY <1>4 DEF Types, QueueTypes
  <2>4. ret'.got = At(1).cmd
    BY <1>1, <2>1, <2>2, <2>3 DEF Fetched
  <2>5. At(1).cmd = Mul(Taken + 1 - 1) + 1
    BY <1>1, <1>3 DEF Numbered
  <2>6. Taken + 1 - 1 = Len(out)
    BY <1>5
  <2> QED BY <2>4, <2>5, <2>6
<1>10. Planned'
  BY <1>7, <1>8 DEF Planned
<1>11. Written' <=> Written
  BY <1>1 DEF Written, Mul
<1>12. ~Upset => HeadReturned'
  BY <1>1, <1>9 DEF HeadReturned, Mul
<1> QED BY <1>10, <1>11, <1>12 DEF Image, Correct

\* A command is entered for the lines that follow.
LEMMA ImageEntered ==
  ASSUME Base, Base', Image, StartEnter, NEW c, c = line + 1, req_enter(c)
  PROVE  Planned'
<1>1. /\ Len(queue') = Len(queue) + 1
      /\ \A i \in DOMAIN queue : i \in DOMAIN queue' /\ At(i)' = At(i)
      /\ \A i \in DOMAIN queue' :
              \/ i \in DOMAIN queue
              \/ i = Len(queue) + 1 /\ At(i)' = [NoReq EXCEPT !.cmd = c]
      /\ rpc = "enter" /\ rpc' = "entering" /\ UNCHANGED out
  BY EnterOkView
<1>2. Lined /\ Numbered
  BY <1>1 DEF Image, Planned, Live, EnterFailed
<1>3. Types
  BY DEF Base
<1>4. /\ Taken = Len(out) /\ Taken' = Taken
      /\ Len(out) \in Nat /\ Len(queue) \in Nat /\ Taken \in Nat /\ Entries \in Nat
  BY <1>1, <1>3, TakenNat DEF Taken
<1>5. Entries' = Entries + 1 /\ Entries = Taken + Len(queue)
  BY <1>1, <1>4 DEF Entries
<1>6. /\ Mul(Entries) \in Nat /\ Mul(Entries + 1) = Mul(Entries) + LinesPerBuffer
      /\ LinesPerBuffer \in Nat \ {0} /\ Lines \in Nat \ {0} /\ line \in 0..Lines
  BY <1>3, <1>4, MulFacts, ReaderAssumption DEF Types, ReaderTypes
<1>7. line < Lines /\ line' = line + (IF line + LinesPerBuffer >= Lines THEN Lines - line ELSE LinesPerBuffer)
  BY DEF StartEnter, Wants, Last
<1>8. line = Mul(Entries) /\ Mul(Entries) < Lines
  BY <1>2, <1>6, <1>7 DEF Lined, Capped
<1>9. Mul(Entries') = Mul(Entries) + LinesPerBuffer /\ Mul(Entries' - 1) = Mul(Entries)
  <2>1. Entries' - 1 = Entries
    BY <1>4, <1>5
  <2> QED BY <1>5, <1>6, <2>1
<1>10. line' = IF Mul(Entries') < Lines THEN Mul(Entries') ELSE Lines
  BY <1>6, <1>7, <1>8, <1>9
<1>11. Lined'
  BY <1>8, <1>9, <1>10 DEF Lined, Capped, Mul
<1>12. Numbered'
  <2>1. ASSUME NEW i \in DOMAIN queue' PROVE At(i)'.cmd = Mul(Taken' + i - 1) + 1
    <3>1. CASE i \in DOMAIN queue
      BY <1>1, <1>2, <1>4, <3>1 DEF Numbered
    <3>2. CASE i \notin DOMAIN queue
      <4>1. i = Len(queue) + 1 /\ At(i)' = [NoReq EXCEPT !.cmd = c]
        BY <1>1, <3>2
      <4>2. At(i)'.cmd = c
        BY <4>1 DEF NoReq
      <4>3. Taken' + i - 1 = Entries
        BY <1>4, <1>5, <4>1
      <4> QED BY <1>8, <4>2, <4>3
    <3> QED BY <3>1, <3>2
  <2> QED BY <2>1 DEF Numbered, Mul
<1> QED BY <1>11, <1>12 DEF Planned

\* The data of a buffer is written to the pipe.
LEMMA ImageWaited ==
  ASSUME Base, Base', Image, Waited, Upset => Upset'
  PROVE  Image'
<1>0. /\ rpc = "wait" /\ Idle /\ UNCHANGED << queue, fn, ret, line, req >>
      /\ result = "none"
  BY DEF Waited, queueVars, requests, Base, Calls
<1>1. Lined /\ Numbered
  BY <1>0 DEF Image, Planned, Live, EnterFailed
<1>2. /\ Taken = Len(out) + 1 /\ Len(out) \in Nat /\ Len(queue) \in 0..2
      /\ Entries = Len(out) + 1 + Len(queue) /\ out \in Seq(Nat) /\ ret.got \in Nat
      /\ ret.status \in Statuses
  <2>1. /\ out \in Seq(Nat) /\ queue \in Seq(Node) /\ Len(queue) <= 2 /\ Types
        /\ ret.got \in Nat /\ ret.status \in Statuses
    BY DEF Base, Types, QueueTypes, ReaderTypes, Returns
  <2>2. Taken = Len(out) + 1 /\ Entries = Taken + Len(queue) /\ Len(out) \in Nat
    BY <1>0, <2>1, TakenNat
  <2>3. Len(queue) \in 0..2
    <3>1. Len(queue) \in Nat /\ Len(queue) <= 2
      BY <2>1, TakenNat
    <3> QED BY ONLY <3>1
  <2> QED BY <2>1, <2>2, <2>3
<1>3. CASE ret.status # "good"
  <2>1. rpc' = "exited" /\ result' # "good" /\ UNCHANGED out
    BY <1>3 DEF Waited, Exit
  <2>2. Planned'
    BY <2>1 DEF Planned, Live
  <2>3. Bounded'
    BY <2>1 DEF Image, Bounded, Mul
  <2>4. Correct'
    BY <2>1, CorrectKept DEF Image
  <2> QED BY <2>2, <2>3, <2>4 DEF Image
<1>4. CASE ret.status = "good"
  <2>1. rpc' \in {"block", "enter"} /\ UNCHANGED result /\ out' = Append(out, ret.got)
    BY <1>4 DEF Waited
  <2>2. Len(out') = Len(out) + 1
    BY <1>2, <2>1
  <2>3. Taken' = Taken
    BY <1>2, <2>1, <2>2 DEF Taken
  <2>4. Planned'
    BY <1>0, <2>1, <2>3, PlannedKept DEF Image, At, Live, EnterFailed
  <2>5. Mul(Len(out)) < Lines
    <3>0. Lines \in Nat /\ LinesPerBuffer \in Nat /\ Mul(Len(out)) \in Nat
      BY <1>2, ReaderAssumption, MulFacts
    <3>1. Mul(Entries - 1) < Lines
      BY <1>1, <1>2 DEF Lined
    <3>2. Entries - 1 = Len(out) + Len(queue)
      BY <1>2
    <3>3. CASE Len(queue) = 0
      <4>1. Entries - 1 = Len(out)
        BY <1>2, <3>2, <3>3
      <4> QED BY <3>1, <4>1
    <3>4. CASE Len(queue) = 1
      <4>1. Entries - 1 = Len(out) + 1
        BY <3>2, <3>4
      <4>2. Mul(Entries - 1) = Mul(Len(out)) + LinesPerBuffer
        BY <1>2, <4>1, MulFacts
      <4> QED BY <3>0, <3>1, <4>2
    <3>5. CASE Len(queue) = 2
      <4>1. Entries - 1 = Len(out) + 1 + 1 /\ Len(out) + 1 \in Nat
        BY <1>2, <3>2, <3>5
      <4>2. Mul(Entries - 1) = Mul(Len(out)) + LinesPerBuffer + LinesPerBuffer
        BY <1>2, <4>1, MulFacts
      <4> QED BY <3>0, <3>1, <4>2
    <3> QED BY <1>2, <3>3, <3>4, <3>5
  <2>6. Bounded'
    <3>1. Len(out') - 1 = Len(out)
      BY <1>2, <2>2
    <3> QED BY <1>0, <2>1, <2>5, <3>1 DEF Bounded, Mul
  <2>7. ~Upset => Written'
    <3> SUFFICES ASSUME ~Upset PROVE Written'
      OBVIOUS
    <3>1. Written /\ ret.got = Mul(Len(out)) + 1
      BY <1>0, <1>4 DEF Image, Correct, HeadReturned
    <3>2. ASSUME NEW i \in DOMAIN out' PROVE out'[i] = Mul(i - 1) + 1
      <4>1. CASE i \in DOMAIN out
        <5>1. out'[i] = out[i]
          BY <1>2, <2>1, <4>1
        <5> QED BY <3>1, <4>1, <5>1 DEF Written
      <4>2. CASE i \notin DOMAIN out
        <5>1. i = Len(out) + 1 /\ out'[i] = ret.got
          BY <1>2, <2>1, <4>2
        <5>2. i - 1 = Len(out)
          BY <1>2, <5>1
        <5> QED BY <3>1, <5>1, <5>2
      <4> QED BY <4>1, <4>2
    <3> QED BY <3>2 DEF Written, Mul
  <2>8. Correct'
    BY <2>1, <2>7 DEF Correct, HeadReturned
  <2> QED BY <2>4, <2>6, <2>8 DEF Image
<1> QED BY <1>3, <1>4

\* All the lines have been read when a block ends with nothing left to read.
LEMMA ImageAllRead ==
  ASSUME Base, Image, AllRead, Upset => Upset'
  PROVE  Image'
<1>0. /\ rpc = "block" /\ line >= Lines /\ rpc' = "exited" /\ UNCHANGED out
      /\ Types /\ Len(queue) = 0
  BY DEF AllRead, Exit, Base, Shape, Queued0
<1>1. line = Capped(Entries)
  BY <1>0 DEF Image, Planned, Live, EnterFailed, Lined
<1>2. Entries = Len(out) /\ Len(out) \in Nat
  BY <1>0, TakenNat
<1>3. Mul(Len(out)) \in Nat /\ Lines \in Nat
  BY <1>2, MulFacts, ReaderAssumption
<1>4. Lines <= Mul(Len(out))
  BY <1>0, <1>1, <1>2, <1>3 DEF Capped
<1>5. Bounded'
  BY <1>0, <1>4 DEF Image, Bounded, Mul
<1>6. Planned'
  BY <1>0 DEF Planned, Live
<1>7. Correct'
  BY <1>0, CorrectKept DEF Image
<1> QED BY <1>5, <1>6, <1>7 DEF Image

\* Steps that write nothing and do not end the reader well.
LEMMA BoundedKept == ASSUME Bounded, UNCHANGED out, result' = "good" => result = "good"
                     PROVE  Bounded'
BY DEF Bounded, Mul

\* The steps that neither enter a command nor take one off the queue.
LEMMA ImageKept ==
  ASSUME Image, UNCHANGED << queue, line, out >>, Upset => Upset',
         \A i \in DOMAIN queue : At(i)'.cmd = At(i).cmd,
         Live' /\ ~EnterFailed' => Live /\ ~EnterFailed,
         Live' => (rpc' = "wait" /\ Idle' <=> rpc = "wait" /\ Idle),
         rpc' = "wait" /\ Idle' => UNCHANGED ret,
         result' = "good" => result = "good"
  PROVE  Image'
<1>1. Live' => Taken' = Taken
  BY DEF Taken
<1>2. CASE Live'
  BY <1>1, <1>2, PlannedKept, BoundedKept, CorrectKept DEF Image
<1>3. CASE ~Live'
  <2>1. Planned'
    BY <1>3 DEF Planned
  <2>2. ~(rpc' = "wait")
    BY <1>3 DEF Live
  <2> QED BY <2>1, <2>2, BoundedKept, CorrectKept DEF Image
<1> QED BY <1>2, <1>3

\* The steps of reader_process that do not call the queue.
LEMMA ImageReaderStep ==
  ASSUME Base, Base', Image, ReaderStep, UNCHANGED queueVars, Upset => Upset'
  PROVE  Image'
<1>0. UNCHANGED << queue, req, fn, ret >>
  BY DEF queueVars, requests
<1>1. CASE Waited
  BY <1>1, ImageWaited
<1>2. CASE AllRead
  BY <1>2, ImageAllRead
<1>3. CASE ~Waited /\ ~AllRead
  <2>1. UNCHANGED << line, out >>
    BY <1>3 DEF ReaderStep, BlockStart, NotReady, Entered, NothingToEnter, HandlerExits, Kill,
                vars, reader
  <2>2. rpc' = "wait" <=> rpc = "wait"
    BY <1>3 DEF ReaderStep, BlockStart, NotReady, Entered, NothingToEnter, HandlerExits, Kill,
                vars, reader, Exit
  <2>3. result' = "good" => result = "good"
    BY <1>3 DEF ReaderStep, BlockStart, NotReady, Entered, NothingToEnter, HandlerExits, Kill,
                vars, reader, Exit
  <2>4. Live' /\ ~EnterFailed' => Live /\ ~EnterFailed
    BY <1>0, <1>3 DEF ReaderStep, BlockStart, NotReady, Entered, NothingToEnter, HandlerExits, Kill,
                vars, reader, Exit, Live, EnterFailed, Idle
  <2> QED BY <1>0, <2>1, <2>2, <2>3, <2>4, ImageKept DEF At, Idle
<1> QED BY <1>1, <1>2, <1>3

\* Every step preserves Image.
LEMMA ImageStep ==
  ASSUME Base, Base', Outcome, Image, [Next]_vars PROVE Image'
<1>0. Upset => Upset'
  BY MishapsGrow, UpsetGrows
<1>1. UNCHANGED reader => UNCHANGED << rpc, line, out, result >>
  BY DEF reader
\* A step inside a call of the queue.
<1>2. ASSUME UNCHANGED reader, UNCHANGED << queue, ret >>, ~Idle, ~Idle',
             \A i \in DOMAIN queue : At(i)'.cmd = At(i).cmd
      PROVE  Image'
  BY <1>0, <1>1, <1>2, ImageKept DEF EnterFailed, Live
<1>a. CASE ReaderStep /\ UNCHANGED queueVars
  BY <1>0, <1>a, ImageReaderStep
<1>b. CASE StartWait
  <2>1. /\ rpc = "top" /\ rpc' = "wait" /\ UNCHANGED << queue, req, ret, line, out, result >>
        /\ fn' = Issue([NoFn EXCEPT !.op = "wait", !.id = bstat[bn].id],
                                     bstat[bn].id, "issue", queue, req)
    BY <1>b DEF StartWait, req_wait, requests
  <2>2. fn'.op = "wait"
    BY <2>1 DEF Issue, NoFn
  <2> QED BY <1>0, <2>1, <2>2, ImageKept DEF At, Idle, Live, EnterFailed
<1>c. CASE \E c : StartEnter /\ c = line + 1 /\ (req_enter(c) \/ req_enter_no_mem(c))
  <2>1. PICK c : StartEnter /\ c = line + 1 /\ (req_enter(c) \/ req_enter_no_mem(c))
    BY <1>c
  <2>2. UNCHANGED << out, result >> /\ rpc' = "entering"
    BY <2>1 DEF StartEnter
  <2>3. Bounded' /\ Correct'
    BY <1>0, <2>2, BoundedKept, CorrectKept DEF Image
  <2>4. CASE req_enter(c)
    BY <2>1, <2>3, <2>4, ImageEntered DEF Image
  <2>5. CASE req_enter_no_mem(c)
    <3>1. EnterFailed'
      BY <2>2, <2>5 DEF req_enter_no_mem, EnterFailed, Idle
    <3> QED BY <2>3, <3>1 DEF Image, Planned
  <2> QED BY <2>1, <2>4, <2>5
<1>d. CASE sigterm_handler
  <2>1. rpc' = "flush" /\ UNCHANGED << queue, req, line, out, result >>
    BY <1>d DEF sigterm_handler, flush_all, requests
  <2> QED BY <1>0, <2>1, ImageKept DEF At, Live
<1>e. CASE UNCHANGED reader /\ AttemptTaken
  <2>1. /\ SameCall /\ UNCHANGED << queue, ret >>
        /\ \A i \in DOMAIN queue : At(i)'.cmd = At(i).cmd
    BY <1>e, TakenFacts
  <2>2. ~Idle
    BY <1>e DEF AttemptTaken, Looping, Issuing, Idle, Base, Calls
  <2> QED BY <1>e, <1>2, <2>1, <2>2 DEF SameCall, Idle
<1>f. CASE UNCHANGED reader /\ (AttemptAgain \/ AttemptLater)
  <2>1. /\ SameCall /\ UNCHANGED << queue, ret >>
        /\ \A i \in DOMAIN queue : At(i)'.cmd = At(i).cmd
    BY <1>f, PutOffFacts
  <2>2. ~Idle
    BY <1>f DEF AttemptAgain, AttemptLater, Looping, Issuing, Idle, Base, Calls
  <2> QED BY <1>f, <1>2, <2>1, <2>2 DEF SameCall, Idle
<1>g. CASE UNCHANGED reader /\ AttemptRefused
  <2>1. /\ SameCall /\ UNCHANGED << queue, ret >>
        /\ \A i \in DOMAIN queue : At(i)'.cmd = At(i).cmd
    BY <1>g, RefusedFacts
  <2>2. ~Idle
    BY <1>g DEF AttemptRefused, Looping, Issuing, Idle, Base, Calls
  <2> QED BY <1>g, <1>2, <2>1, <2>2 DEF SameCall, Idle
<1>h. CASE UNCHANGED reader /\ EnterReturns
  <2>1. UNCHANGED << queue, req >> /\ fn.op = "enter"
    BY <1>h DEF EnterReturns, requests
  <2>2. rpc = "entering" /\ ~Idle
    BY <2>1 DEF Idle, Base, Calls, Types, ReaderTypes, Places
  <2> QED BY <1>0, <1>1, <1>h, <2>1, <2>2, ImageKept DEF At, Live, EnterFailed
<1>i. ASSUME NEW st, NEW got, Finished(st, got), UNCHANGED reader PROVE Image'
  <2>1. /\ UNCHANGED << queue, ret >> /\ ~Idle /\ ~Idle'
        /\ \A i \in DOMAIN queue : At(i)'.cmd = At(i).cmd
    BY <1>i DEF Finished, Running, Idle
  <2> QED BY <1>2, <1>i, <2>1
<1>j. CASE UNCHANGED reader /\ WaitOver
  BY <1>j, <1>i, WaitOverView
<1>k. CASE UNCHANGED reader /\ WaitRead
  BY <1>k, <1>i, WaitReadView
<1>l. CASE UNCHANGED reader /\ WaitInterrupted
  BY <1>l, <1>i, WaitInterruptedView
<1>m. CASE UNCHANGED reader /\ WaitSG3
  BY <1>m, <1>i, WaitSG3View
<1>n. CASE UNCHANGED reader /\ WaitReturns
  BY <1>0, <1>1, <1>n, ImageReturned, BoundedKept DEF Image
<1>o. CASE UNCHANGED reader /\ rpc # "exited" /\ Flush
  <2>1. rpc' = "flush"
    BY <1>o, FlushView
  <2>2. Planned'
    BY <2>1 DEF Planned, Live
  <2> QED BY <1>0, <1>1, <1>o, <2>1, <2>2, BoundedKept, CorrectKept DEF Image
<1>p. CASE UNCHANGED reader /\ DeviceAnswers
  <2>1. UNCHANGED << queue, req, fn, ret >>
    BY <1>p DEF DeviceAnswers, requests
  <2> QED BY <1>0, <1>1, <1>p, <2>1, ImageKept DEF At, Live, EnterFailed, Idle
<1> QED BY StepCases, <1>a, <1>b, <1>c, <1>d, <1>e, <1>f, <1>g, <1>h, <1>j, <1>k, <1>l,
           <1>m, <1>n, <1>o, <1>p

(***************************************************************************)
(* The commands in the queue continue the lines written so far, and        *)
(* s->line stands behind them all.                                         *)
(***************************************************************************)
THEOREM ImageHolds == Spec => []Image
<1>1. ReaderInit => Image
  BY InitImage
<1>2. Base /\ Base' /\ Outcome /\ Image /\ [Next]_vars => Image'
  BY ImageStep
<1> QED BY <1>1, <1>2, BaseHolds, OutcomeHolds, PTL DEF Spec

\* The number of buffers that the lines fill, the last one perhaps in part.
LEMMA BuffersFacts ==
  ASSUME NEW n \in Nat
  PROVE  /\ Buffers \in Nat
         /\ (n > 0 => Mul(n - 1) < Lines) => n <= Buffers
         /\ Lines <= Mul(n) => Buffers <= n
<1> DEFINE s == Lines + LinesPerBuffer - 1
           P == LinesPerBuffer
<1>1. P \in Nat \ {0} /\ s \in Nat /\ Lines \in Nat \ {0} /\ Lines = s - P + 1
  BY ReaderAssumption
<1>2. Buffers \in Nat /\ P * Buffers <= s /\ s < P * (Buffers + 1)
  <2>1. Buffers = s \div P
    BY DEF Buffers
  <2> HIDE DEF s, P
  <2> QED BY <1>1, <2>1
<1> HIDE DEF s
<1>3. ASSUME n > 0, Mul(n - 1) < Lines PROVE n <= Buffers
  <2>1. (n - 1) * P < s - P + 1
    BY <1>1, <1>3 DEF Mul
  <2> SUFFICES ASSUME n > Buffers PROVE FALSE
    BY <1>2
  <2>2. n - 1 >= Buffers /\ n - 1 \in Nat
    BY <1>2, <1>3
  <2> HIDE DEF P
  <2>3. (n - 1) * P >= Buffers * P
    BY <1>1, <1>2, <2>2
  <2> QED BY <1>1, <1>2, <2>1, <2>3
<1>4. ASSUME Lines <= Mul(n) PROVE Buffers <= n
  <2>1. s - P + 1 <= n * P
    BY <1>1, <1>4 DEF Mul
  <2> SUFFICES ASSUME Buffers > n PROVE FALSE
    BY <1>2
  <2>2. Buffers >= n + 1
    BY <1>2
  <2> HIDE DEF P
  <2>3. Buffers * P >= (n + 1) * P
    BY <1>1, <1>2, <2>2
  <2> QED BY <1>1, <1>2, <2>1, <2>3
<1> QED BY <1>1, <1>2, <1>3, <1>4

(***************************************************************************)
(* What reader_process writes to the pipe are the lines of the image in    *)
(* order, none missing, and all of them when it ends with                  *)
(* SANE_STATUS_GOOD.                                                       *)
(***************************************************************************)
THEOREM ImageOrdered == Spec => []ImageInOrder
<1>1. Base /\ Image => ImageInOrder
  <2> SUFFICES ASSUME Base, Image, ~Upset PROVE ImageInOrder
    BY DEF ImageInOrder
  <2>1. Len(out) \in Nat
    BY DEF Base, Types, ReaderTypes
  <2>2. Buffers \in Nat /\ Len(out) <= Buffers /\ (result = "good" => Buffers <= Len(out))
    BY <2>1, BuffersFacts DEF Image, Bounded
  <2>3. result = "good" => Len(out) = Buffers
    BY <2>1, <2>2
  <2>4. \A i \in DOMAIN out : out[i] = (i - 1) * LinesPerBuffer + 1
    BY DEF Image, Correct, Written, Mul
  <2> QED BY <2>2, <2>3, <2>4 DEF ImageInOrder
<1> QED BY <1>1, BaseHolds, ImageHolds, PTL
===============================================================================
