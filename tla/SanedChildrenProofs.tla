-------------------------- MODULE SanedChildrenProofs --------------------------
(***************************************************************************)
(* Proofs about the parent of a stand-alone saned, for every set of        *)
(* process numbers, every number of connections and of sockets: what its   *)
(* list of children may hold.                                              *)
(***************************************************************************)
EXTENDS SanedChildren, SequenceTheorems, WellFoundedInduction, TLAPS

\* A set of natural numbers that is not empty has a least one.
LEMMA LeastNatural ==
  ASSUME NEW S, S \subseteq Nat, S # {}
  PROVE  Min(S) \in S /\ \A y \in S : Min(S) <= y
<1>1. \E R : /\ IsWellFoundedOn(R, Nat)
             /\ \A y, z \in Nat : y < z => <<y, z>> \in R
  <2>1. \A y, z \in Nat : y < z => <<y, z>> \in OpToRel(<, Nat)
    BY Zenon DEF OpToRel
  <2> QED
    BY <2>1, NatLessThanWellFounded, Zenon
<1>2. PICK R : /\ IsWellFoundedOn(R, Nat)
               /\ \A y, z \in Nat : y < z => <<y, z>> \in R
  BY <1>1, Zenon
<1>3. IsWellFoundedOn(R, Nat)
  BY <1>2, Zenon
<1>4. \E x \in S : \A y \in S : ~ (<<y, x>> \in R)
  BY <1>3, WFMin, Zenon
<1>5. PICK x \in S : \A y \in S : <<y, x>> \notin R
  BY <1>4, Zenon
<1>6. \A y \in S : ~(y < x)
  <2> TAKE y \in S
  <2>1. y \in Nat /\ x \in Nat
    OBVIOUS
  <2> QED
    BY <1>2, <1>5, <2>1, Zenon
<1>7. \A y \in S : x <= y
  BY <1>6
<1> QED
  BY <1>7 DEF Min

-------------------------------------------------------------------------------
(* The inductive invariant.                                                *)

Loop == {"poll", "reap", "serve"}

DaemonTypes ==
  /\ ProcTypeOK
  /\ children \in Seq(Pid)
  /\ got \in Pid \cup {Avahi, NoPid}
  /\ dpc \in Loop \cup {"bail", "exited"}

\* Outside wait_child nothing is left to be booked.
Booked == dpc \in {"poll", "serve"} => got = NoPid

\* No process is twice in the list in front of its last element.
Distinct ==
  dpc \in Loop =>
    \A i, j \in 1 .. Len(children) - 1 : i # j => children[i] # children[j]

IInv == DaemonTypes /\ Booked /\ Distinct /\ StaleIsLast

LEMMA InitHolds == Init => IInv
<1> SUFFICES ASSUME Init PROVE IInv
  OBVIOUS
<1>1. children = << >> /\ Len(children) = 0
  BY DEF Init, DaemonInit
<1>2. DaemonTypes /\ Booked
  BY <1>1 DEF Init, ProcInit, DaemonInit, DaemonTypes, ProcTypeOK, Booked, Loop
<1>3. Distinct /\ StaleIsLast
  BY <1>1 DEF Distinct, StaleIsLast
<1> QED
  BY <1>2, <1>3 DEF IInv

\* A step that leaves the list, the table and the books alone.
LEMMA QuietKeeps ==
  ASSUME IInv, UNCHANGED << proc, children >>,
         got' = got \/ (got' = NoPid /\ dpc' \notin Loop),
         dpc' \in Loop \cup {"bail", "exited"},
         dpc' \in Loop => dpc \in Loop,
         dpc' \in {"poll", "serve"} => got' = NoPid
  PROVE  IInv'
BY DEF IInv, DaemonTypes, ProcTypeOK, Booked, Distinct, StaleIsLast, Loop, Exists

\* What the table forgets is what waitpid has returned.
LEMMA WaitpidKeeps ==
  ASSUME IInv, Waitpid, dpc \in {"reap", "bail"}
  PROVE  IInv'
<1>1. PICK z \in Zombies :
        /\ got' = z
        /\ IF z = Avahi THEN avahi' = "none" /\ UNCHANGED proc
                        ELSE Reaped(z) /\ UNCHANGED avahi
  BY DEF Waitpid
<1>2. UNCHANGED << dpc, children >> /\ got = NoPid
  BY DEF Waitpid
<1>3. Avahi \notin Pid /\ NoPid \notin Pid
  BY DaemonConstants
<1>4. /\ z \in Pid \cup {Avahi}
      /\ proc' \in [Pid -> {"free", "run", "zombie"}]
      /\ \A p \in Pid : p # z => proc'[p] = proc[p]
  BY <1>1, <1>3 DEF Zombies, Reaped, IInv, DaemonTypes, ProcTypeOK
<1>5. DaemonTypes' /\ Booked' /\ Distinct'
  BY <1>1, <1>2, <1>4 DEF IInv, DaemonTypes, ProcTypeOK, Booked, Distinct
<1>6. StaleIsLast'
  <2> SUFFICES ASSUME dpc \in Loop, NEW i \in 1 .. Len(children) - 1
               PROVE  proc'[children[i]] # "free" \/ children[i] = z
    BY <1>1, <1>2 DEF StaleIsLast, Exists, Loop
  <2>1. children[i] \in Pid
    BY ElementOfSeq, LenProperties DEF IInv, DaemonTypes
  <2>2. proc[children[i]] # "free"
    BY <1>2, <1>3, <2>1 DEF IInv, StaleIsLast, Exists, Loop
  <2> QED
    BY <1>4, <2>1, <2>2
<1> QED
  BY <1>5, <1>6 DEF IInv

\* Taking the element at place k out of a list.
LEMMA RemoveAtProperties ==
  ASSUME NEW S, NEW s \in Seq(S), NEW k \in 1 .. Len(s)
  PROVE  /\ RemoveAt(s, k) \in Seq(S)
         /\ Len(RemoveAt(s, k)) = Len(s) - 1
         /\ \A i \in 1 .. Len(s) - 1 :
              RemoveAt(s, k)[i] = IF i < k THEN s[i] ELSE s[i + 1]
<1> DEFINE a == SubSeq(s, 1, k - 1)
           b == SubSeq(s, k + 1, Len(s))
<1>1. Len(s) \in Nat /\ k \in Nat /\ 1 <= k /\ k <= Len(s)
  BY LenProperties
<1>2. /\ a \in Seq(S) /\ Len(a) = k - 1
      /\ \A i \in 1 .. (k - 1) : a[i] = s[i]
  BY <1>1, SubSeqProperties
<1>3. /\ b \in Seq(S) /\ Len(b) = Len(s) - k
      /\ \A i \in 1 .. (Len(s) - k) : b[i] = s[k + i]
  BY <1>1, SubSeqProperties
<1> HIDE DEF a, b
<1>4. a \o b \in Seq(S) /\ Len(a \o b) = Len(s) - 1
  <2>1. a \o b \in Seq(S) /\ Len(a \o b) = Len(a) + Len(b)
    BY <1>2, <1>3, ConcatProperties
  <2> QED
    BY <1>1, <1>2, <1>3, <2>1
<1>5. \A i \in 1 .. Len(s) - 1 : (a \o b)[i] = IF i < k THEN s[i] ELSE s[i + 1]
  <2> TAKE i \in 1 .. Len(s) - 1
  <2>1. CASE i < k
    <3>1. (a \o b)[i] = a[i] /\ i \in 1 .. (k - 1)
      BY <2>1, <1>1, <1>2, <1>3
    <3> QED
      BY <2>1, <3>1, <1>2
  <2>2. CASE ~(i < k)
    <3>1. (a \o b)[i] = b[i - (k - 1)] /\ i - (k - 1) \in 1 .. (Len(s) - k)
      BY <2>2, <1>1, <1>2, <1>3
    <3>2. b[i - (k - 1)] = s[k + (i - (k - 1))] /\ k + (i - (k - 1)) = i + 1
      BY <3>1, <1>1, <1>3
    <3> QED
      BY <2>2, <3>1, <3>2
  <2> QED
    BY <2>1, <2>2
<1>6. RemoveAt(s, k) = a \o b
  BY DEF RemoveAt, a, b
<1> QED
  BY <1>4, <1>5, <1>6

\* Where the list has a process.
LEMMA ListedAtProperties ==
  ASSUME children \in Seq(Pid), NEW p
  PROVE  /\ (\A i \in 1 .. Len(children) : children[i] # p) => ListedAt(p) = 0
         /\ (\E i \in 1 .. Len(children) : children[i] = p)
              => /\ ListedAt(p) \in 1 .. Len(children)
                 /\ children[ListedAt(p)] = p
                 /\ \A i \in 1 .. Len(children) : children[i] = p => ListedAt(p) <= i
<1> DEFINE I == { i \in 1 .. Len(children) : children[i] = p }
<1>1. ListedAt(p) = IF I # {} THEN Min(I) ELSE 0
  BY Zenon DEF ListedAt, SelectInSeq
<1>2. I \subseteq Nat
  OBVIOUS
<1>3. I # {} => Min(I) \in I /\ \A y \in I : Min(I) <= y
  <2> HIDE DEF I
  <2> QED
    BY <1>2, LeastNatural
<1>4. (\A i \in 1 .. Len(children) : children[i] # p) => ListedAt(p) = 0
  BY <1>1, Zenon
<1>5. ASSUME \E i \in 1 .. Len(children) : children[i] = p
      PROVE  /\ ListedAt(p) \in 1 .. Len(children)
             /\ children[ListedAt(p)] = p
             /\ \A i \in 1 .. Len(children) : children[i] = p => ListedAt(p) <= i
  <2>1. I # {}
    BY <1>5
  <2>2. ListedAt(p) \in I /\ \A y \in I : ListedAt(p) <= y
    BY <1>1, <1>3, <2>1, Zenon
  <2> HIDE DEF ListedAt
  <2> QED
    BY <2>2
<1> QED
  BY <1>4, <1>5

\* The process waitpid has returned is taken off the list, unless it is the last.
LEMMA BookKeeps ==
  ASSUME IInv, Book, dpc \in {"reap", "bail"}
  PROVE  IInv'
<1> DEFINE k == ListedAt(got)
<1>1. /\ UNCHANGED << dpc, proc >> /\ got' = NoPid /\ children \in Seq(Pid)
      /\ Len(children) \in Nat /\ proc \in [Pid -> {"free", "run", "zombie"}]
      /\ \A i \in 1 .. Len(children) : children[i] \in Pid
  BY ElementOfSeq, LenProperties DEF Book, IInv, DaemonTypes, ProcTypeOK
<1>2. Avahi \notin Pid /\ NoPid \notin Pid
  BY DaemonConstants
<1>3. CASE /\ UNCHANGED children
           /\ \A i \in 1 .. Len(children) - 1 : children[i] # got
  <2>1. DaemonTypes' /\ Booked' /\ Distinct'
    BY <1>1, <1>3 DEF IInv, DaemonTypes, ProcTypeOK, Booked, Distinct
  <2>2. StaleIsLast'
    BY <1>1, <1>3 DEF IInv, StaleIsLast, Exists
  <2> QED
    BY <2>1, <2>2 DEF IInv
<1>4. CASE BookAvahi
  BY <1>1, <1>2, <1>3, <1>4 DEF BookAvahi
<1>5. CASE BookChild /\ ~InFront(got)
  <2>1. UNCHANGED children
    BY <1>5 DEF BookChild
  <2>2. \A i \in 1 .. Len(children) - 1 : children[i] # got
    BY <1>1, <1>5, ListedAtProperties DEF InFront
  <2> QED
    BY <2>1, <2>2, <1>3
<1>6. CASE BookChild /\ InFront(got)
  <2>1. children' = RemoveAt(children, k) /\ k # 0 /\ k < Len(children)
    BY <1>6 DEF BookChild, InFront
  <2>2. /\ k \in 1 .. Len(children) - 1 /\ children[k] = got
        /\ k \in 1 .. Len(children)
    BY <1>1, <2>1, ListedAtProperties
  <2>3. /\ children' \in Seq(Pid) /\ Len(children') = Len(children) - 1
        /\ \A i \in 1 .. Len(children) - 1 :
             children'[i] = IF i < k THEN children[i] ELSE children[i + 1]
    <3> HIDE DEF k
    <3> QED
      BY <1>1, <2>1, <2>2, RemoveAtProperties
  <2>4. DaemonTypes' /\ Booked'
    BY <1>1, <2>3 DEF IInv, DaemonTypes, ProcTypeOK, Booked
  <2>5. Distinct'
    <3> SUFFICES ASSUME dpc \in Loop,
                        NEW i \in 1 .. Len(children) - 2,
                        NEW j \in 1 .. Len(children) - 2, i # j
                 PROVE  children'[i] # children'[j]
      BY <1>1, <2>3 DEF Distinct
    <3>1. \A a, b \in 1 .. Len(children) - 1 : a # b => children[a] # children[b]
      BY DEF IInv, Distinct
    <3> HIDE DEF k
    <3> DEFINE a == IF i < k THEN i ELSE i + 1
               b == IF j < k THEN j ELSE j + 1
    <3>2. a \in 1 .. Len(children) - 1 /\ b \in 1 .. Len(children) - 1 /\ a # b
      <4>1. Len(children) \in Nat /\ k \in Nat /\ i \in Nat /\ j \in Nat
            /\ 1 <= i /\ i <= Len(children) - 2 /\ 1 <= j /\ j <= Len(children) - 2
        BY <1>1, <2>2
      <4>2. /\ a \in Nat /\ 1 <= a /\ a <= Len(children) - 1
            /\ b \in Nat /\ 1 <= b /\ b <= Len(children) - 1
            /\ a # b
        BY <4>1
      <4> QED
        BY <4>1, <4>2
    <3>3. children'[i] = children[a] /\ children'[j] = children[b]
      <4>1. i \in 1 .. Len(children) - 1 /\ j \in 1 .. Len(children) - 1
        BY <1>1
      <4>2. children'[i] = children[a]
        BY <2>3, <4>1
      <4>3. children'[j] = children[b]
        BY <2>3, <4>1
      <4> QED
        BY <4>2, <4>3
    <3> HIDE DEF a, b
    <3> QED
      BY <3>1, <3>2, <3>3
  <2>6. StaleIsLast'
    <3> SUFFICES ASSUME dpc \in Loop, NEW i \in 1 .. Len(children) - 2
                 PROVE  proc[children'[i]] # "free"
      BY <1>1, <2>3 DEF StaleIsLast, Exists, Loop
    <3>1. \A a, b \in 1 .. Len(children) - 1 : a # b => children[a] # children[b]
      BY DEF IInv, Distinct
    <3>2. \A a \in 1 .. Len(children) - 1 : proc[children[a]] # "free" \/ children[a] = got
      BY DEF IInv, StaleIsLast, Exists, Loop
    <3> HIDE DEF k
    <3>3. \A a \in 1 .. Len(children) - 1 : a # k => proc[children[a]] # "free"
      BY <2>2, <3>1, <3>2
    <3>4. Len(children) \in Nat /\ k \in Nat
      BY <1>1, <2>2
    <3>5. CASE i < k
      <4>1. children'[i] = children[i] /\ i \in 1 .. Len(children) - 1 /\ i # k
        BY <2>3, <3>4, <3>5
      <4> QED
        BY <3>3, <4>1
    <3>6. CASE ~(i < k)
      <4>1. children'[i] = children[i + 1] /\ i + 1 \in 1 .. Len(children) - 1 /\ i + 1 # k
        BY <2>3, <3>4, <3>6
      <4> QED
        BY <3>3, <4>1
    <3> QED
      BY <3>5, <3>6
  <2> QED
    BY <2>4, <2>5, <2>6 DEF IInv
<1> QED
  BY <1>4, <1>5, <1>6 DEF Book

\* The new child goes to the front; its number is that of no child in front of
\* the last element.
LEMMA HandleClientKeeps ==
  ASSUME IInv, NEW p \in Pid, HandleClient(p)
  PROVE  IInv'
<1>1. /\ dpc = "serve" /\ dpc' \in {"poll", "serve"}
      /\ got = NoPid /\ got' = NoPid
      /\ proc \in [Pid -> {"free", "run", "zombie"}]
      /\ proc[p] = "free" /\ proc' = [proc EXCEPT ![p] = "run"]
      /\ children \in Seq(Pid) /\ Len(children) \in Nat
      /\ \A i \in 1 .. Len(children) : children[i] \in Pid
  BY ElementOfSeq, LenProperties
     DEF HandleClient, NextSocket, Forked, IInv, DaemonTypes, ProcTypeOK, Booked
<1>2. \A i \in 1 .. Len(children) - 1 : proc[children[i]] # "free"
  BY <1>1, DaemonConstants DEF IInv, StaleIsLast, Exists
<1>3. \A i, j \in 1 .. Len(children) - 1 : i # j => children[i] # children[j]
  BY <1>1 DEF IInv, Distinct, Loop
<1>4. proc' \in [Pid -> {"free", "run", "zombie"}] /\ proc'[p] = "run"
      /\ \A i \in 1 .. Len(children) - 1 : proc'[children[i]] # "free"
  BY <1>1, <1>2
<1>5. CASE UNCHANGED children
  BY <1>1, <1>3, <1>4, <1>5
     DEF IInv, DaemonTypes, ProcTypeOK, Booked, Distinct, StaleIsLast, Exists, Loop
<1>6. CASE children' = << p >> \o children
  <2>1. /\ children' \in Seq(Pid) /\ Len(children') = Len(children) + 1
        /\ children'[1] = p
        /\ \A i \in 2 .. Len(children) + 1 : children'[i] = children[i - 1]
    BY <1>1, <1>6
  <2>2. DaemonTypes' /\ Booked'
    BY <1>1, <1>4, <2>1 DEF DaemonTypes, ProcTypeOK, Booked, Loop
  <2>3. \A i \in 1 .. Len(children) : i = 1 \/ (/\ i - 1 \in 1 .. Len(children) - 1
                                             /\ children'[i] = children[i - 1])
    BY <1>1, <2>1
  <2>4. Distinct'
    <3> SUFFICES ASSUME NEW i \in 1 .. Len(children), NEW j \in 1 .. Len(children), i # j
                 PROVE  children'[i] # children'[j]
      BY <1>1, <2>1 DEF Distinct
    <3>1. \A a \in 1 .. Len(children) - 1 : children[a] # p
      BY <1>1, <1>2
    <3>2. CASE i = 1
      BY <3>1, <3>2, <2>1, <2>3
    <3>3. CASE j = 1
      BY <3>1, <3>3, <2>1, <2>3
    <3>4. CASE i # 1 /\ j # 1
      BY <3>4, <1>1, <1>3, <2>3
    <3> QED
      BY <3>2, <3>3, <3>4
  <2>5. StaleIsLast'
    BY <1>1, <1>4, <2>1, <2>3 DEF StaleIsLast, Exists
  <2> QED
    BY <2>2, <2>4, <2>5 DEF IInv
<1> QED
  BY <1>5, <1>6 DEF HandleClient

\* A process ends and stays in the table.
LEMMA ExitKeeps ==
  ASSUME IInv, NEW p \in Pid, ChildExits(p)
  PROVE  IInv'
<1>1. /\ UNCHANGED << dpc, children, got >>
      /\ proc' = [proc EXCEPT ![p] = "zombie"] /\ proc \in [Pid -> {"free", "run", "zombie"}]
      /\ \A i \in 1 .. Len(children) - 1 : children[i] \in Pid
  BY ElementOfSeq, LenProperties
     DEF ChildExits, Exited, daemonVars, IInv, DaemonTypes, ProcTypeOK
<1> QED
  BY <1>1 DEF IInv, DaemonTypes, ProcTypeOK, Booked, Distinct, StaleIsLast, Exists

LEMMA StepKeeps == IInv /\ [Next]_vars => IInv'
<1> SUFFICES ASSUME IInv, [Next]_vars PROVE IInv'
  OBVIOUS
<1>1. CASE PollReturns \/ PollFails \/ ReapDone \/ ClientLost \/ Rebind
  BY <1>1, QuietKeeps DEF PollReturns, PollFails, ReapDone, ClientLost, NextSocket, Rebind,
                          IInv, Booked, Loop
<1>2. CASE Signal \/ SecondSignal \/ BailExit
  BY <1>2, QuietKeeps DEF Signal, SecondSignal, BailExit, Loop
<1>3. CASE AvahiExits \/ UNCHANGED vars
  BY <1>3, QuietKeeps DEF AvahiExits, vars, daemonVars, IInv, DaemonTypes, Booked, Loop
<1>4. CASE ReapStep \/ BailStep
  BY <1>4, WaitpidKeeps, BookKeeps DEF ReapStep, BailStep
<1>5. ASSUME NEW p \in Pid, InitReaps(p) PROVE IInv'
  BY <1>5 DEF InitReaps, Reaped, daemonVars, IInv, DaemonTypes, ProcTypeOK, Booked,
              Distinct, StaleIsLast, Loop
<1> QED
  BY <1>1, <1>2, <1>3, <1>4, <1>5, HandleClientKeeps, ExitKeeps DEF Next

LEMMA InvariantHolds == Spec => []IInv
BY InitHolds, StepKeeps, PTL DEF Spec

(***************************************************************************)
(* wait_child forgets no process but the last of the list of children, in  *)
(* whatever order connections come and processes end: for every set of     *)
(* process numbers, an element in front of the last one is a process that  *)
(* the kernel knows or the one that is being booked.                       *)
(***************************************************************************)
THEOREM ListHoldsChildren == Spec => []StaleIsLast
<1>1. IInv => StaleIsLast
  BY DEF IInv
<1> QED
  BY <1>1, InvariantHolds, PTL
===============================================================================
