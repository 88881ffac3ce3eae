---------------------------- MODULE ByteSwapProofs ----------------------------
(***************************************************************************)
(* Proofs about ByteSwap: no byte of a scan is lost or doubled, and the    *)
(* calls named by SwapInOrder put the samples in order, for every set of   *)
(* handles, every byte order, every frame size and every way in which      *)
(* read(2) cuts the data.                                                  *)
(***************************************************************************)
EXTENDS ByteSwap, SequenceTheorems, TLAPS

-------------------------------------------------------------------------------
(* Sequences of bytes.                                                     *)

\* What a concatenation holds.
LEMMA JoinSet ==
  ASSUME NEW s \in Seq(Int), NEW t \in Seq(Int)
  PROVE  ToSet(s \o t) = ToSet(s) \cup ToSet(t)
<1>1. \A x \in ToSet(s \o t) : x \in ToSet(s) \cup ToSet(t)
  BY ConcatProperties, LenProperties DEF ToSet
<1>2. \A x \in ToSet(s) : x \in ToSet(s \o t)
  <2> SUFFICES ASSUME NEW i \in 1..Len(s) PROVE s[i] \in ToSet(s \o t)
    BY LenProperties DEF ToSet
  <2>1. Len(s) \in Nat /\ Len(t) \in Nat
    BY LenProperties
  <2>2. i \in 1..(Len(s) + Len(t)) /\ i <= Len(s)
    BY <2>1
  <2>3. (s \o t)[i] = s[i]
    BY <2>2, ConcatProperties
  <2>4. DOMAIN (s \o t) = 1..(Len(s) + Len(t))
    BY ConcatProperties, LenProperties
  <2> QED
    BY <2>2, <2>3, <2>4 DEF ToSet
<1>3. \A x \in ToSet(t) : x \in ToSet(s \o t)
  <2> SUFFICES ASSUME NEW i \in 1..Len(t) PROVE t[i] \in ToSet(s \o t)
    BY LenProperties DEF ToSet
  <2>1. Len(s) \in Nat /\ Len(t) \in Nat
    BY LenProperties
  <2>2. Len(s) + i \in 1..(Len(s) + Len(t)) /\ ~(Len(s) + i <= Len(s))
        /\ (Len(s) + i) - Len(s) = i
    BY <2>1
  <2>3. (s \o t)[Len(s) + i] = t[i]
    BY <2>2, ConcatProperties
  <2>4. DOMAIN (s \o t) = 1..(Len(s) + Len(t))
    BY ConcatProperties, LenProperties
  <2> QED
    BY <2>2, <2>3, <2>4 DEF ToSet
<1> QED
  BY <1>1, <1>2, <1>3

\* Two sequences without repetitions and with no byte in common.
LEMMA JoinInjective ==
  ASSUME NEW s \in Seq(Int), NEW t \in Seq(Int),
         IsInjective(s), IsInjective(t), ToSet(s) \cap ToSet(t) = {}
  PROVE  IsInjective(s \o t)
<1>1. Len(s) \in Nat /\ Len(t) \in Nat
  BY LenProperties
<1>2. DOMAIN s = 1..Len(s) /\ DOMAIN t = 1..Len(t)
      /\ DOMAIN (s \o t) = 1..(Len(s) + Len(t))
  BY ConcatProperties, LenProperties
<1>3. \A i \in 1..(Len(s) + Len(t)) :
        (s \o t)[i] = IF i <= Len(s) THEN s[i] ELSE t[i - Len(s)]
  BY ConcatProperties
<1>4. \A i \in 1..Len(s), j \in 1..Len(t) : s[i] # t[j]
  BY <1>2 DEF ToSet
<1>5. \A i, j \in 1..Len(s) : s[i] = s[j] => i = j
  BY <1>2 DEF IsInjective
<1>6. \A i, j \in 1..Len(t) : t[i] = t[j] => i = j
  BY <1>2 DEF IsInjective
<1>7. \A i, j \in 1..(Len(s) + Len(t)) : (s \o t)[i] = (s \o t)[j] => i = j
  <2> SUFFICES ASSUME NEW i \in 1..(Len(s) + Len(t)),
                      NEW j \in 1..(Len(s) + Len(t)),
                      (s \o t)[i] = (s \o t)[j]
               PROVE  i = j
    OBVIOUS
  <2>1. CASE i <= Len(s) /\ j <= Len(s)
    BY <1>1, <1>3, <1>5, <2>1
  <2>2. CASE i <= Len(s) /\ ~(j <= Len(s))
    <3>1. i \in 1..Len(s) /\ j - Len(s) \in 1..Len(t)
      BY <1>1, <2>2
    <3>2. (s \o t)[i] = s[i] /\ (s \o t)[j] = t[j - Len(s)]
      BY <1>3, <2>2
    <3> QED
      BY <1>4, <3>1, <3>2
  <2>3. CASE ~(i <= Len(s)) /\ j <= Len(s)
    <3>1. j \in 1..Len(s) /\ i - Len(s) \in 1..Len(t)
      BY <1>1, <2>3
    <3>2. (s \o t)[j] = s[j] /\ (s \o t)[i] = t[i - Len(s)]
      BY <1>3, <2>3
    <3> QED
      BY <1>4, <3>1, <3>2
  <2>4. CASE ~(i <= Len(s)) /\ ~(j <= Len(s))
    <3>1. j - Len(s) \in 1..Len(t) /\ i - Len(s) \in 1..Len(t)
      BY <1>1, <2>4
    <3>2. t[j - Len(s)] = t[i - Len(s)]
      BY <1>3, <2>4
    <3>3. j - Len(s) = i - Len(s)
      BY <1>6, <3>1, <3>2
    <3> QED
      BY <1>1, <3>3
  <2> QED
    BY <2>1, <2>2, <2>3, <2>4
<1> QED
  BY <1>2, <1>7 DEF IsInjective

\* t holds the bytes of s at the places of q, each once; J are the other places.
Takes(s, t, q, J) ==
  /\ s \in Seq(Int) /\ t \in Seq(Int) /\ IsInjective(s)
  /\ q \in [1..Len(t) -> 1..Len(s)] /\ J \in SUBSET (1..Len(s))
  /\ \A i, j \in 1..Len(t) : q[i] = q[j] => i = j
  /\ \A k \in 1..Len(t) : t[k] = s[q[k]] /\ q[k] \notin J
  /\ \A i \in 1..Len(s) : i \notin J => \E k \in 1..Len(t) : q[k] = i

LEMMA Reordered ==
  ASSUME NEW s, NEW t, NEW q, NEW J, Takes(s, t, q, J)
  PROVE  /\ IsInjective(t)
         /\ ToSet(t) \cup { s[j] : j \in J } = ToSet(s)
         /\ ToSet(t) \cap { s[j] : j \in J } = {}
<1> USE DEF Takes
<1>1. DOMAIN s = 1..Len(s) /\ DOMAIN t = 1..Len(t)
  BY LenProperties
<1>2. \A i, j \in 1..Len(s) : s[i] = s[j] => i = j
  BY <1>1 DEF IsInjective
<1>3. IsInjective(t)
  <2> SUFFICES ASSUME NEW i \in 1..Len(t), NEW j \in 1..Len(t), t[i] = t[j]
               PROVE  i = j
    BY <1>1 DEF IsInjective
  <2>1. s[q[i]] = s[q[j]] /\ q[i] \in 1..Len(s) /\ q[j] \in 1..Len(s)
    OBVIOUS
  <2>2. q[i] = q[j]
    BY <1>2, <2>1
  <2> QED
    BY <2>2
<1>4. \A x \in ToSet(t) : x \in ToSet(s)
  BY <1>1 DEF ToSet
<1>5. \A x \in ToSet(s) : x \in ToSet(t) \cup { s[j] : j \in J }
  <2> SUFFICES ASSUME NEW i \in 1..Len(s), i \notin J PROVE s[i] \in ToSet(t)
    BY <1>1 DEF ToSet
  <2>1. PICK k \in 1..Len(t) : q[k] = i
    OBVIOUS
  <2>2. t[k] = s[i]
    BY <2>1
  <2> QED
    BY <1>1, <2>2 DEF ToSet
<1>6. ToSet(t) \cap { s[j] : j \in J } = {}
  <2> SUFFICES ASSUME NEW k \in 1..Len(t), NEW j \in J, t[k] = s[j]
               PROVE  FALSE
    BY <1>1 DEF ToSet
  <2>1. s[q[k]] = s[j] /\ q[k] \in 1..Len(s) /\ j \in 1..Len(s) /\ q[k] \notin J
    OBVIOUS
  <2> QED
    BY <1>2, <2>1
<1>7. \A j \in J : s[j] \in ToSet(s)
  BY <1>1 DEF ToSet
<1> QED
  BY <1>3, <1>4, <1>5, <1>6, <1>7

-------------------------------------------------------------------------------
(* The inductive invariant.                                                *)

Exchanged(h) == h \in Deep /\ (h \in Big) # client_big_endian
Empty == hang_over = -1 /\ left_over = -1
KeptCount == IF Empty THEN 0 ELSE 1

SwapTypes == /\ depth \in Int /\ server_big_endian \in BOOLEAN
             /\ hang_over \in Int /\ hang_over >= -1
             /\ left_over \in Int /\ left_over >= -1
             /\ nscans \in Nat /\ scan \in [Handles -> Nat]
             /\ data \in [Handles -> BOOLEAN]
             /\ nin \in [Handles -> Nat]
             /\ alone \in Handles \cup {None}
             /\ out \in Seq(Int)

\* The bytes received are counted, and at most one of them is kept.
Counted == \A h \in {alone} \ {None} :
             nin[h] = Len(out) + KeptCount

\* The shared variables are those of the scan once it has got any byte, and
\* only a scan whose samples are to be swapped keeps one.
Modes == \A h \in {alone} \ {None} :
           /\ server_big_endian <=> h \in Big
           /\ depth = DepthOf(h) \/ (nin[h] = 0 /\ Empty)
           /\ Exchanged(h) \/ Empty

IInv == SwapTypes /\ Counted /\ Modes /\ BytesConserved

-------------------------------------------------------------------------------
(* The bytes that read(2) returns.                                         *)

LEMMA TotalNat == Total \in Nat /\ Total > 0
  BY SwapAssumption DEF Total

LEMMA Times == ASSUME NEW a \in Nat, NEW b \in Nat PROVE a * b \in Nat
  OBVIOUS

\* Where the frame of h begins.
Start(h) == Total * scan[h]

LEMMA ByteOf ==
  ASSUME SwapTypes, NEW h \in Handles
  PROVE  /\ Start(h) \in Nat
         /\ \A k : Byte(h, k) = Start(h) + k
<1>1. scan[h] \in Nat
  BY DEF SwapTypes
<1>2. Total * scan[h] \in Nat
  BY <1>1, TotalNat, Times
<1> QED
  BY <1>2 DEF Start, Byte

LEMMA ReceivedBytes ==
  ASSUME SwapTypes, NEW h \in Handles, NEW n \in Nat
  PROVE  /\ Received(h, n) \in Seq(Int)
         /\ Len(Received(h, n)) = n
         /\ DOMAIN Received(h, n) = 1..n
         /\ \A k \in 1..n : Received(h, n)[k] = Start(h) + (nin[h] + k - 1)
         /\ IsInjective(Received(h, n))
         /\ ToSet(Received(h, n))
              = { Start(h) + k : k \in nin[h]..(nin[h] + n - 1) }
<1>1. nin[h] \in Nat /\ Start(h) \in Nat
  BY ByteOf DEF SwapTypes
<1>2. Received(h, n) = [k \in 1..n |-> Start(h) + (nin[h] + k - 1)]
  BY ByteOf DEF Received
<1> DEFINE r == [k \in 1..n |-> Start(h) + (nin[h] + k - 1)]
<1>3. r \in [1..n -> Int]
  BY <1>1
<1>4. r \in Seq(Int) /\ Len(r) = n /\ DOMAIN r = 1..n
  BY <1>3, SeqDef, LenProperties
<1>5. \A k \in 1..n : r[k] = Start(h) + (nin[h] + k - 1)
  OBVIOUS
<1> HIDE DEF r
<1>6. IsInjective(r)
  <2> SUFFICES ASSUME NEW i \in 1..n, NEW j \in 1..n, r[i] = r[j] PROVE i = j
    BY <1>4 DEF IsInjective
  <2> QED
    BY <1>1, <1>5
<1>7. \A x \in ToSet(r) : \E k \in nin[h]..(nin[h] + n - 1) : x = Start(h) + k
  <2> SUFFICES ASSUME NEW i \in 1..n
               PROVE  \E k \in nin[h]..(nin[h] + n - 1) : r[i] = Start(h) + k
    BY <1>4 DEF ToSet
  <2>1. nin[h] + i - 1 \in nin[h]..(nin[h] + n - 1)
    BY <1>1
  <2> QED
    BY <1>5, <2>1
<1>8. \A k \in nin[h]..(nin[h] + n - 1) : Start(h) + k \in ToSet(r)
  <2> SUFFICES ASSUME NEW k \in nin[h]..(nin[h] + n - 1)
               PROVE  Start(h) + k \in ToSet(r)
    OBVIOUS
  <2>1. k - nin[h] + 1 \in 1..n /\ nin[h] + (k - nin[h] + 1) - 1 = k
    BY <1>1
  <2>2. r[k - nin[h] + 1] = Start(h) + k
    BY <1>5, <2>1
  <2> QED
    BY <1>4, <2>1, <2>2 DEF ToSet
<1>9. ToSet(r) = { Start(h) + k : k \in nin[h]..(nin[h] + n - 1) }
  BY <1>7, <1>8
<1> QED
  BY <1>2, <1>4, <1>5, <1>6, <1>9 DEF r

-------------------------------------------------------------------------------
(* The loop that swaps.                                                    *)

\* The other byte of the sample.
Flip(k) == IF k % 2 = 1 THEN k + 1 ELSE k - 1

LEMMA FlipBack ==
  ASSUME NEW m \in Nat, m % 2 = 0, NEW k \in 1..m
  PROVE  Flip(k) \in 1..m /\ Flip(Flip(k)) = k
<1>1. CASE k % 2 = 1
  <2>1. k + 1 \in 1..m /\ (k + 1) % 2 = 0 /\ (k + 1) - 1 = k
    BY <1>1
  <2> QED
    BY <1>1, <2>1 DEF Flip
<1>2. CASE k % 2 = 0
  <2>1. k - 1 \in 1..m /\ (k - 1) % 2 = 1 /\ (k - 1) + 1 = k
    BY <1>2
  <2> QED
    BY <1>2, <2>1 DEF Flip
<1> QED
  BY <1>1, <1>2

LEMMA SwapOf ==
  ASSUME NEW s \in Seq(Int), NEW m \in Nat, m % 2 = 0, m <= Len(s)
  PROVE  /\ swap(s, m) \in Seq(Int) /\ Len(swap(s, m)) = Len(s)
         /\ \A k \in 1..Len(s) :
              swap(s, m)[k] = IF k <= m THEN s[Flip(k)] ELSE s[k]
<1>1. Len(s) \in Nat /\ DOMAIN s = 1..Len(s) /\ \A k \in 1..Len(s) : s[k] \in Int
  BY LenProperties, ElementOfSeq
<1>2. \A k \in 1..m : Flip(k) \in 1..m /\ (k % 2 = 1 => k < m)
  <2>1. \A k \in 1..m : Flip(k) \in 1..m
    BY FlipBack
  <2>2. \A k \in 1..m : k % 2 = 1 => k < m
    OBVIOUS
  <2> QED
    BY <2>1, <2>2
<1> DEFINE val(k) == CASE k % 2 = 1 /\ k < m -> s[k + 1]
                       [] k % 2 = 0 /\ k <= m -> s[k - 1]
                       [] OTHER -> s[k]
<1>3. ASSUME NEW k \in 1..Len(s)
      PROVE  val(k) = IF k <= m THEN s[Flip(k)] ELSE s[k]
  <2>1. CASE k <= m /\ k % 2 = 1
    <3>1. k < m /\ k % 2 # 0
      BY <1>1, <1>2, <2>1
    <3> QED
      BY <2>1, <3>1 DEF Flip
  <2>2. CASE k <= m /\ k % 2 = 0
    <3>1. k % 2 # 1
      BY <2>2
    <3> QED
      BY <2>2, <3>1 DEF Flip
  <2>3. CASE ~(k <= m)
    <3>1. ~(k < m)
      BY <1>1, <2>3
    <3> QED
      BY <2>3, <3>1
  <2>4. k % 2 = 0 \/ k % 2 = 1
    BY <1>1
  <2> QED
    BY <2>1, <2>2, <2>3, <2>4
<1>4. swap(s, m) = [k \in 1..Len(s) |-> val(k)]
  BY <1>1 DEF swap
<1>5. \A k \in 1..Len(s) : val(k) \in Int
  <2> SUFFICES ASSUME NEW k \in 1..Len(s) PROVE val(k) \in Int
    OBVIOUS
  <2>1. k <= m => Flip(k) \in 1..Len(s)
    BY <1>1, <1>2
  <2> HIDE DEF val
  <2> QED
    BY <1>1, <1>3, <2>1
<1> HIDE DEF val
<1>6. swap(s, m) \in [1..Len(s) -> Int]
  BY <1>4, <1>5
<1>7. swap(s, m) \in Seq(Int) /\ Len(swap(s, m)) = Len(s)
  BY <1>1, <1>6, SeqDef, LenProperties
<1> QED
  BY <1>3, <1>4, <1>7

Flips(s, t, m) == \A k \in 1..m : t[k] = s[Flip(k)]
Behind(s, m) == { s[j] : j \in (m + 1)..Len(s) }

\* The whole samples of the buffer are handed out, the byte behind them is not.
LEMMA WholeSamples ==
  ASSUME NEW s \in Seq(Int), IsInjective(s),
         NEW m \in Nat, m % 2 = 0, m <= Len(s),
         NEW t, t = SubSeq(swap(s, m), 1, m)
  PROVE  /\ t \in Seq(Int) /\ Len(t) = m /\ IsInjective(t)
         /\ Flips(s, t, m)
         /\ ToSet(t) \cup Behind(s, m) = ToSet(s)
         /\ ToSet(t) \cap Behind(s, m) = {}
<1>1. Len(s) \in Nat
  BY LenProperties
<1>2. /\ swap(s, m) \in Seq(Int) /\ Len(swap(s, m)) = Len(s)
      /\ \A k \in 1..m : k \in 1..Len(s) /\ swap(s, m)[k] = s[Flip(k)]
  <2>1. \A k \in 1..m : k \in 1..Len(s) /\ k <= m
    BY <1>1
  <2> QED
    BY <2>1, SwapOf
<1>3. \A k \in 1..m : swap(s, m)[k] \in Int
  BY <1>1, <1>2, ElementOfSeq
<1>4. /\ SubSeq(swap(s, m), 1, m) \in Seq(Int)
      /\ Len(SubSeq(swap(s, m), 1, m)) = IF 1 <= m THEN m - 1 + 1 ELSE 0
      /\ \A i \in 1..(m - 1 + 1) : SubSeq(swap(s, m), 1, m)[i] = swap(s, m)[1 + i - 1]
  <2>1. 1 \in Int /\ m \in Int
    OBVIOUS
  <2> QED
    BY <1>3, <2>1, SubSeqProperties
<1>5. t \in Seq(Int) /\ Len(t) = m /\ \A k \in 1..m : t[k] = s[Flip(k)]
  BY <1>2, <1>4
<1> DEFINE q == [k \in 1..m |-> Flip(k)]
           J == (m + 1)..Len(s)
<1>6. q \in [1..m -> 1..Len(s)] /\ \A k \in 1..m : q[k] = Flip(k) /\ q[k] <= m
  <2>1. \A k \in 1..m : Flip(k) \in 1..m
    BY FlipBack
  <2>2. \A x \in 1..m : x \in 1..Len(s) /\ x <= m
    BY <1>1
  <2>3. \A k \in 1..m : Flip(k) \in 1..Len(s) /\ Flip(k) <= m
    BY <2>1, <2>2, Zenon
  <2> QED
    BY <2>3
<1>7. \A i \in 1..Len(s) : i \notin J => \E k \in 1..m : q[k] = i
  <2> SUFFICES ASSUME NEW i \in 1..m PROVE \E k \in 1..m : q[k] = i
    BY <1>1
  <2> QED
    BY FlipBack
<1>8. \A i, j \in 1..m : q[i] = q[j] => i = j
  BY FlipBack
<1>9. J \in SUBSET (1..Len(s)) /\ \A i \in 1..m : i \notin J
  BY <1>1
<1> HIDE DEF q, J
<1>10. \A k \in 1..m : t[k] = s[q[k]] /\ q[k] \notin J
  <2> SUFFICES ASSUME NEW k \in 1..m PROVE t[k] = s[q[k]] /\ q[k] \notin J
    OBVIOUS
  <2>1. Flip(k) \in 1..m /\ q[k] = Flip(k)
    BY <1>6, FlipBack
  <2> QED
    BY <1>5, <1>9, <2>1
<1>11. /\ IsInjective(t)
       /\ ToSet(t) \cup { s[j] : j \in J } = ToSet(s)
       /\ ToSet(t) \cap { s[j] : j \in J } = {}
  <2>1. Len(t) = m
    BY <1>5
  <2>2. Takes(s, t, q, J)
    BY <1>5, <1>6, <1>7, <1>8, <1>9, <1>10, <2>1 DEF Takes
  <2> QED
    BY <2>2, Reordered
<1> QED
  BY <1>5, <1>11 DEF J, Behind, Flips

-------------------------------------------------------------------------------
(* What a step has to show.                                                *)

LEMMA KeptNat == KeptCount \in Nat /\ KeptCount' \in Nat
  BY DEF KeptCount

\* Nothing is said of a frontend whose calls are disturbed.
LEMMA Disturbed ==
  ASSUME alone' = None
  PROVE  Counted' /\ Modes' /\ BytesConserved'
  BY DEF Counted, Modes, BytesConserved

\* The invariant for the scan that is alone.
LEMMA OfAlone ==
  ASSUME SwapTypes, Counted, Modes, BytesConserved, NEW h \in Handles, alone = h
  PROVE  /\ ToSet(out) \cup Kept = { Start(h) + k : k \in 0..(nin[h] - 1) }
         /\ ToSet(out) \cap Kept = {}
         /\ IsInjective(out)
         /\ hang_over = -1 \/ left_over = -1
         /\ nin[h] = Len(out) + KeptCount
         /\ server_big_endian <=> h \in Big
         /\ depth = DepthOf(h) \/ (nin[h] = 0 /\ Empty)
         /\ Exchanged(h) \/ Empty
<1>1. h \in {alone} \ {None}
  BY SwapAssumption
<1>2. { Byte(h, k) : k \in 0..(nin[h] - 1) } = { Start(h) + k : k \in 0..(nin[h] - 1) }
  BY ByteOf
<1>3. ToSet(out) \cup Kept = { Start(h) + k : k \in 0..(nin[h] - 1) }
  BY <1>1, <1>2 DEF BytesConserved
<1>4. ToSet(out) \cap Kept = {} /\ IsInjective(out) /\ (hang_over = -1 \/ left_over = -1)
  BY <1>1 DEF BytesConserved
<1>5. nin[h] = Len(out) + KeptCount
  BY <1>1 DEF Counted
<1>6. /\ server_big_endian <=> h \in Big
      /\ depth = DepthOf(h) \/ (nin[h] = 0 /\ Empty)
      /\ Exchanged(h) \/ Empty
  BY <1>1 DEF Modes
<1> QED
  BY <1>3, <1>4, <1>5, <1>6

\* In such a scan the loop runs exactly if the samples are to be swapped.
LEMMA SwapMode ==
  ASSUME IInv, NEW h \in Handles, alone = h, depth = DepthOf(h)
  PROVE  Swapped <=> Exchanged(h)
<1>1. server_big_endian <=> h \in Big
  BY OfAlone DEF IInv
<1>2. depth = 16 <=> h \in Deep
  BY DEF DepthOf
<1>3. server_big_endian # client_big_endian <=> (h \in Big) # client_big_endian
  BY <1>1, SwapAssumption DEF IInv, SwapTypes
<1> QED
  BY <1>2, <1>3 DEF Swapped, Exchanged

\* A call hands out bytes of those kept and received, and keeps the others.
LEMMA Conserves ==
  ASSUME IInv, NEW h \in Handles, NEW n \in Nat, NEW bytes \in Seq(Int),
         alone = h, alone' = h, out' = out \o bytes, scan' = scan,
         nin' = [nin EXCEPT ![h] = @ + n],
         IsInjective(bytes),
         ToSet(bytes) \cup Kept' = Kept \cup ToSet(Received(h, n)),
         ToSet(bytes) \cap Kept' = {},
         hang_over' = -1 \/ left_over' = -1
  PROVE  BytesConserved'
<1> DEFINE old == { Start(h) + k : k \in 0..(nin[h] - 1) }
           new == { Start(h) + k : k \in nin[h]..(nin[h] + n - 1) }
           all == { Start(h) + k : k \in 0..(nin[h] + n - 1) }
<1>1. Start(h) \in Nat /\ nin[h] \in Nat /\ out \in Seq(Int)
  BY ByteOf DEF IInv, SwapTypes
<1>2. ToSet(out) \cup Kept = old /\ ToSet(out) \cap Kept = {} /\ IsInjective(out)
  BY OfAlone DEF IInv
<1>3. ToSet(Received(h, n)) = new
  BY ReceivedBytes DEF IInv
<1>4. old \cap new = {} /\ old \cup new = all
  <2>1. old \cap new = {}
    BY <1>1
  <2>2. \A x \in old \cup new : x \in all
    BY <1>1
  <2>3. \A x \in all : x \in old \cup new
    <3> SUFFICES ASSUME NEW k \in 0..(nin[h] + n - 1)
                 PROVE  Start(h) + k \in old \cup new
      OBVIOUS
    <3>1. k \in 0..(nin[h] - 1) \/ k \in nin[h]..(nin[h] + n - 1)
      BY <1>1
    <3> QED
      BY <3>1
  <2> QED
    BY <2>1, <2>2, <2>3
<1> HIDE DEF old, new, all
<1>5. ToSet(out) \cap ToSet(bytes) = {} /\ ToSet(out) \cap Kept' = {}
  BY <1>2, <1>3, <1>4
<1>6. ToSet(out') = ToSet(out) \cup ToSet(bytes)
  BY <1>1, JoinSet
<1>7. IsInjective(out')
  BY <1>1, <1>2, <1>5, JoinInjective
<1>8. ToSet(out') \cup Kept' = all
  BY <1>2, <1>3, <1>4, <1>6
<1>9. ToSet(out') \cap Kept' = {}
  BY <1>5, <1>6
<1>10. nin'[h] = nin[h] + n
  BY <1>1 DEF IInv, SwapTypes
<1>11. { Byte(h, k)' : k \in 0..(nin'[h] - 1) } = all
  <2>1. \A k : Byte(h, k)' = Start(h) + k
    BY DEF Byte, Start
  <2>2. 0..(nin'[h] - 1) = 0..(nin[h] + n - 1)
    BY <1>1, <1>10, SMTT(30)
  <2>3. { Byte(h, k)' : k \in 0..(nin'[h] - 1) } = { Start(h) + k : k \in 0..(nin'[h] - 1) }
    BY <2>1, Zenon
  <2> QED
    BY <2>2, <2>3, Zenon DEF all
<1> QED
  BY <1>7, <1>8, <1>9, <1>11 DEF BytesConserved

\* The byte kept is not among those received now.
LEMMA KeptIsOld ==
  ASSUME SwapTypes, Counted, Modes, BytesConserved, NEW h \in Handles, alone = h,
         NEW n \in Nat, NEW b \in Kept
  PROVE  b \notin ToSet(Received(h, n))
<1>1. Start(h) \in Nat /\ nin[h] \in Nat
  BY ByteOf DEF SwapTypes
<1>2. PICK k \in 0..(nin[h] - 1) : b = Start(h) + k
  BY OfAlone
<1>3. \A j \in nin[h]..(nin[h] + n - 1) : b # Start(h) + j
  BY <1>1, <1>2
<1> QED
  BY <1>3, ReceivedBytes

\* A call of sane_read.
LEMMA ReadStep ==
  ASSUME IInv, NEW h \in Handles, NEW n \in Nat, NEW bytes \in Seq(Int),
         Returns(h, bytes), UNCHANGED << shared, frames >>,
         nin' = [nin EXCEPT ![h] = @ + n],
         hang_over' \in Int, hang_over' >= -1,
         left_over' \in Int, left_over' >= -1,
         alone = h /\ depth = DepthOf(h) =>
           /\ IsInjective(bytes)
           /\ ToSet(bytes) \cup Kept' = Kept \cup ToSet(Received(h, n))
           /\ ToSet(bytes) \cap Kept' = {}
           /\ hang_over' = -1 \/ left_over' = -1
           /\ Len(bytes) + KeptCount' = n + KeptCount
           /\ Exchanged(h) \/ Empty'
  PROVE  IInv'
<1> USE DEF shared, frames
<1>1. \/ alone = h /\ depth = DepthOf(h) /\ out' = out \o bytes /\ alone' = h
      \/ out' = << >> /\ alone' = None
  BY DEF Returns
<1>2. out' \in Seq(Int)
  <2>1. out \o bytes \in Seq(Int) /\ << >> \in Seq(Int)
    BY ConcatProperties, EmptySeq DEF IInv, SwapTypes
  <2> QED
    BY <1>1, <2>1
<1>3. nin' \in [Handles -> Nat] /\ nin'[h] = nin[h] + n /\ nin[h] \in Nat
  BY DEF IInv, SwapTypes
<1>4. SwapTypes'
  BY <1>1, <1>2, <1>3 DEF IInv, SwapTypes
<1>5. CASE alone' = None
  BY <1>4, <1>5, Disturbed DEF IInv
<1>6. CASE alone' # None
  <2>1. alone = h /\ depth = DepthOf(h) /\ out' = out \o bytes /\ alone' = h
    BY <1>1, <1>6
  <2>2. BytesConserved'
    BY <2>1, Conserves
  <2>3. Len(out') = Len(out) + Len(bytes) /\ Len(out) \in Nat /\ Len(bytes) \in Nat
    BY <2>1, ConcatProperties, LenProperties DEF IInv, SwapTypes
  <2>4. nin[h] = Len(out) + KeptCount /\ (server_big_endian <=> h \in Big)
    BY <2>1, OfAlone DEF IInv
  <2>5. nin'[h] = Len(out') + KeptCount'
    <3>1. Len(bytes) + KeptCount' = n + KeptCount
      BY <2>1
    <3> QED
      BY <1>3, <2>3, <2>4, <3>1, KeptNat
  <2>6. Counted'
    BY <2>1, <2>5 DEF Counted
  <2>7. Modes'
    BY <2>1, <2>4 DEF Modes, Exchanged, DepthOf
  <2> QED
    BY <1>4, <2>2, <2>6, <2>7 DEF IInv
<1> QED
  BY <1>5, <1>6

-------------------------------------------------------------------------------
(* The steps preserve the invariant.                                       *)

LEMMA InitInv == Init => IInv
<1> SUFFICES ASSUME Init PROVE IInv
  OBVIOUS
<1>1. SwapTypes
  <2>1. << >> \in Seq(Int)
    BY EmptySeq
  <2>2. server_big_endian \in BOOLEAN /\ data \in [Handles -> BOOLEAN]
    BY DEF Init
  <2>3. scan \in [Handles -> Nat] /\ nin \in [Handles -> Nat]
    BY DEF Init
  <2> QED
    BY <2>1, <2>2, <2>3 DEF Init, SwapTypes
<1>2. alone = None
  BY DEF Init
<1> QED
  BY <1>1, <1>2 DEF IInv, Counted, Modes, BytesConserved

LEMMA StartInv ==
  ASSUME IInv, NEW h \in Handles, sane_start(h)
  PROVE  IInv'
<1>1. hang_over' = -1 /\ left_over' = -1 /\ depth' = depth /\ out' = << >>
  BY DEF sane_start, Begins, StartFails
<1>2. << >> \in Seq(Int)
  BY EmptySeq
<1>3. CASE Begins(h)
  <2>1. SwapTypes'
    <3>1. /\ nscans' \in Nat /\ scan' \in [Handles -> Nat]
          /\ data' \in [Handles -> BOOLEAN] /\ nin' \in [Handles -> Nat]
      BY <1>3 DEF Begins, IInv, SwapTypes
    <3>2. server_big_endian' \in BOOLEAN /\ alone' \in Handles
      BY <1>3 DEF Begins
    <3> QED
      BY <1>1, <1>2, <3>1, <3>2 DEF IInv, SwapTypes
  <2>2. alone' = h /\ nin'[h] = 0 /\ (server_big_endian' <=> h \in Big)
    BY <1>3 DEF Begins, IInv, SwapTypes
  <2>3. Empty' /\ Kept' = {}
    BY <1>1 DEF Empty, Kept
  <2>4. Counted' /\ Modes'
    BY <1>1, <2>2, <2>3, EmptySeq DEF Counted, Modes, KeptCount
  <2>5. ToSet(<< >>) = {} /\ IsInjective(<< >>)
    BY DEF ToSet, IsInjective
  <2>6. { Byte(h, k)' : k \in 0..(nin'[h] - 1) } = {}
    BY <2>2
  <2>7. BytesConserved'
    BY <1>1, <2>2, <2>3, <2>5, <2>6 DEF BytesConserved
  <2> QED
    BY <2>1, <2>4, <2>7 DEF IInv
<1>4. CASE StartFails(h)
  <2>1. SwapTypes'
    <3>1. server_big_endian' \in BOOLEAN
      <4>1. CASE UNCHANGED server_big_endian
        BY <4>1 DEF IInv, SwapTypes
      <4>2. CASE server_big_endian' = (h \in Big)
        BY <4>2
      <4> QED
        BY <1>4, <4>1, <4>2 DEF StartFails
    <3>2. UNCHANGED << nscans, scan, data, nin >> /\ alone' = None
      BY <1>4 DEF StartFails, frames
    <3> QED
      BY <1>1, <1>2, <3>1, <3>2 DEF IInv, SwapTypes
  <2>2. alone' = None
    BY <1>4 DEF StartFails
  <2> QED
    BY <2>1, <2>2, Disturbed DEF IInv
<1> QED
  BY <1>3, <1>4 DEF sane_start

LEMMA ParametersInv ==
  ASSUME IInv, NEW h \in Handles, sane_get_parameters(h)
  PROVE  IInv'
<1>1. /\ depth' = DepthOf(h) /\ DepthOf(h) \in Int
      /\ UNCHANGED << server_big_endian, hang_over, left_over, frames, nin >>
  BY DEF sane_get_parameters, DepthOf
<1>2. \/ alone = h /\ out' = out \o << >> /\ alone' = h
      \/ out' = << >> /\ alone' = None
  BY DEF sane_get_parameters, Returns
<1>3. out \o << >> = out /\ << >> \in Seq(Int)
  BY ConcatEmptySeq, EmptySeq DEF IInv, SwapTypes
<1>4. SwapTypes'
  BY <1>1, <1>2, <1>3 DEF frames, IInv, SwapTypes
<1>5. CASE alone' = None
  BY <1>4, <1>5, Disturbed DEF IInv
<1>6. CASE alone' = h /\ alone = h /\ out' = out
  <2>1. Counted' /\ BytesConserved'
    BY <1>1, <1>6 DEF frames, IInv, Counted, KeptCount, Empty, BytesConserved, Kept, Byte
  <2>2. Modes'
    BY <1>1, <1>6 DEF IInv, Modes, Exchanged, Empty, DepthOf
  <2> QED
    BY <1>4, <2>1, <2>2 DEF IInv
<1> QED
  BY <1>2, <1>3, <1>5, <1>6

LEMMA CancelInv ==
  ASSUME IInv, NEW h \in Handles, do_cancel(h)
  PROVE  IInv'
<1>1. UNCHANGED << depth, server_big_endian, hang_over, left_over, nscans, scan,
                   nin, alone, out >>
  BY DEF do_cancel, shared
<1>2. data' \in [Handles -> BOOLEAN]
  BY DEF do_cancel, IInv, SwapTypes
<1> QED
  BY <1>1, <1>2 DEF IInv, SwapTypes, Counted, Modes, BytesConserved, KeptCount, Empty, Kept,
                    Byte, DepthOf, Exchanged

LEMMA LeftOverInv ==
  ASSUME IInv, NEW h \in Handles, ReadLeftOver(h)
  PROVE  IInv'
<1>1. /\ Swapped /\ left_over > -1 /\ left_over' = -1 /\ hang_over' = hang_over
      /\ UNCHANGED << shared, frames >> /\ nin' = nin /\ Returns(h, << left_over >>)
  BY DEF ReadLeftOver
<1>2. left_over \in Int /\ hang_over \in Int /\ hang_over >= -1 /\ nin \in [Handles -> Nat]
  BY DEF IInv, SwapTypes
<1>3. nin' = [nin EXCEPT ![h] = @ + 0]
  BY <1>1, <1>2
<1> DEFINE bytes == << left_over >>
<1>4. bytes \in Seq(Int) /\ Len(bytes) = 1 /\ ToSet(bytes) = {left_over} /\ IsInjective(bytes)
  BY <1>2 DEF ToSet, IsInjective
<1>5. ASSUME alone = h, depth = DepthOf(h)
      PROVE  /\ ToSet(bytes) \cup Kept' = Kept \cup ToSet(Received(h, 0))
             /\ ToSet(bytes) \cap Kept' = {}
             /\ hang_over' = -1 \/ left_over' = -1
             /\ Len(bytes) + KeptCount' = 0 + KeptCount
             /\ Exchanged(h) \/ Empty'
  <2>1. hang_over = -1
    BY <1>1, <1>2, <1>5, OfAlone DEF IInv
  <2>2. Kept = {left_over} /\ Kept' = {} /\ KeptCount = 1 /\ KeptCount' = 0 /\ Empty'
    BY <1>1, <1>2, <2>1 DEF Kept, KeptCount, Empty
  <2>3. ToSet(Received(h, 0)) = {}
    BY ReceivedBytes DEF IInv, ToSet
  <2> QED
    BY <1>1, <1>4, <2>2, <2>3
<1> HIDE DEF bytes
<1>6. Returns(h, bytes)
  BY <1>1 DEF bytes
<1>7. 0 \in Nat /\ hang_over' \in Int /\ hang_over' >= -1 /\ left_over' \in Int /\ left_over' >= -1
  BY <1>1, <1>2
<1> QED
  BY <1>1, <1>3, <1>4, <1>5, <1>6, <1>7, ReadStep

LEMMA PlainInv ==
  ASSUME IInv, NEW h \in Handles, NEW n \in Nat, ReadPlain(h, n)
  PROVE  IInv'
<1>1. /\ ~Swapped /\ hang_over' = hang_over /\ left_over' = left_over
      /\ UNCHANGED << shared, frames >> /\ nin' = [nin EXCEPT ![h] = @ + n]
      /\ Returns(h, Received(h, n))
  BY DEF ReadPlain, Read
<1>2. left_over \in Int /\ hang_over \in Int /\ hang_over >= -1 /\ left_over >= -1
  BY DEF IInv, SwapTypes
<1>3. Received(h, n) \in Seq(Int) /\ Len(Received(h, n)) = n /\ IsInjective(Received(h, n))
  BY ReceivedBytes DEF IInv
<1>4. ASSUME alone = h, depth = DepthOf(h)
      PROVE  /\ ToSet(Received(h, n)) \cup Kept' = Kept \cup ToSet(Received(h, n))
             /\ ToSet(Received(h, n)) \cap Kept' = {}
             /\ hang_over' = -1 \/ left_over' = -1
             /\ Len(Received(h, n)) + KeptCount' = n + KeptCount
             /\ Exchanged(h) \/ Empty'
  <2>1. Empty
    BY <1>1, <1>4, SwapMode, OfAlone DEF IInv
  <2>2. Kept = {} /\ Kept' = {} /\ KeptCount = 0 /\ KeptCount' = 0 /\ Empty'
    BY <1>1, <1>2, <2>1 DEF Kept, KeptCount, Empty
  <2> QED
    BY <1>1, <1>3, <2>1, <2>2 DEF Empty
<1> QED
  BY <1>1, <1>2, <1>3, <1>4, ReadStep

LEMMA KeptInv ==
  ASSUME IInv, NEW h \in Handles, ReadKept(h)
  PROVE  IInv'
<1>1. /\ Swapped /\ ~(hang_over > -1) /\ ~(left_over > -1) /\ left_over' = left_over
      /\ hang_over' = Received(h, 1)[1]
      /\ UNCHANGED << shared, frames >> /\ nin' = [nin EXCEPT ![h] = @ + 1]
      /\ Returns(h, << >>)
  BY DEF ReadKept, Read, Holding
<1>2. left_over = -1 /\ hang_over = -1 /\ nin[h] \in Nat /\ Start(h) \in Nat
  BY <1>1, ByteOf DEF IInv, SwapTypes
<1>3. /\ Received(h, 1)[1] = Start(h) + nin[h]
      /\ ToSet(Received(h, 1)) = {Received(h, 1)[1]}
  BY <1>2, ReceivedBytes DEF IInv, ToSet
<1>4. hang_over' \in Nat
  BY <1>1, <1>2, <1>3
<1>5. << >> \in Seq(Int) /\ Len(<< >>) = 0 /\ IsInjective(<< >>) /\ ToSet(<< >>) = {}
  BY EmptySeq DEF IsInjective, ToSet
<1>6. ASSUME alone = h, depth = DepthOf(h)
      PROVE  /\ ToSet(<< >>) \cup Kept' = Kept \cup ToSet(Received(h, 1))
             /\ ToSet(<< >>) \cap Kept' = {}
             /\ hang_over' = -1 \/ left_over' = -1
             /\ Len(<< >>) + KeptCount' = 1 + KeptCount
             /\ Exchanged(h) \/ Empty'
  <2>1. Exchanged(h)
    BY <1>1, <1>6, SwapMode
  <2>2. Kept = {} /\ Kept' = {hang_over'} /\ KeptCount = 0 /\ KeptCount' = 1
    BY <1>1, <1>2, <1>4 DEF Kept, KeptCount, Empty
  <2> QED
    BY <1>1, <1>2, <1>3, <1>5, <2>1, <2>2
<1>7. 1 \in Nat /\ hang_over' \in Int /\ hang_over' >= -1 /\ left_over' \in Int /\ left_over' >= -1
  BY <1>1, <1>2, <1>4
<1> QED
  BY <1>1, <1>5, <1>6, <1>7, ReadStep

LEMMA PairInv ==
  ASSUME IInv, NEW h \in Handles, ReadPair(h)
  PROVE  IInv'
<1>1. /\ Swapped /\ hang_over > -1 /\ ~(left_over > -1) /\ left_over' = hang_over
      /\ hang_over' = -1
      /\ UNCHANGED << shared, frames >> /\ nin' = [nin EXCEPT ![h] = @ + 1]
      /\ Returns(h, Received(h, 1))
  BY DEF ReadPair, Read, Holding
<1>2. left_over = -1 /\ hang_over \in Nat /\ nin[h] \in Nat /\ Start(h) \in Nat
  BY <1>1, ByteOf DEF IInv, SwapTypes
<1>3. Received(h, 1) \in Seq(Int) /\ Len(Received(h, 1)) = 1 /\ IsInjective(Received(h, 1))
  BY ReceivedBytes DEF IInv
<1>4. ASSUME alone = h, depth = DepthOf(h)
      PROVE  /\ ToSet(Received(h, 1)) \cup Kept' = Kept \cup ToSet(Received(h, 1))
             /\ ToSet(Received(h, 1)) \cap Kept' = {}
             /\ hang_over' = -1 \/ left_over' = -1
             /\ Len(Received(h, 1)) + KeptCount' = 1 + KeptCount
             /\ Exchanged(h) \/ Empty'
  <2>1. Exchanged(h)
    BY <1>1, <1>4, SwapMode
  <2>2. Kept = {hang_over} /\ Kept' = {hang_over} /\ KeptCount = 1 /\ KeptCount' = 1
    BY <1>1, <1>2 DEF Kept, KeptCount, Empty
  <2>3. hang_over \notin ToSet(Received(h, 1))
    BY <1>4, <2>2, KeptIsOld DEF IInv
  <2> QED
    BY <1>1, <1>3, <2>1, <2>2, <2>3
<1>7. 1 \in Nat /\ hang_over' \in Int /\ hang_over' >= -1 /\ left_over' \in Int /\ left_over' >= -1
  BY <1>1, <1>2
<1> QED
  BY <1>1, <1>3, <1>4, <1>7, ReadStep

LEMMA ManyInv ==
  ASSUME IInv, NEW h \in Handles, NEW n \in Nat, ReadMany(h, n)
  PROVE  IInv'
<1> DEFINE buf == Received(h, n)
           length == n - (n % 2)
           bytes == SubSeq(swap(buf, length), 1, length)
<1>1. /\ Swapped /\ n # 1 /\ (~(hang_over > -1) \/ n = 0) /\ ~(left_over > -1)
      /\ left_over' = left_over
      /\ hang_over' = IF n % 2 = 0 THEN hang_over ELSE buf[n]
      /\ UNCHANGED << shared, frames >> /\ nin' = [nin EXCEPT ![h] = @ + n]
      /\ Returns(h, bytes)
  BY DEF ReadMany, Read, Holding
<1>2. left_over = -1 /\ hang_over \in Int /\ hang_over >= -1 /\ nin[h] \in Nat /\ Start(h) \in Nat
  BY <1>1, ByteOf DEF IInv, SwapTypes
<1>3. /\ buf \in Seq(Int) /\ Len(buf) = n /\ IsInjective(buf) /\ DOMAIN buf = 1..n
      /\ \A k \in 1..n : buf[k] \in Nat
  <2>1. \A k \in 1..n : Start(h) + (nin[h] + k - 1) \in Nat
    BY <1>2
  <2> QED
    BY <2>1, ReceivedBytes DEF IInv
<1>4. length \in Nat /\ length % 2 = 0 /\ length <= n
      /\ (n % 2 = 0 => length = n) /\ (n % 2 # 0 => length = n - 1 /\ n \in 1..n)
  OBVIOUS
<1> HIDE DEF buf, length
<1>5. /\ bytes \in Seq(Int) /\ Len(bytes) = length /\ IsInjective(bytes)
      /\ ToSet(bytes) \cup { buf[j] : j \in (length + 1)..n } = ToSet(buf)
      /\ ToSet(bytes) \cap { buf[j] : j \in (length + 1)..n } = {}
  <2>1. length <= Len(buf) /\ (length + 1)..n = (length + 1)..Len(buf)
    BY <1>3, <1>4
  <2>2. bytes = SubSeq(swap(buf, length), 1, length)
    OBVIOUS
  <2> HIDE DEF bytes
  <2>3. /\ bytes \in Seq(Int) /\ Len(bytes) = length /\ IsInjective(bytes)
        /\ ToSet(bytes) \cup Behind(buf, length) = ToSet(buf)
        /\ ToSet(bytes) \cap Behind(buf, length) = {}
    <3>1. /\ buf \in Seq(Int) /\ IsInjective(buf)
          /\ length \in Nat /\ length % 2 = 0 /\ length <= Len(buf)
      BY <1>3, <1>4, <2>1
    <3>2. \A t : t = SubSeq(swap(buf, length), 1, length) => 
           /\ t \in Seq(Int) /\ Len(t) = length /\ IsInjective(t)
           /\ ToSet(t) \cup Behind(buf, length) = ToSet(buf)
           /\ ToSet(t) \cap Behind(buf, length) = {}
      BY <3>1, WholeSamples
    <3> QED
      BY <2>2, <3>2
  <2> QED
    BY <2>1, <2>3 DEF Behind
<1> HIDE DEF bytes
<1>6. hang_over' \in Int /\ hang_over' >= -1 /\ left_over' \in Int /\ left_over' >= -1
  <2>1. CASE n % 2 = 0
    BY <1>1, <1>2, <2>1
  <2>2. CASE n % 2 # 0
    BY <1>1, <1>2, <1>3, <1>4, <2>2
  <2> QED
    BY <2>1, <2>2
<1>7. ASSUME alone = h, depth = DepthOf(h)
      PROVE  /\ ToSet(bytes) \cup Kept' = Kept \cup ToSet(buf)
             /\ ToSet(bytes) \cap Kept' = {}
             /\ hang_over' = -1 \/ left_over' = -1
             /\ Len(bytes) + KeptCount' = n + KeptCount
             /\ Exchanged(h) \/ Empty'
  <2>1. Exchanged(h) /\ left_over' = -1
    BY <1>1, <1>2, <1>7, SwapMode
  <2>2. CASE n % 2 = 0
    <3>1. { buf[j] : j \in (length + 1)..n } = {} /\ length = n
      BY <1>4, <2>2
    <3>2. hang_over' = hang_over
      BY <1>1, <2>2
    <3>3. Kept' = Kept /\ KeptCount' = KeptCount
      BY <1>1, <3>2 DEF Kept, KeptCount, Empty
    <3>4. ToSet(bytes) = ToSet(buf)
      BY <1>5, <3>1
    <3>5. ToSet(bytes) \cap Kept = {}
      BY <1>7, <3>4, KeptIsOld DEF IInv, buf
    <3> QED
      BY <1>5, <2>1, <3>1, <3>3, <3>4, <3>5
  <2>3. CASE n % 2 # 0
    <3>1. { buf[j] : j \in (length + 1)..n } = {buf[n]} /\ length = n - 1
      <4>1. (length + 1)..n = {n} /\ length = n - 1
        BY <1>4, <2>3
      <4> QED
        BY <4>1
    <3>2. hang_over' = buf[n] /\ buf[n] \in Nat /\ hang_over = -1
      BY <1>1, <1>2, <1>3, <1>4, <2>3
    <3>3. Kept' = {buf[n]} /\ Kept = {} /\ KeptCount' = 1 /\ KeptCount = 0
      BY <1>1, <1>2, <3>2 DEF Kept, KeptCount, Empty
    <3> QED
      BY <1>5, <2>1, <3>1, <3>3
  <2> QED
    BY <2>2, <2>3
<1> QED
  BY <1>1, <1>5, <1>6, <1>7, ReadStep DEF buf

\* The byte kept, and behind it those received.
LEMMA KeptFirst ==
  ASSUME IInv, NEW h \in Handles, alone = h, hang_over > -1, left_over = -1,
         NEW n \in Nat, NEW w, w = << hang_over >> \o Received(h, n)
  PROVE  /\ w \in Seq(Int) /\ Len(w) = n + 1 /\ IsInjective(w)
         /\ ToSet(w) = Kept \cup ToSet(Received(h, n))
<1>1. hang_over \in Int
  BY DEF IInv, SwapTypes
<1> DEFINE b == << hang_over >>
<1>2. b \in Seq(Int) /\ Len(b) = 1 /\ ToSet(b) = {hang_over} /\ IsInjective(b)
  BY <1>1 DEF ToSet, IsInjective
<1>3. Kept = {hang_over}
  BY <1>1 DEF Kept
<1>4. hang_over \notin ToSet(Received(h, n))
  BY <1>3, KeptIsOld DEF IInv
<1>5. Received(h, n) \in Seq(Int) /\ Len(Received(h, n)) = n /\ IsInjective(Received(h, n))
  BY ReceivedBytes DEF IInv
<1>6. w = b \o Received(h, n)
  OBVIOUS
<1> HIDE DEF b
<1>7. ToSet(b) \cap ToSet(Received(h, n)) = {}
  BY <1>2, <1>4
<1>8. IsInjective(w)
  BY <1>2, <1>5, <1>6, <1>7, JoinInjective
<1>9. ToSet(w) = Kept \cup ToSet(Received(h, n))
  BY <1>2, <1>3, <1>5, <1>6, JoinSet
<1>10. w \in Seq(Int) /\ Len(w) = Len(b) + Len(Received(h, n))
  BY <1>2, <1>5, <1>6, ConcatProperties
<1>11. Len(w) = n + 1
  BY <1>2, <1>5, <1>10
<1> QED
  BY <1>8, <1>9, <1>10, <1>11

\* The bytes of that buffer.
LEMMA KeptFirstBytes ==
  ASSUME SwapTypes, NEW h \in Handles, hang_over > -1, NEW n \in Nat,
         NEW w, w = << hang_over >> \o Received(h, n)
  PROVE  /\ w \in Seq(Int) /\ Len(w) = n + 1 /\ w[1] = hang_over
         /\ \A k \in 2..(n + 1) : w[k] = Start(h) + (nin[h] + k - 2)
         /\ \A k \in 1..(n + 1) : w[k] \in Nat
<1>1. hang_over \in Nat /\ Start(h) \in Nat /\ nin[h] \in Nat
  BY ByteOf DEF SwapTypes
<1> DEFINE b == << hang_over >>
<1>2. b \in Seq(Int) /\ Len(b) = 1 /\ b[1] = hang_over
  BY <1>1
<1>3. /\ Received(h, n) \in Seq(Int) /\ Len(Received(h, n)) = n
      /\ \A k \in 1..n : Received(h, n)[k] = Start(h) + (nin[h] + k - 1)
  BY ReceivedBytes
<1>4. w = b \o Received(h, n)
  OBVIOUS
<1> HIDE DEF b
<1>5. /\ w \in Seq(Int) /\ Len(w) = Len(b) + Len(Received(h, n))
      /\ \A i \in 1..(Len(b) + Len(Received(h, n))) :
           w[i] = IF i <= Len(b) THEN b[i] ELSE Received(h, n)[i - Len(b)]
  BY <1>2, <1>3, <1>4, ConcatProperties
<1>6. /\ Len(w) = n + 1
      /\ \A i \in 1..(n + 1) : w[i] = IF i <= 1 THEN b[i] ELSE Received(h, n)[i - 1]
  <2>1. Len(b) + Len(Received(h, n)) = n + 1
    BY <1>2, <1>3
  <2> QED
    BY <1>2, <1>5, <2>1
<1>7. w[1] = hang_over
  BY <1>2, <1>6
<1>8. \A k \in 2..(n + 1) : w[k] = Start(h) + (nin[h] + k - 2)
  <2> SUFFICES ASSUME NEW k \in 2..(n + 1)
               PROVE  w[k] = Start(h) + (nin[h] + k - 2)
    OBVIOUS
  <2>1. k \in 1..(n + 1) /\ ~(k <= 1) /\ k - 1 \in 1..n
        /\ nin[h] + (k - 1) - 1 = nin[h] + k - 2
    BY <1>1
  <2> QED
    BY <1>3, <1>6, <2>1
<1>9. \A k \in 1..(n + 1) : w[k] \in Nat
  <2> SUFFICES ASSUME NEW k \in 1..(n + 1) PROVE w[k] \in Nat
    OBVIOUS
  <2>1. CASE k = 1
    BY <1>1, <1>7, <2>1
  <2>2. CASE k \in 2..(n + 1)
    <3>1. Start(h) + (nin[h] + k - 2) \in Nat
      BY <1>1, <2>2
    <3> QED
      BY <1>8, <2>2, <3>1
  <2>3. k = 1 \/ k \in 2..(n + 1)
    OBVIOUS
  <2> QED
    BY <2>1, <2>2, <2>3
<1> QED
  BY <1>5, <1>6, <1>7, <1>8, <1>9

LEMMA ManyKeptInv ==
  ASSUME IInv, NEW h \in Handles, NEW n \in Nat, ReadManyKept(h, n)
  PROVE  IInv'
<1> DEFINE last == Received(h, n)[n]
           buf == << hang_over >> \o Received(h, n - 1)
           w == << hang_over >> \o Received(h, n)
           even == swap([buf EXCEPT ![n] = last], n - 2)
           odd == swap(buf, n - 1)
<1>1. /\ Swapped /\ n > 1 /\ hang_over > -1 /\ ~(left_over > -1)
      /\ UNCHANGED << shared, frames >> /\ nin' = [nin EXCEPT ![h] = @ + n]
  BY DEF ReadManyKept, Read, Holding
<1>2. \/ n % 2 = 0 /\ left_over' = buf[n] /\ hang_over' = -1 /\ Returns(h, even)
      \/ n % 2 # 0 /\ left_over' = -1 /\ hang_over' = last /\ Returns(h, odd)
  BY DEF ReadManyKept
<1>3. /\ left_over = -1 /\ hang_over \in Int /\ hang_over >= -1
      /\ nin[h] \in Nat /\ Start(h) \in Nat /\ n - 1 \in Nat
  BY <1>1, ByteOf DEF IInv, SwapTypes
<1>4. /\ w \in Seq(Int) /\ Len(w) = n + 1 /\ \A k \in 1..(n + 1) : w[k] \in Nat
      /\ w[1] = hang_over /\ \A k \in 2..(n + 1) : w[k] = Start(h) + (nin[h] + k - 2)
  BY <1>1, KeptFirstBytes DEF IInv
<1>5. /\ buf \in Seq(Int) /\ Len(buf) = (n - 1) + 1
      /\ buf[1] = hang_over /\ \A k \in 2..((n - 1) + 1) : buf[k] = Start(h) + (nin[h] + k - 2)
  BY <1>1, <1>3, KeptFirstBytes DEF IInv
<1>6. last = Start(h) + (nin[h] + n - 1)
  <2>1. n \in 1..n
    BY <1>1
  <2> QED
    BY <2>1, ReceivedBytes DEF IInv
<1>7. alone = h => IsInjective(w) /\ ToSet(w) = Kept \cup ToSet(Received(h, n))
  BY <1>1, <1>3, KeptFirst
<1> HIDE DEF w, buf, last
<1>8. /\ buf \in Seq(Int) /\ Len(buf) = n /\ \A k \in 1..n : buf[k] = w[k]
      /\ w[n + 1] = last /\ last \in Nat /\ n \in 1..n /\ buf[n] = w[n] /\ w[n] \in Nat
  <2>1. (n - 1) + 1 = n /\ \A k \in 1..n : k = 1 \/ k \in 2..n
    OBVIOUS
  <2>2. \A k \in 1..n : buf[k] = w[k]
    <3> SUFFICES ASSUME NEW k \in 1..n PROVE buf[k] = w[k]
      OBVIOUS
    <3>1. CASE k = 1
      BY <1>4, <1>5, <3>1
    <3>2. CASE k \in 2..n
      <4>1. k \in 2..(n + 1) /\ k \in 2..((n - 1) + 1)
        BY <2>1, <3>2
      <4> QED
        BY <1>4, <1>5, <4>1
    <3> QED
      BY <2>1, <3>1, <3>2
  <2>3. n + 1 \in 2..(n + 1) /\ nin[h] + (n + 1) - 2 = nin[h] + n - 1 /\ n \in 1..n
        /\ n \in 1..(n + 1) /\ n + 1 \in 1..(n + 1)
    BY <1>1, <1>3
  <2>4. w[n + 1] = last
    BY <1>4, <1>6, <2>3
  <2>5. buf \in Seq(Int) /\ Len(buf) = n
    BY <1>5, <2>1
  <2>6. last \in Nat /\ w[n] \in Nat
    BY <1>4, <2>3, <2>4
  <2> QED
    BY <2>2, <2>3, <2>4, <2>5, <2>6
<1>9. KeptCount = 1
  BY <1>1, <1>3 DEF KeptCount, Empty
<1>10. alone = h /\ depth = DepthOf(h) => Exchanged(h)
  BY <1>1, SwapMode
<1>11. CASE n % 2 = 0
  <2>1. left_over' = w[n] /\ hang_over' = -1 /\ Returns(h, even)
    BY <1>2, <1>8, <1>11
  <2> DEFINE e == [buf EXCEPT ![n] = last]
  <2>2. /\ e \in Seq(Int) /\ Len(e) = n
        /\ \A k \in 1..n : e[k] = IF k = n THEN last ELSE buf[k]
    BY <1>8, ExceptSeq
  <2>3. n - 2 \in Nat /\ (n - 2) % 2 = 0 /\ n - 2 <= n
    BY <1>1, <1>11
  <2> HIDE DEF e
  <2>4. /\ even \in Seq(Int) /\ Len(even) = n
        /\ \A k \in 1..n : even[k] = IF k <= n - 2 THEN e[Flip(k)] ELSE e[k]
    <3>1. even = swap(e, n - 2)
      BY DEF e
    <3>2. n - 2 <= Len(e)
      BY <2>2, <2>3
    <3> HIDE DEF even
    <3> QED
      BY <2>2, <2>3, <3>1, <3>2, SwapOf
  <2> HIDE DEF even
  <2> DEFINE q == [k \in 1..n |-> IF k <= n - 2 THEN Flip(k)
                                  ELSE IF k = n THEN n + 1 ELSE k]
             J == {n}
  <2>5. \A k \in 1..n : k <= n - 2 => /\ Flip(k) \in 1..(n - 2) /\ Flip(Flip(k)) = k
                                       /\ Flip(k) \in 1..n /\ Flip(k) # n
    <3> SUFFICES ASSUME NEW k \in 1..(n - 2)
                 PROVE  /\ Flip(k) \in 1..(n - 2) /\ Flip(Flip(k)) = k
                        /\ Flip(k) \in 1..n /\ Flip(k) # n
      BY <2>3
    <3>1. Flip(k) \in 1..(n - 2) /\ Flip(Flip(k)) = k
      BY <2>3, FlipBack
    <3> QED
      BY <2>3, <3>1
  <2>6. \A k \in 1..n : even[k] = w[q[k]] /\ q[k] # n /\ q[k] \in 1..(n + 1)
    <3> SUFFICES ASSUME NEW k \in 1..n
                 PROVE  even[k] = w[q[k]] /\ q[k] # n /\ q[k] \in 1..(n + 1)
      OBVIOUS
    <3>1. CASE k <= n - 2
      <4>1. q[k] = Flip(k) /\ even[k] = e[Flip(k)]
        BY <2>4, <3>1
      <4> QED
        BY <1>8, <2>2, <2>5, <3>1, <4>1
    <3>2. CASE k = n
      <4>1. ~(n <= n - 2) /\ n + 1 # n /\ n + 1 \in 1..(n + 1)
        OBVIOUS
      <4> QED
        BY <1>8, <2>2, <2>4, <3>2, <4>1
    <3>3. CASE ~(k <= n - 2) /\ k # n
      BY <1>8, <2>2, <2>4, <3>3
    <3> QED
      BY <3>1, <3>2, <3>3
  <2>7. \A i, j \in 1..n : q[i] = q[j] => i = j
    <3>1. \A k \in 1..n : \/ k <= n - 2 /\ q[k] = Flip(k) /\ q[k] <= n - 2
                          \/ k = n /\ q[k] = n + 1
                          \/ k = n - 1 /\ q[k] = n - 1
      BY <2>3, <2>5
    <3> HIDE DEF q
    <3> SUFFICES ASSUME NEW i \in 1..n, NEW j \in 1..n, q[i] = q[j] PROVE i = j
      OBVIOUS
    <3>2. CASE i <= n - 2 /\ j <= n - 2
      <4>1. Flip(i) = Flip(j)
        BY <3>1, <3>2
      <4> QED
        BY <2>5, <3>2, <4>1
    <3>3. CASE ~(i <= n - 2 /\ j <= n - 2)
      BY <3>1, <3>3
    <3> QED
      BY <3>2, <3>3
  <2>8. \A i \in 1..(n + 1) : i # n => \E k \in 1..n : q[k] = i
    <3> SUFFICES ASSUME NEW i \in 1..(n + 1), i # n PROVE \E k \in 1..n : q[k] = i
      OBVIOUS
    <3>1. CASE i <= n - 2
      <4>1. i \in 1..n
        BY <3>1
      <4>2. Flip(i) \in 1..n /\ Flip(i) <= n - 2 /\ Flip(Flip(i)) = i
        BY <2>3, <2>5, <3>1, <4>1
      <4>3. q[Flip(i)] = i
        BY <4>2
      <4> QED
        BY <4>2, <4>3
    <3>2. CASE i = n + 1
      <4>1. q[n] = n + 1
        BY <1>8
      <4> QED
        BY <1>8, <3>2, <4>1
    <3>3. CASE i = n - 1
      <4>1. n - 1 \in 1..n /\ ~(n - 1 <= n - 2) /\ n - 1 # n
        BY <1>1
      <4>2. q[n - 1] = n - 1
        BY <4>1
      <4> QED
        BY <3>3, <4>1, <4>2
    <3>4. i <= n - 2 \/ i = n + 1 \/ i = n - 1
      OBVIOUS
    <3> QED
      BY <3>1, <3>2, <3>3, <3>4
  <2>9. q \in [1..n -> 1..(n + 1)]
    BY <2>6
  <2> HIDE DEF q
  <2>10. alone = h => Takes(w, even, q, J)
    <3>1. J \in SUBSET (1..(n + 1))
      BY <1>8
    <3> QED
      BY <1>4, <1>7, <2>4, <2>6, <2>7, <2>8, <2>9, <3>1 DEF Takes
  <2>11. alone = h => /\ IsInjective(even)
                      /\ ToSet(even) \cup { w[j] : j \in J } = ToSet(w)
                      /\ ToSet(even) \cap { w[j] : j \in J } = {}
    BY <2>10, Reordered
  <2>12. Kept' = {w[n]} /\ { w[j] : j \in J } = {w[n]} /\ KeptCount' = 1
    BY <1>8, <2>1 DEF Kept, KeptCount, Empty
  <2>13. hang_over' \in Int /\ hang_over' >= -1 /\ left_over' \in Int /\ left_over' >= -1
    BY <1>8, <2>1
  <2>14. alone = h /\ depth = DepthOf(h) =>
           /\ IsInjective(even)
           /\ ToSet(even) \cup Kept' = Kept \cup ToSet(Received(h, n))
           /\ ToSet(even) \cap Kept' = {}
           /\ hang_over' = -1 \/ left_over' = -1
           /\ Len(even) + KeptCount' = n + KeptCount
           /\ Exchanged(h) \/ Empty'
    BY <1>7, <1>9, <1>10, <2>1, <2>4, <2>11, <2>12
  <2> QED
    BY <1>1, <2>1, <2>4, <2>13, <2>14, ReadStep
<1>12. CASE n % 2 # 0
  <2>1. left_over' = -1 /\ hang_over' = last /\ Returns(h, odd)
    BY <1>2, <1>12
  <2>2. n - 1 \in Nat /\ (n - 1) % 2 = 0 /\ n - 1 <= n
    BY <1>1, <1>12
  <2>3. /\ odd \in Seq(Int) /\ Len(odd) = n
        /\ \A k \in 1..n : odd[k] = IF k <= n - 1 THEN buf[Flip(k)] ELSE buf[k]
    <3>1. n - 1 <= Len(buf)
      BY <1>8, <2>2
    <3> QED
      BY <1>8, <2>2, <3>1, SwapOf
  <2> HIDE DEF odd
  <2> DEFINE q == [k \in 1..n |-> IF k <= n - 1 THEN Flip(k) ELSE k]
             J == {n + 1}
  <2>4. \A k \in 1..n : k <= n - 1 => /\ Flip(k) \in 1..(n - 1) /\ Flip(Flip(k)) = k
                                       /\ Flip(k) \in 1..n
    <3> SUFFICES ASSUME NEW k \in 1..(n - 1)
                 PROVE  /\ Flip(k) \in 1..(n - 1) /\ Flip(Flip(k)) = k /\ Flip(k) \in 1..n
      BY <2>2
    <3>1. Flip(k) \in 1..(n - 1) /\ Flip(Flip(k)) = k
      BY <2>2, FlipBack
    <3> QED
      BY <2>2, <3>1
  <2>5. \A k \in 1..n : odd[k] = w[q[k]] /\ q[k] \in 1..n
    <3> SUFFICES ASSUME NEW k \in 1..n PROVE odd[k] = w[q[k]] /\ q[k] \in 1..n
      OBVIOUS
    <3>1. CASE k <= n - 1
      <4>1. q[k] = Flip(k) /\ odd[k] = buf[Flip(k)]
        BY <2>3, <3>1
      <4> QED
        BY <1>8, <2>4, <3>1, <4>1
    <3>2. CASE ~(k <= n - 1)
      BY <1>8, <2>3, <3>2
    <3> QED
      BY <3>1, <3>2
  <2>6. \A i, j \in 1..n : q[i] = q[j] => i = j
    <3>1. \A k \in 1..n : \/ k <= n - 1 /\ q[k] = Flip(k) /\ q[k] <= n - 1
                          \/ k = n /\ q[k] = n
      BY <2>2, <2>4
    <3> HIDE DEF q
    <3> SUFFICES ASSUME NEW i \in 1..n, NEW j \in 1..n, q[i] = q[j] PROVE i = j
      OBVIOUS
    <3>2. CASE i <= n - 1 /\ j <= n - 1
      <4>1. Flip(i) = Flip(j)
        BY <3>1, <3>2
      <4> QED
        BY <2>4, <3>2, <4>1
    <3>3. CASE ~(i <= n - 1 /\ j <= n - 1)
      BY <3>1, <3>3
    <3> QED
      BY <3>2, <3>3
  <2>7. \A i \in 1..(n + 1) : i # n + 1 => \E k \in 1..n : q[k] = i
    <3> SUFFICES ASSUME NEW i \in 1..n PROVE \E k \in 1..n : q[k] = i
      OBVIOUS
    <3>1. CASE i <= n - 1
      <4>1. Flip(i) \in 1..n /\ Flip(i) <= n - 1 /\ Flip(Flip(i)) = i
        BY <2>2, <2>4, <3>1
      <4>2. q[Flip(i)] = i
        BY <4>1
      <4> QED
        BY <4>1, <4>2
    <3>2. CASE i = n
      <4>1. ~(n <= n - 1)
        OBVIOUS
      <4>2. q[n] = n
        BY <1>8, <4>1
      <4> QED
        BY <1>8, <3>2, <4>2
    <3> QED
      BY <3>1, <3>2
  <2>8. q \in [1..n -> 1..(n + 1)] /\ \A k \in 1..n : q[k] \notin J
    <3>1. \A k \in 1..n : q[k] \in 1..(n + 1) /\ q[k] # n + 1
      BY <2>5
    <3> QED
      BY <3>1
  <2> HIDE DEF q
  <2>9. alone = h => Takes(w, odd, q, J)
    <3>1. J \in SUBSET (1..(n + 1))
      OBVIOUS
    <3> QED
      BY <1>4, <1>7, <2>3, <2>5, <2>6, <2>7, <2>8, <3>1 DEF Takes
  <2>10. alone = h => /\ IsInjective(odd)
                      /\ ToSet(odd) \cup { w[j] : j \in J } = ToSet(w)
                      /\ ToSet(odd) \cap { w[j] : j \in J } = {}
    BY <2>9, Reordered
  <2>11. Kept' = {last} /\ { w[j] : j \in J } = {last} /\ KeptCount' = 1
    BY <1>8, <2>1 DEF Kept, KeptCount, Empty
  <2>12. hang_over' \in Int /\ hang_over' >= -1 /\ left_over' \in Int /\ left_over' >= -1
    BY <1>8, <2>1
  <2>13. alone = h /\ depth = DepthOf(h) =>
           /\ IsInjective(odd)
           /\ ToSet(odd) \cup Kept' = Kept \cup ToSet(Received(h, n))
           /\ ToSet(odd) \cap Kept' = {}
           /\ hang_over' = -1 \/ left_over' = -1
           /\ Len(odd) + KeptCount' = n + KeptCount
           /\ Exchanged(h) \/ Empty'
    BY <1>7, <1>9, <1>10, <2>1, <2>3, <2>10, <2>11
  <2> QED
    BY <1>1, <2>1, <2>3, <2>12, <2>13, ReadStep
<1> QED
  BY <1>11, <1>12

LEMMA NextInv == IInv /\ [Next]_vars => IInv'
<1> SUFFICES ASSUME IInv, [Next]_vars PROVE IInv'
  OBVIOUS
<1>1. CASE UNCHANGED vars
  BY <1>1 DEF vars, shared, frames, IInv, SwapTypes, Counted, Modes, BytesConserved,
              KeptCount, Empty, Kept, Byte, DepthOf, Exchanged
<1>2. CASE Next
  <2>1. PICK h \in Handles :
          \/ sane_start(h) \/ sane_get_parameters(h) \/ do_cancel(h)
          \/ ReadLeftOver(h) \/ ReadKept(h) \/ ReadPair(h)
          \/ \E n \in 0..MaxLength :
               ReadPlain(h, n) \/ ReadMany(h, n) \/ ReadManyKept(h, n)
    BY <1>2 DEF Next
  <2>2. 0..MaxLength \subseteq Nat
    BY SwapAssumption
  <2>3. CASE \E n \in 0..MaxLength :
               ReadPlain(h, n) \/ ReadMany(h, n) \/ ReadManyKept(h, n)
    <3>1. PICK n \in Nat : ReadPlain(h, n) \/ ReadMany(h, n) \/ ReadManyKept(h, n)
      BY <2>2, <2>3
    <3> QED
      BY <3>1, PlainInv, ManyInv, ManyKeptInv
  <2> QED
    BY <2>1, <2>3, StartInv, ParametersInv, CancelInv, LeftOverInv, KeptInv, PairInv
<1> QED
  BY <1>1, <1>2

LEMMA InvHolds == Spec => []IInv
  BY InitInv, NextInv, PTL DEF Spec

(***************************************************************************)
(* However read(2) cuts the data of a scan that uses the net backend       *)
(* alone, every byte of it is in out exactly once or is the one byte that  *)
(* hang_over or left_over keeps.                                           *)
(***************************************************************************)
THEOREM BytesSafe == Spec => []BytesConserved
<1>1. IInv => BytesConserved
  BY DEF IInv
<1> QED
  BY <1>1, InvHolds, PTL

-------------------------------------------------------------------------------
(* The order of the bytes.                                                 *)

\* Which byte of the frame is the k-th to be handed out.
Place(h, k) == IF ~Exchanged(h) THEN k - 1 ELSE IF k % 2 = 1 THEN k ELSE k - 2

OutOrdered(h) == \A k \in DOMAIN out : out[k] = Start(h) + Place(h, k)
KeptOrdered(h) ==
  /\ left_over > -1 => left_over = Start(h) + Place(h, Len(out) + 1)
  /\ hang_over > -1 => hang_over = Start(h) + Len(out)

LEMMA OrderIs ==
  ASSUME NEW h
  PROVE  /\ InOrder(h) <=> OutOrdered(h) /\ KeptOrdered(h)
         /\ InOrder(h)' <=> OutOrdered(h)' /\ KeptOrdered(h)'
<1>1. InOrder(h) <=> OutOrdered(h) /\ KeptOrdered(h)
  BY DEF InOrder, OutOrdered, KeptOrdered, Place, Exchanged, Byte, Start
<1>2. InOrder(h)' <=> OutOrdered(h)' /\ KeptOrdered(h)'
  BY DEF InOrder, OutOrdered, KeptOrdered, Place, Exchanged, Byte, Start
<1> QED
  BY <1>1, <1>2

\* A whole number of samples has been handed out, but for a byte left over.
LEMMA Parity ==
  ASSUME IInv, NEW h \in Handles, alone = h, Exchanged(h),
         OutOrdered(h), KeptOrdered(h)
  PROVE  /\ Len(out) \in Nat
         /\ left_over = -1 => Len(out) % 2 = 0
         /\ left_over > -1 => Len(out) % 2 = 1
<1> DEFINE L == Len(out)
<1>1. /\ L \in Nat /\ DOMAIN out = 1..L /\ Start(h) \in Nat /\ nin[h] \in Nat
      /\ hang_over \in Int /\ hang_over >= -1 /\ left_over \in Int /\ left_over >= -1
  BY ByteOf, LenProperties DEF IInv, SwapTypes
<1>2. /\ ToSet(out) \cup Kept = { Start(h) + k : k \in 0..(nin[h] - 1) }
      /\ ToSet(out) \cap Kept = {} /\ nin[h] = L + KeptCount
      /\ hang_over = -1 \/ left_over = -1
  BY OfAlone DEF IInv
<1> HIDE DEF L
<1>3. \A j \in Nat : Start(h) + j \in ToSet(out) \cup Kept => j < nin[h]
  <2> SUFFICES ASSUME NEW j \in Nat, Start(h) + j \in ToSet(out) \cup Kept
               PROVE  j < nin[h]
    OBVIOUS
  <2>1. PICK k \in 0..(nin[h] - 1) : Start(h) + j = Start(h) + k
    BY <1>2
  <2> QED
    BY <1>1, <2>1
<1>4. ASSUME left_over = -1, L % 2 = 1 PROVE FALSE
  <2>1. L \in 1..L /\ Place(h, L) = L
    BY <1>1, <1>4 DEF Place
  <2>2. out[L] = Start(h) + L
    BY <1>1, <2>1 DEF OutOrdered
  <2>3. Start(h) + L \in ToSet(out)
    BY <1>1, <2>1, <2>2 DEF ToSet
  <2>4. L < nin[h]
    BY <1>1, <1>3, <2>3
  <2>5. hang_over > -1
    <3>1. CASE hang_over = -1
      <4>1. KeptCount = 0
        BY <1>4, <3>1 DEF KeptCount, Empty
      <4> QED
        BY <1>1, <1>2, <2>4, <4>1
    <3> QED
      BY <1>1, <3>1
  <2>6. hang_over = Start(h) + L /\ hang_over \in Kept
    BY <2>5 DEF KeptOrdered, Kept, L
  <2> QED
    BY <1>2, <2>3, <2>6
<1>5. ASSUME left_over > -1, L % 2 = 0 PROVE FALSE
  <2>1. (L + 1) % 2 = 1
    BY <1>1, <1>5
  <2>2. left_over = Start(h) + (L + 1) /\ left_over \in Kept
    BY <1>5, <2>1 DEF KeptOrdered, Place, Kept, L
  <2>3. L + 1 < nin[h]
    BY <1>1, <1>3, <2>2
  <2>4. KeptCount = 1
    BY <1>5 DEF KeptCount, Empty
  <2> QED
    BY <1>1, <1>2, <2>3, <2>4
<1>6. L % 2 = 0 \/ L % 2 = 1
  BY <1>1
<1> QED
  BY <1>1, <1>4, <1>5, <1>6 DEF L

\* Bytes at their places behind bytes at their places.
LEMMA Extends ==
  ASSUME IInv, NEW h \in Handles, OutOrdered(h), NEW bytes \in Seq(Int),
         out' = out \o bytes, scan' = scan,
         \A k \in 1..Len(bytes) : bytes[k] = Start(h) + Place(h, Len(out) + k)
  PROVE  OutOrdered(h)' /\ Len(out') = Len(out) + Len(bytes)
<1>1. out \in Seq(Int) /\ Len(out) \in Nat /\ Len(bytes) \in Nat /\ DOMAIN out = 1..Len(out)
  BY LenProperties DEF IInv, SwapTypes
<1>2. /\ out' \in Seq(Int) /\ Len(out') = Len(out) + Len(bytes)
      /\ \A i \in 1..(Len(out) + Len(bytes)) :
           out'[i] = IF i <= Len(out) THEN out[i] ELSE bytes[i - Len(out)]
  BY <1>1, ConcatProperties
<1>3. DOMAIN out' = 1..(Len(out) + Len(bytes))
  BY <1>2, LenProperties
<1>4. Start(h)' = Start(h) /\ \A k : Place(h, k)' = Place(h, k)
  BY DEF Start, Place, Exchanged
<1>5. ASSUME NEW k \in 1..(Len(out) + Len(bytes))
      PROVE  out'[k] = Start(h) + Place(h, k)
  <2>1. CASE k <= Len(out)
    <3>1. k \in 1..Len(out)
      BY <1>1, <2>1
    <3> QED
      BY <1>1, <1>2, <2>1, <3>1 DEF OutOrdered
  <2>2. CASE ~(k <= Len(out))
    <3>1. k - Len(out) \in 1..Len(bytes) /\ Len(out) + (k - Len(out)) = k
      BY <1>1, <2>2
    <3>2. bytes[k - Len(out)] = Start(h) + Place(h, k)
      BY <3>1
    <3> QED
      BY <1>2, <2>2, <3>2
  <2> QED
    BY <2>1, <2>2
<1>6. OutOrdered(h)'
  BY <1>3, <1>4, <1>5 DEF OutOrdered
<1> QED
  BY <1>2, <1>6

\* Only calls for h leave its scan undisturbed.
LEMMA Undisturbed ==
  ASSUME NEW h \in Handles, NEW g \in Handles, NEW bytes, Returns(g, bytes), alone' = h
  PROVE  g = h /\ alone = h /\ depth' = DepthOf(h) /\ out' = out \o bytes
  BY SwapAssumption DEF Returns

LEMMA SameOrder ==
  ASSUME NEW h, OutOrdered(h), KeptOrdered(h),
         UNCHANGED << hang_over, left_over, scan, out >>
  PROVE  OutOrdered(h)' /\ KeptOrdered(h)'
  BY DEF OutOrdered, KeptOrdered, Start, Place, Exchanged

LEMMA LeftOverOrder ==
  ASSUME IInv, NEW h \in Handles, ReadLeftOver(h), alone' = h,
         OutOrdered(h), KeptOrdered(h)
  PROVE  OutOrdered(h)' /\ KeptOrdered(h)'
<1>1. /\ left_over > -1 /\ left_over' = -1 /\ hang_over' = hang_over
      /\ scan' = scan /\ alone = h /\ out' = out \o << left_over >>
  BY Undisturbed DEF ReadLeftOver, frames
<1>2. left_over \in Int /\ hang_over = -1
  BY <1>1, OfAlone DEF IInv, SwapTypes
<1> DEFINE bytes == << left_over >>
<1>3. bytes \in Seq(Int) /\ Len(bytes) = 1 /\ bytes[1] = left_over
  BY <1>2
<1>4. bytes[1] = Start(h) + Place(h, Len(out) + 1)
  BY <1>1, <1>3 DEF KeptOrdered
<1> HIDE DEF bytes
<1>5. \A k \in 1..Len(bytes) : bytes[k] = Start(h) + Place(h, Len(out) + k)
  BY <1>3, <1>4
<1>6. OutOrdered(h)'
  BY <1>1, <1>3, <1>5, Extends DEF bytes
<1> QED
  BY <1>1, <1>2, <1>6 DEF KeptOrdered

LEMMA PlainOrder ==
  ASSUME IInv, NEW h \in Handles, NEW n \in Nat, ReadPlain(h, n), alone' = h,
         OutOrdered(h), KeptOrdered(h)
  PROVE  OutOrdered(h)' /\ KeptOrdered(h)'
<1>1. /\ ~Swapped /\ left_over' = left_over /\ hang_over' = hang_over
      /\ scan' = scan /\ alone = h /\ out' = out \o Received(h, n)
      /\ depth' = depth /\ depth' = DepthOf(h)
  BY Undisturbed DEF ReadPlain, Read, frames, shared
<1>2. ~Exchanged(h) /\ Empty
  BY <1>1, SwapMode, OfAlone DEF IInv
<1>3. nin[h] = Len(out) + KeptCount /\ KeptCount = 0 /\ Len(out) \in Nat
  BY <1>1, <1>2, OfAlone, LenProperties DEF IInv, SwapTypes, KeptCount
<1>4. /\ Received(h, n) \in Seq(Int) /\ Len(Received(h, n)) = n
      /\ \A k \in 1..n : Received(h, n)[k] = Start(h) + (nin[h] + k - 1)
  BY ReceivedBytes DEF IInv
<1>5. \A k \in 1..n : nin[h] + k - 1 = Place(h, Len(out) + k)
  BY <1>2, <1>3 DEF Place
<1>6. \A k \in 1..Len(Received(h, n)) :
        Received(h, n)[k] = Start(h) + Place(h, Len(out) + k)
  BY <1>4, <1>5
<1>7. OutOrdered(h)'
  BY <1>1, <1>4, <1>6, Extends
<1> QED
  BY <1>1, <1>2, <1>7 DEF KeptOrdered, Empty

LEMMA KeptOrder ==
  ASSUME IInv, NEW h \in Handles, ReadKept(h), alone' = h,
         OutOrdered(h), KeptOrdered(h)
  PROVE  OutOrdered(h)' /\ KeptOrdered(h)'
<1>1. /\ ~(left_over > -1) /\ ~(hang_over > -1) /\ left_over' = left_over
      /\ hang_over' = Received(h, 1)[1]
      /\ scan' = scan /\ alone = h /\ out' = out \o << >>
  BY Undisturbed DEF ReadKept, Read, Holding, frames, shared
<1>2. left_over = -1 /\ hang_over = -1 /\ out' = out
  BY <1>1, ConcatEmptySeq DEF IInv, SwapTypes
<1>3. nin[h] = Len(out) + KeptCount /\ KeptCount = 0 /\ Len(out) \in Nat
  BY <1>1, <1>2, OfAlone, LenProperties DEF IInv, SwapTypes, KeptCount, Empty
<1>4. Received(h, 1)[1] = Start(h) + (nin[h] + 1 - 1)
  BY ReceivedBytes DEF IInv
<1>5. hang_over' = Start(h) + Len(out)
  BY <1>1, <1>3, <1>4
<1> QED
  BY <1>1, <1>2, <1>5 DEF OutOrdered, KeptOrdered, Start, Place, Exchanged

LEMMA PairOrder ==
  ASSUME IInv, NEW h \in Handles, ReadPair(h), alone' = h,
         OutOrdered(h), KeptOrdered(h)
  PROVE  OutOrdered(h)' /\ KeptOrdered(h)'
<1>1. /\ Swapped /\ ~(left_over > -1) /\ hang_over > -1 /\ left_over' = hang_over
      /\ hang_over' = -1 /\ scan' = scan /\ alone = h /\ out' = out \o Received(h, 1)
      /\ depth' = depth /\ depth' = DepthOf(h)
  BY Undisturbed DEF ReadPair, Read, Holding, frames, shared
<1>2. left_over = -1 /\ Exchanged(h)
  BY <1>1, SwapMode DEF IInv, SwapTypes
<1>3. /\ nin[h] = Len(out) + KeptCount /\ KeptCount = 1
      /\ Len(out) \in Nat /\ Len(out) % 2 = 0
  <2>1. nin[h] = Len(out) + KeptCount /\ KeptCount = 1
    BY <1>1, <1>2, OfAlone DEF IInv, KeptCount, Empty
  <2> QED
    BY <1>1, <1>2, <2>1, Parity
<1>4. /\ Received(h, 1) \in Seq(Int) /\ Len(Received(h, 1)) = 1
      /\ Received(h, 1)[1] = Start(h) + (nin[h] + 1 - 1)
  <2>1. 1 \in Nat /\ 1 \in 1..1
    OBVIOUS
  <2> QED
    BY <2>1, ReceivedBytes DEF IInv
<1>5. Place(h, Len(out) + 1) = Len(out) + 1 /\ Place(h, Len(out) + 1 + 1) = Len(out)
  <2>1. /\ (Len(out) + 1) % 2 = 1 /\ (Len(out) + 1 + 1) % 2 # 1
        /\ Len(out) + 1 + 1 - 2 = Len(out)
    BY <1>3
  <2> QED
    BY <1>2, <2>1 DEF Place
<1>6. \A k \in 1..Len(Received(h, 1)) :
        Received(h, 1)[k] = Start(h) + Place(h, Len(out) + k)
  <2>1. Received(h, 1)[1] = Start(h) + Place(h, Len(out) + 1)
    BY <1>3, <1>4, <1>5
  <2> QED
    BY <1>4, <2>1
<1>7. OutOrdered(h)' /\ Len(out') = Len(out) + 1
  BY <1>1, <1>4, <1>6, Extends
<1>8. left_over' = Start(h) + Place(h, Len(out') + 1)
  BY <1>1, <1>5, <1>7 DEF KeptOrdered
<1> QED
  BY <1>1, <1>7, <1>8 DEF KeptOrdered, Start, Place, Exchanged

LEMMA ManyOrder ==
  ASSUME IInv, NEW h \in Handles, NEW n \in Nat, ReadMany(h, n), alone' = h,
         OutOrdered(h), KeptOrdered(h)
  PROVE  OutOrdered(h)' /\ KeptOrdered(h)'
<1> DEFINE buf == Received(h, n)
           length == n - (n % 2)
           bytes == SubSeq(swap(buf, length), 1, length)
<1>1. /\ Swapped /\ n # 1 /\ (~(hang_over > -1) \/ n = 0) /\ ~(left_over > -1)
      /\ left_over' = left_over
      /\ hang_over' = IF n % 2 = 0 THEN hang_over ELSE buf[n]
      /\ scan' = scan /\ Returns(h, bytes) /\ depth' = depth
  BY DEF ReadMany, Read, Holding, frames, shared
<1>2. alone = h /\ depth = DepthOf(h) /\ out' = out \o bytes
  BY <1>1, Undisturbed
<1>3. left_over = -1 /\ Exchanged(h) /\ hang_over \in Int /\ hang_over >= -1
  BY <1>1, <1>2, SwapMode DEF IInv, SwapTypes
<1>4. nin[h] = Len(out) + KeptCount /\ Len(out) \in Nat /\ Len(out) % 2 = 0
  BY <1>2, <1>3, OfAlone, Parity DEF IInv
<1>5. /\ buf \in Seq(Int) /\ Len(buf) = n /\ IsInjective(buf)
      /\ \A k \in 1..n : buf[k] = Start(h) + (nin[h] + k - 1)
  BY ReceivedBytes DEF IInv
<1>6. length \in Nat /\ length % 2 = 0 /\ length <= n
      /\ (n % 2 = 0 => length = n) /\ (n % 2 # 0 => length = n - 1 /\ n \in 1..n)
  OBVIOUS
<1> HIDE DEF buf, length
<1>7. bytes \in Seq(Int) /\ Len(bytes) = length /\ \A k \in 1..length : bytes[k] = buf[Flip(k)]
  <2>1. /\ buf \in Seq(Int) /\ IsInjective(buf)
        /\ length \in Nat /\ length % 2 = 0 /\ length <= Len(buf)
    BY <1>5, <1>6
  <2>2. \A t : t = SubSeq(swap(buf, length), 1, length) =>
          t \in Seq(Int) /\ Len(t) = length /\ Flips(buf, t, length)
    BY <2>1, WholeSamples
  <2> QED
    BY <2>2 DEF Flips
<1> HIDE DEF bytes
<1>8. CASE n = 0
  <2>1. length = 0 /\ n % 2 = 0
    BY <1>6, <1>8
  <2>2. OutOrdered(h)' /\ Len(out') = Len(out)
    <3>1. \A k \in 1..Len(bytes) : bytes[k] = Start(h) + Place(h, Len(out) + k)
      BY <1>7, <2>1
    <3>2. OutOrdered(h)' /\ Len(out') = Len(out) + Len(bytes)
      BY <1>1, <1>2, <1>7, <3>1, Extends
    <3> QED
      BY <1>4, <1>7, <2>1, <3>2
  <2> QED
    BY <1>1, <2>1, <2>2 DEF KeptOrdered, Start, Place, Exchanged
<1>9. CASE n # 0
  <2>1. hang_over = -1 /\ nin[h] = Len(out)
    BY <1>1, <1>3, <1>4, <1>9 DEF KeptCount, Empty
  <2>2. ASSUME NEW k \in 1..length
        PROVE  bytes[k] = Start(h) + Place(h, Len(out) + k)
    <3>1. Flip(k) \in 1..n
      <4>1. Flip(k) \in 1..length
        BY <1>6, FlipBack
      <4> QED
        BY <1>6, <4>1
    <3>2. bytes[k] = Start(h) + (nin[h] + Flip(k) - 1)
      BY <1>5, <1>7, <3>1
    <3>3. nin[h] + Flip(k) - 1 = Place(h, Len(out) + k)
      <4>1. CASE k % 2 = 1
        <5>1. (Len(out) + k) % 2 = 1 /\ Len(out) + (k + 1) - 1 = Len(out) + k
          BY <1>4, <4>1
        <5> QED
          BY <1>3, <2>1, <4>1, <5>1 DEF Flip, Place
      <4>2. CASE k % 2 # 1
        <5>1. (Len(out) + k) % 2 # 1 /\ Len(out) + (k - 1) - 1 = Len(out) + k - 2
          BY <1>4, <4>2
        <5> QED
          BY <1>3, <2>1, <4>2, <5>1 DEF Flip, Place
      <4> QED
        BY <4>1, <4>2
    <3> QED
      BY <3>2, <3>3
  <2>3. OutOrdered(h)' /\ Len(out') = Len(out) + length
    BY <1>1, <1>2, <1>7, <2>2, Extends
  <2>4. hang_over' > -1 => hang_over' = Start(h) + Len(out')
    <3>1. CASE n % 2 = 0
      BY <1>1, <2>1, <3>1
    <3>2. CASE n % 2 # 0
      <4>1. length = n - 1 /\ n \in 1..n
        BY <1>6, <3>2
      <4>2. hang_over' = Start(h) + (nin[h] + n - 1)
        BY <1>1, <1>5, <3>2, <4>1
      <4>3. nin[h] + n - 1 = Len(out')
        BY <1>4, <2>1, <2>3, <4>1
      <4> QED
        BY <4>2, <4>3
    <3> QED
      BY <3>1, <3>2
  <2> QED
    BY <1>1, <1>3, <2>3, <2>4 DEF KeptOrdered, Start
<1> QED
  BY <1>8, <1>9

LEMMA StepOrder ==
  ASSUME IInv, Next, NEW h \in Handles, alone' = h,
         alone = h /\ scan'[h] = scan[h] => InOrder(h),
         ~(\E n \in 0..MaxLength : ReadManyKept(h, n))
  PROVE  InOrder(h)'
<1>1. PICK g \in Handles :
        \/ sane_start(g) \/ sane_get_parameters(g) \/ do_cancel(g)
        \/ ReadLeftOver(g) \/ ReadKept(g) \/ ReadPair(g)
        \/ \E n \in 0..MaxLength :
             ReadPlain(g, n) \/ ReadMany(g, n) \/ ReadManyKept(g, n)
  BY DEF Next
<1>2. CASE sane_start(g)
  <2>1. Begins(g)
    BY <1>2, SwapAssumption DEF sane_start, StartFails
  <2>2. out' = << >> /\ hang_over' = -1 /\ left_over' = -1
    BY <1>2, <2>1 DEF sane_start, Begins
  <2>3. OutOrdered(h)' /\ KeptOrdered(h)'
    BY <2>2 DEF OutOrdered, KeptOrdered
  <2> QED
    BY <2>3, OrderIs
<1>3. ASSUME ~sane_start(g) PROVE g = h \/ do_cancel(g)
  <2>1. \A bytes : Returns(g, bytes) => g = h
    BY Undisturbed
  <2>2. CASE \E n \in 0..MaxLength :
               ReadPlain(g, n) \/ ReadMany(g, n) \/ ReadManyKept(g, n)
    BY <2>1, <2>2 DEF ReadPlain, ReadMany, ReadManyKept
  <2> QED
    BY <1>1, <1>3, <2>1, <2>2
       DEF sane_get_parameters, ReadLeftOver, ReadKept, ReadPair
<1>4. CASE do_cancel(g)
  <2>1. UNCHANGED << hang_over, left_over, scan, out, alone >>
    BY <1>4 DEF do_cancel
  <2>2. OutOrdered(h) /\ KeptOrdered(h)
    BY <2>1, OrderIs
  <2> QED
    BY <2>1, <2>2, SameOrder, OrderIs
<1>5. CASE g = h /\ ~sane_start(g) /\ ~do_cancel(g)
  <2>1. CASE sane_get_parameters(h)
    <3>1. UNCHANGED << hang_over, left_over, scan, alone >> /\ out' = out \o << >>
      BY <2>1, Undisturbed DEF sane_get_parameters, frames
    <3>2. out' = out
      BY <3>1, ConcatEmptySeq DEF IInv, SwapTypes
    <3>3. OutOrdered(h) /\ KeptOrdered(h)
      BY <3>1, OrderIs
    <3> QED
      BY <3>1, <3>2, <3>3, SameOrder, OrderIs
  <2>2. CASE \/ ReadLeftOver(h) \/ ReadKept(h) \/ ReadPair(h)
             \/ \E n \in 0..MaxLength : ReadPlain(h, n) \/ ReadMany(h, n)
    <3>1. scan' = scan /\ alone = h
      <4>1. scan' = scan
        BY <2>2 DEF ReadLeftOver, ReadKept, ReadPair, ReadPlain, ReadMany, Read, frames
      <4>2. \A bytes : Returns(h, bytes) => alone = h
        BY Undisturbed
      <4>3. alone = h
        BY <2>2, <4>2 DEF ReadLeftOver, ReadKept, ReadPair, ReadPlain, ReadMany
      <4> QED
        BY <4>1, <4>3
    <3>2. OutOrdered(h) /\ KeptOrdered(h)
      BY <3>1, OrderIs
    <3>3. 0..MaxLength \subseteq Nat
      BY SwapAssumption
    <3>4. OutOrdered(h)' /\ KeptOrdered(h)'
      BY <2>2, <3>2, <3>3, LeftOverOrder, KeptOrder, PairOrder, PlainOrder, ManyOrder
    <3> QED
      BY <3>4, OrderIs
  <2> QED
    BY <1>1, <1>5, <2>1, <2>2
<1> QED
  BY <1>1, <1>2, <1>3, <1>4, <1>5

(***************************************************************************)
(* In such a scan every call but one that reads two or more bytes with one *)
(* kept hands the bytes out in order, those of swapped samples exchanged.  *)
(***************************************************************************)
THEOREM OrderHolds == Spec => SwapInOrder
<1> DEFINE Act == \A h \in Handles :
                    /\ alone' = h
                    /\ alone = h /\ scan'[h] = scan[h] => InOrder(h)
                    /\ ~(\E n \in 0..MaxLength : ReadManyKept(h, n))
                    => InOrder(h)'
<1>1. IInv /\ [Next]_vars => [Act]_vars
  <2> SUFFICES ASSUME IInv, Next PROVE Act
    OBVIOUS
  <2> QED
    BY StepOrder
<1>2. []IInv /\ [][Next]_vars => [][Act]_vars
  BY <1>1, PTL
<1>3. Spec => [][Act]_vars
  BY <1>2, InvHolds, PTL DEF Spec
<1> QED
  BY <1>3 DEF SwapInOrder
===============================================================================
