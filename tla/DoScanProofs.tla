----------------------------- MODULE DoScanProofs -----------------------------
(***************************************************************************)
(* Proofs that the invariants of DoScan hold, and that do_scan implements  *)
(* RecordStream, for every ring size from 9 bytes up, every image, every   *)
(* socket capacity and every way the backend may behave.                   *)
(***************************************************************************)
EXTENDS DoScan, SequenceTheorems, TLAPS

(***************************************************************************)
(* The ring index helpers stay inside the ring.                            *)
(***************************************************************************)
LEMMA WrapType ==
  ASSUME NEW x \in 0..(2 * Size - 1)
  PROVE  Wrap(x) \in 0..(Size - 1)
BY SizeAssumption DEF Wrap

(***************************************************************************)
(* Storing bytes in the ring (store_reclen, sane_read into buf) leaves a   *)
(* ring of bytes.                                                          *)
(***************************************************************************)
LEMMA StoreType ==
  ASSUME NEW b \in [0..(Size - 1) -> Byte], NEW i \in 0..(Size - 1),
         NEW s \in Seq(Byte)
  PROVE  Store(b, i, s) \in [0..(Size - 1) -> Byte]
<1>1. ASSUME NEW x \in 0..(Size - 1)
      PROVE  (IF Ahead(x, i) < Len(s) THEN s[Ahead(x, i) + 1] ELSE b[x]) \in Byte
  <2>1. Ahead(x, i) \in Nat
    BY SizeAssumption DEF Ahead
  <2>2. CASE Ahead(x, i) < Len(s)
    BY <2>1, <2>2
  <2>3. CASE ~(Ahead(x, i) < Len(s))
    BY <2>3
  <2>. QED BY <2>2, <2>3
<1>. QED BY <1>1 DEF Store

(***************************************************************************)
(* Reading n bytes of the ring from index w gives n bytes.                 *)
(***************************************************************************)
LEMMA ContentType ==
  ASSUME NEW b \in [0..(Size - 1) -> Byte], NEW w \in 0..(Size - 1),
         NEW n \in 0..Size
  PROVE  /\ Content(b, w, n) \in Seq(Byte)
         /\ Len(Content(b, w, n)) = n
         /\ \A k \in 1..n : Content(b, w, n)[k] = b[Wrap(w + (k - 1))]
<1>1. \A k \in 1..n : b[Wrap(w + (k - 1))] \in Byte
  BY WrapType, SizeAssumption
<1>. QED BY <1>1 DEF Content

(***************************************************************************)
(* A length field is four bytes.                                           *)
(***************************************************************************)
LEMMA ReclenType ==
  ASSUME NEW n \in Nat
  PROVE  reclen(n) \in Seq(Byte) /\ Len(reclen(n)) = 4
BY DEF reclen, Byte

(***************************************************************************)
(* An end record is five bytes.                                            *)
(***************************************************************************)
LEMMA EndRecordType ==
  ASSUME NEW st \in SANE_Status
  PROVE  EndRecord(st) \in Seq(Byte) /\ Len(EndRecord(st)) = 5
BY DEF EndRecord, Byte, SANE_Status

-------------------------------------------------------------------------------
(* The inductive invariant.                                                *)

\* What StoreStatus leaves.
StatusStored(b, r, n, st, dirty) ==
  /\ buf' \in [0..(Size - 1) -> Byte]
  /\ reader' \in 0..(Size - 1)
  /\ bytes_in_buf' \in 0..Size
  /\ status' = st
  /\ status_dirty' \in BOOLEAN
  /\ pc' = "ctl"
  /\ \/ reader' = r /\ bytes_in_buf' = n /\ buf' = b /\ status_dirty' = dirty
        /\ ~(dirty /\ Size - n >= 5)
     \/ status_dirty' = FALSE /\ dirty /\ Size - n >= 5

(***************************************************************************)
(* What the middle of an iteration does to the ring: the status record     *)
(* goes in only if it is due and fits, and then the status is no longer    *)
(* dirty.                                                                  *)
(***************************************************************************)
LEMMA StoreStatusEffect ==
  ASSUME NEW b \in [0..(Size - 1) -> Byte], NEW r \in 0..(Size - 1),
         NEW n \in 0..Size, NEW st \in SANE_Status, NEW dirty \in BOOLEAN,
         StoreStatus(b, r, n, st, dirty)
  PROVE  StatusStored(b, r, n, st, dirty)
<1>. USE DEF StatusStored
<1>1. CASE dirty /\ Size - n >= 5
  <2>1. /\ buf' = Store(b, r, EndRecord(st))
        /\ reader' = Wrap(r + 4)
        /\ bytes_in_buf' = n + 5
        /\ status_dirty' = FALSE
        /\ status' = st
        /\ pc' = "ctl"
    BY <1>1 DEF StoreStatus, HasRoom
  <2>2. buf' \in [0..(Size - 1) -> Byte]
    BY <2>1, EndRecordType, StoreType
  <2>3. reader' \in 0..(Size - 1)
    BY <2>1, WrapType, SizeAssumption
  <2>4. bytes_in_buf' \in 0..Size
    BY <2>1, <1>1, SizeAssumption
  <2>. QED BY <1>1, <2>1, <2>2, <2>3, <2>4
<1>2. CASE ~(dirty /\ Size - n >= 5)
  BY <1>2 DEF StoreStatus, HasRoom
<1>. QED BY <1>1, <1>2

(***************************************************************************)
(* The region for data behind the four length bytes is never empty.        *)
(***************************************************************************)
LEMMA MaxlenRange ==
  ASSUME NEW i \in 0..(Size - 1)
  PROVE  /\ Wrap(i + 4) \in 0..(Size - 1)
         /\ maxlen(Wrap(i + 4)) \in 1..(Size - 4)
         /\ Wrap(i + 4) + maxlen(Wrap(i + 4)) <= Size
BY SizeAssumption DEF maxlen, Wrap

\* The data of one read may end at the end of the buffer, but not behind it.
LEMMA ReaderNext ==
  ASSUME NEW i \in 0..(Size - 1), NEW n \in 0..Size, n <= maxlen(Wrap(i + 4))
  PROVE  LET r == Wrap(i + 4)
             r1 == IF r + n >= Size THEN 0 ELSE r + n
         IN  r1 \in 0..(Size - 1) /\ n + 4 \in 0..Size /\ r1 = Wrap(i + (n + 4))
BY SizeAssumption DEF maxlen, Wrap

(***************************************************************************)
(* The initial state satisfies the invariant.                              *)
(***************************************************************************)
LEMMA InitIInv == Init => IInv
<1>. SUFFICES ASSUME Init PROVE IInv
  OBVIOUS
<1>1. TypeOK
  BY SizeAssumption, SockAssumption, ImageAssumption
  DEF Init, TypeOK, Byte, SANE_Status, GOOD
<1>2. RingAligned /\ DirtyMeansEof
  BY SizeAssumption DEF Init, RingAligned, DirtyMeansEof, Wrap
<1>3. RegionsInBuf
  BY MaxlenRange, <1>1 DEF Init, RegionsInBuf, TypeOK
<1>. QED BY <1>1, <1>2, <1>3 DEF IInv
(***************************************************************************)
(* Every step of do_scan and of its environment preserves the invariant.   *)
(***************************************************************************)
LEMMA NextIInv == IInv /\ [Next]_vars => IInv'
<1>. SUFFICES ASSUME IInv, [Next]_vars PROVE IInv'
  OBVIOUS
<1>. USE DEF IInv
<1>a. TypeOK /\ RingAligned /\ RegionsInBuf /\ DirtyMeansEof
  OBVIOUS
<1>b. reader' \in 0..(Size - 1) =>
        1 <= maxlen(Wrap(reader' + 4)) /\ Wrap(reader' + 4) + maxlen(Wrap(reader' + 4)) <= Size
  BY MaxlenRange
<1>c. /\ buf \in [0..(Size - 1) -> Byte] /\ reader \in 0..(Size - 1)
      /\ bytes_in_buf \in 0..Size /\ status \in SANE_Status
      /\ status_dirty \in BOOLEAN
  BY DEF TypeOK
<1>1. CASE SelectBadFd
  <2>. USE <1>1 DEF SelectBadFd, ring, io, request, EofIsNews
  <2>1. TypeOK'
    BY DEF TypeOK, SANE_Status, EOF
  <2>2. RingAligned' /\ DirtyMeansEof'
    BY DEF RingAligned, DirtyMeansEof, Running, TypeOK, EOF, GOOD, Wrap
  <2>3. RegionsInBuf'
    BY <1>b, <2>1 DEF RegionsInBuf, TypeOK, Wrap
  <2>. QED BY <2>1, <2>2, <2>3
<1>2. CASE SelectError
  <2>. USE <1>2 DEF SelectError, ring, io
  <2>1. TypeOK'
    BY DEF TypeOK, SANE_Status, IO_ERROR
  <2>2. RingAligned' /\ DirtyMeansEof'
    BY DEF RingAligned, DirtyMeansEof, Running, TypeOK, IO_ERROR, GOOD
  <2>3. RegionsInBuf'
    BY <1>b, <2>1 DEF RegionsInBuf, TypeOK, Wrap
  <2>. QED BY <2>1, <2>2, <2>3
<1>3. CASE WriteBegin
  <2>. USE <1>3 DEF WriteBegin, Selected, ring, select, Chunk
  <2>1. nbytes' \in 1..Size /\ nbytes' <= bytes_in_buf /\ writer + nbytes' <= Size
    BY SizeAssumption DEF TypeOK
  <2>2. TypeOK'
    BY <2>1, SizeAssumption DEF TypeOK
  <2>3. RingAligned' /\ DirtyMeansEof'
    BY DEF RingAligned, DirtyMeansEof, Running, Wrap
  <2>4. RegionsInBuf'
    BY <1>b, <2>1, <2>2 DEF RegionsInBuf, TypeOK, Wrap
  <2>. QED BY <2>2, <2>3, <2>4
<1>4. CASE WriteReturn
  <2>. USE <1>4 DEF WriteReturn, request, WriterNext
  <2>1. bytes_in_buf - nbytes \in 0..Size
    BY SizeAssumption DEF TypeOK, RegionsInBuf
  <2>2. StoreStatus(buf, reader, bytes_in_buf - nbytes, status, status_dirty)
    OBVIOUS
  <2>3. /\ buf' \in [0..(Size - 1) -> Byte]
        /\ reader' \in 0..(Size - 1)
        /\ bytes_in_buf' \in 0..Size
        /\ status' = status
        /\ status_dirty' \in BOOLEAN
        /\ pc' = "ctl"
        /\ \/ reader' = reader /\ bytes_in_buf' = bytes_in_buf - nbytes
               /\ status_dirty' = status_dirty
           \/ status_dirty' = FALSE /\ status_dirty
    <3>1. StatusStored(buf, reader, bytes_in_buf - nbytes, status, status_dirty)
      BY <1>c, <2>1, <2>2, StoreStatusEffect
    <3>. QED BY <3>1 DEF StatusStored
  <2>4. writer' \in 0..(Size - 1)
    BY SizeAssumption DEF TypeOK, RegionsInBuf
  <2>5. TypeOK'
    BY <2>3, <2>4, SizeAssumption DEF TypeOK
  <2>6. DirtyMeansEof'
    BY <2>3 DEF DirtyMeansEof, Running
  <2>7. RingAligned'
    <3>1. CASE status_dirty' = FALSE /\ status_dirty
      BY <2>3, <3>1 DEF RingAligned, DirtyMeansEof, Running, EOF, GOOD
    <3>2. CASE /\ reader' = reader /\ bytes_in_buf' = bytes_in_buf - nbytes
               /\ status_dirty' = status_dirty
      <4>1. ASSUME status = GOOD \/ status_dirty
            PROVE  reader = Wrap(writer + bytes_in_buf)
        BY <4>1 DEF RingAligned, Running
      <4>2. Wrap(writer' + (bytes_in_buf - nbytes)) = Wrap(writer + bytes_in_buf)
        BY SizeAssumption DEF TypeOK, RegionsInBuf, Wrap
      <4>. QED BY <2>3, <3>2, <4>1, <4>2 DEF RingAligned
    <3>. QED BY <2>3, <3>1, <3>2
  <2>8. RegionsInBuf'
    BY <1>b, <2>3 DEF RegionsInBuf, Wrap
  <2>. QED BY <2>5, <2>6, <2>7, <2>8
<1>5. CASE WriteFail
  <2>. USE <1>5 DEF WriteFail, ring, io
  <2>1. TypeOK'
    BY DEF TypeOK, SANE_Status, CANCELLED
  <2>2. RingAligned' /\ DirtyMeansEof'
    BY DEF RingAligned, DirtyMeansEof, Running, CANCELLED, GOOD
  <2>3. RegionsInBuf'
    BY <1>b, <2>1 DEF RegionsInBuf, TypeOK, Wrap
  <2>. QED BY <2>1, <2>2, <2>3
<1>6. CASE WriteSigpipe
  <2>. USE <1>6 DEF WriteSigpipe, ring, io, select, request
  <2>1. TypeOK'
    BY DEF TypeOK
  <2>2. RingAligned' /\ DirtyMeansEof'
    BY DEF RingAligned, DirtyMeansEof, Running
  <2>3. RegionsInBuf'
    BY <1>b, <2>1 DEF RegionsInBuf, TypeOK, Wrap
  <2>. QED BY <2>1, <2>2, <2>3
<1>7. ASSUME NEW k \in 1..Size, WriteSome(k) PROVE IInv'
  <2>. USE <1>7 DEF WriteSome, ring, select, request
  <2>1. Wrap(writer + nsent) \in 0..(Size - 1)
    BY WrapType, SizeAssumption DEF TypeOK, RegionsInBuf
  <2>2. /\ Content(buf, Wrap(writer + nsent), k) \in Seq(Byte)
        /\ Len(Content(buf, Wrap(writer + nsent), k)) = k
    BY <2>1, ContentType DEF TypeOK
  <2>3. sock' \in Seq(Byte) /\ Len(sock') <= SockCap
    BY <2>2, SockAssumption DEF TypeOK
  <2>4. TypeOK'
    BY <2>3 DEF TypeOK
  <2>5. RingAligned' /\ DirtyMeansEof'
    BY DEF RingAligned, DirtyMeansEof, Running, Wrap
  <2>6. RegionsInBuf'
    BY <1>b, <2>4 DEF RegionsInBuf, TypeOK, Wrap
  <2>. QED BY <2>4, <2>5, <2>6
<1>8. ASSUME NEW n \in 0..Size, ReadGood(n) PROVE IInv'
  <2>. USE <1>8 DEF ReadGood, Reading, Selected, io, Counted
  <2>. DEFINE r == Wrap(reader + 4)
              d == SubSeq(Image, pos + 1, pos + n)
              b == Store(Store(buf, r, d), reader, reclen(n))
              r1 == IF r + n >= Size THEN 0 ELSE r + n
  <2>1. /\ maxlen(r) \in 1..(Size - 4)
        /\ r \in 0..(Size - 1)
        /\ r + maxlen(r) <= Size
    BY <1>c, MaxlenRange
  <2>2. n <= Len(Image) - pos /\ d \in Seq(Byte)
    BY ImageAssumption DEF TypeOK
  <2>3. b \in [0..(Size - 1) -> Byte]
    <3>1. Store(buf, r, d) \in [0..(Size - 1) -> Byte]
      BY <1>c, <2>1, <2>2, StoreType
    <3>2. reclen(n) \in Seq(Byte)
      BY ReclenType
    <3>. QED BY <1>c, <3>1, <3>2, StoreType
  <2>4. r1 \in 0..(Size - 1) /\ n + 4 \in 0..Size /\ r1 = Wrap(reader + (n + 4))
    <3>1. n <= maxlen(Wrap(reader + 4))
      OBVIOUS
    <3>. HIDE <1>8 DEF IInv
    <3>. QED BY <1>c, <3>1, ReaderNext
  <2>5. StoreStatus(b, r1, n + 4, GOOD, status_dirty)
    OBVIOUS
  <2>6. ~status_dirty
    BY DEF DirtyMeansEof, Running, EOF, GOOD
  <2>7. /\ buf' \in [0..(Size - 1) -> Byte]
        /\ reader' = r1
        /\ bytes_in_buf' = n + 4
        /\ status' = GOOD
        /\ status_dirty' = FALSE
        /\ pc' = "ctl"
    <3>1. GOOD \in SANE_Status /\ status_dirty \in BOOLEAN
      BY DEF GOOD, SANE_Status, TypeOK
    <3>2. StoreStatus(b, r1, n + 4, GOOD, status_dirty)
      BY <2>5
    <3>3. n + 4 \in 0..Size /\ r1 \in 0..(Size - 1)
      BY <2>4
    <3>4. /\ buf' \in [0..(Size - 1) -> Byte]
          /\ status' = GOOD
          /\ pc' = "ctl"
          /\ \/ reader' = r1 /\ bytes_in_buf' = n + 4 /\ buf' = b
                /\ status_dirty' = status_dirty
             \/ status_dirty
      <4>. HIDE <1>8 DEF b, d, r, r1, ReadGood, Reading, Selected, io, IInv, Counted
      <4>1. StatusStored(b, r1, n + 4, GOOD, status_dirty)
        BY <2>3, <3>1, <3>2, <3>3, StoreStatusEffect
      <4>. QED BY <4>1 DEF StatusStored
    <3>. QED BY <2>6, <3>1, <3>4
  <2>8. be_fd' \in {"open", "closed", "none"}
        /\ (be_fd' = "closed" => be_fd = "closed" \/ pos + n = Len(Image))
    BY DEF MayCloseFd, TypeOK
  <2>9. pos' \in 0..Len(Image)
    BY <2>2, ImageAssumption DEF TypeOK
  <2>10. TypeOK'
    BY <2>4, <2>7, <2>8, <2>9 DEF TypeOK, SANE_Status, GOOD
  <2>11. RingAligned'
    <3>1. reader = writer
      BY SizeAssumption DEF RingAligned, Running, TypeOK, Wrap
    <3>. QED BY <2>4, <2>7, <3>1 DEF RingAligned
  <2>12. DirtyMeansEof'
    BY <2>7, <2>8 DEF DirtyMeansEof
  <2>13. RegionsInBuf'
    BY <1>b, <2>7, <2>10 DEF RegionsInBuf, TypeOK, Wrap
  <2>. QED BY <2>10, <2>11, <2>12, <2>13
<1>9. ASSUME NEW st \in SANE_Status, NEW len \in ErrLen, ReadEnd(st, len) PROVE IInv'
  <2>. USE <1>9 DEF ReadEnd, Reading, Selected, io, Counted
  <2>1. len + 4 \in 0..Size /\ Size - (len + 4) >= 5
    BY ErrLenAssumption, SizeAssumption
  <2>2. StoreStatus(buf, reader, len + 4, st, TRUE)
    OBVIOUS
  <2>3. /\ buf' \in [0..(Size - 1) -> Byte]
        /\ reader' \in 0..(Size - 1)
        /\ bytes_in_buf' \in 0..Size
        /\ status' = st
        /\ status_dirty' = FALSE
        /\ pc' = "ctl"
    <3>1. StatusStored(buf, reader, len + 4, st, TRUE)
      BY <1>c, <2>1, <2>2, StoreStatusEffect
    <3>. QED BY <2>1, <3>1 DEF StatusStored
  <2>4. st # GOOD
    BY ErrStatusAssumption DEF EOF, GOOD
  <2>5. be_fd' \in {"open", "closed", "none"}
    BY DEF MayCloseFd, TypeOK
  <2>6. TypeOK'
    BY <2>3, <2>5 DEF TypeOK
  <2>7. RingAligned' /\ DirtyMeansEof'
    BY <2>3, <2>4 DEF RingAligned, DirtyMeansEof
  <2>8. RegionsInBuf'
    BY <1>b, <2>3 DEF RegionsInBuf, Wrap
  <2>. QED BY <2>6, <2>7, <2>8
<1>10. CASE Idle
  <2>1. /\ StoreStatus(buf, reader, bytes_in_buf, status, status_dirty)
        /\ pc = "select"
        /\ UNCHANGED << writer, be_fd, polling, nbytes, nsent, ctl, pos, sock, peer >>
        /\ rd_ctl' \in BOOLEAN
    BY <1>10 DEF Idle, Selected, io
  <2>2. /\ buf' \in [0..(Size - 1) -> Byte]
        /\ reader' \in 0..(Size - 1)
        /\ bytes_in_buf' \in 0..Size
        /\ status' = status
        /\ status_dirty' \in BOOLEAN
        /\ pc' = "ctl"
        /\ \/ reader' = reader /\ bytes_in_buf' = bytes_in_buf
               /\ status_dirty' = status_dirty
           \/ status_dirty' = FALSE /\ status_dirty
    <3>. HIDE DEF IInv
    <3>1. StatusStored(buf, reader, bytes_in_buf, status, status_dirty)
      BY <1>c, <2>1, StoreStatusEffect
    <3>. QED BY <3>1 DEF StatusStored
  <2>3. TypeOK'
    BY <2>1, <2>2 DEF TypeOK
  <2>4. RingAligned' /\ DirtyMeansEof'
    BY <2>1, <2>2 DEF RingAligned, DirtyMeansEof, Running, EOF, GOOD, Wrap
  <2>5. RegionsInBuf'
    BY <1>b, <2>1, <2>2 DEF RegionsInBuf, Wrap
  <2>. QED BY <2>3, <2>4, <2>5
<1>11. CASE ProcessRequest
  <2>. USE <1>11 DEF ProcessRequest, ring, select, io
  <2>1. TypeOK'
    BY DEF TypeOK
  <2>2. RingAligned' /\ DirtyMeansEof'
    BY DEF RingAligned, DirtyMeansEof, Running, Wrap
  <2>3. RegionsInBuf'
    BY <1>b, <2>1 DEF RegionsInBuf, TypeOK, Wrap
  <2>. QED BY <2>1, <2>2, <2>3
<1>12. CASE Client
  <2>1. /\ sock' \in Seq(Byte) /\ Len(sock') <= SockCap
        /\ peer' \in {"open", "closed"}
        /\ ctl' \in {"none", "cancel", "other"}
        /\ UNCHANGED << ring, select, io, rd_ctl, pc, pos >>
    <3>1. ASSUME NEW n \in 1..SockCap, Receive(n)
          PROVE  sock' \in Seq(Byte) /\ Len(sock') <= SockCap
      BY <3>1, SockAssumption DEF Receive, TypeOK
    <3>2. ASSUME PeerClose PROVE sock' \in Seq(Byte) /\ Len(sock') <= SockCap
      BY <3>2, SockAssumption DEF PeerClose
    <3>. QED BY <1>12, <3>1, <3>2 DEF Client, Receive, PeerClose, Request, request, TypeOK
  <2>2. TypeOK'
    BY <2>1 DEF TypeOK, ring, select, io
  <2>3. RingAligned' /\ DirtyMeansEof'
    BY <2>1 DEF RingAligned, DirtyMeansEof, Running, ring, select, Wrap
  <2>4. RegionsInBuf'
    BY <1>b, <2>1, <2>2 DEF RegionsInBuf, TypeOK, ring, io, Wrap
  <2>. QED BY <2>2, <2>3, <2>4
<1>13. CASE UNCHANGED vars
  <2>1. TypeOK'
    BY <1>13 DEF TypeOK, vars, ring, select, io, request
  <2>2. RingAligned' /\ DirtyMeansEof'
    BY <1>13 DEF RingAligned, DirtyMeansEof, Running, Wrap, vars, ring, select
  <2>3. RegionsInBuf'
    BY <1>13, <1>b, <2>1 DEF RegionsInBuf, TypeOK, Wrap, vars, ring, io
  <2>. QED BY <2>1, <2>2, <2>3
<1>. QED
  BY <1>1, <1>2, <1>3, <1>4, <1>5, <1>6, <1>7, <1>8, <1>9, <1>10, <1>11, <1>12, <1>13
  DEF Next, Server
(***************************************************************************)
(* IInv holds in every reachable state of do_scan.                         *)
(***************************************************************************)
THEOREM IInvHolds == Spec => []IInv
<1>1. Init => IInv
  BY InitIInv
<1>2. IInv /\ [Next]_vars => IInv'
  BY NextIInv
<1>. QED BY <1>1, <1>2, PTL DEF Spec

(***************************************************************************)
(* The indices, counts and states of do_scan keep their types: no index    *)
(* leaves the buffer and no more than sizeof (buf) bytes are in it.        *)
(***************************************************************************)
THEOREM TypeCorrect == Spec => []TypeOK
<1>1. IInv => TypeOK
  BY DEF IInv
<1>. QED BY <1>1, IInvHolds, PTL

(***************************************************************************)
(* Bytes always go into the ring right behind the last one that waits.     *)
(***************************************************************************)
THEOREM RingSafe == Spec => []RingAligned
<1>1. IInv => RingAligned
  BY DEF IInv
<1>. QED BY <1>1, IInvHolds, PTL

(***************************************************************************)
(* Every region of buf that do_scan hands to write or to sane_read lies    *)
(* inside buf and is not empty.                                            *)
(***************************************************************************)
THEOREM RegionsSafe == Spec => []RegionsInBuf
<1>1. IInv => RegionsInBuf
  BY DEF IInv
<1>. QED BY <1>1, IInvHolds, PTL

(***************************************************************************)
(* do_scan leaves a status waiting for room in the ring only at the end of *)
(* the frame, when the backend has closed its descriptor and the whole     *)
(* image has been read; an error goes into the ring at once.               *)
(***************************************************************************)
THEOREM WaitingStatusIsEof == Spec => []DirtyMeansEof
<1>1. IInv => DirtyMeansEof
  BY DEF IInv
<1>. QED BY <1>1, IInvHolds, PTL

-------------------------------------------------------------------------------
(* The content of the ring as a sequence.                                  *)

(***************************************************************************)
(* Byte sequences of equal length are equal when all their bytes are.      *)
(***************************************************************************)
LEMMA BytesEqual ==
  ASSUME NEW s \in Seq(Byte), NEW t \in Seq(Byte), Len(s) = Len(t),
         \A k \in 1..Len(s) : s[k] = t[k]
  PROVE  s = t
BY SeqEqual

(***************************************************************************)
(* Concatenation of byte sequences.                                        *)
(***************************************************************************)
LEMMA BytesConcat ==
  ASSUME NEW s \in Seq(Byte), NEW t \in Seq(Byte)
  PROVE  /\ s \o t \in Seq(Byte)
         /\ Len(s \o t) = Len(s) + Len(t)
         /\ \A k \in 1..Len(s) : (s \o t)[k] = s[k]
         /\ \A k \in 1..Len(t) : (s \o t)[Len(s) + k] = t[k]
BY ConcatProperties, LenProperties

(***************************************************************************)
(* Slices of byte sequences.                                               *)
(***************************************************************************)
LEMMA BytesSlice ==
  ASSUME NEW s \in Seq(Byte), NEW m \in 0..Len(s), NEW n \in m..Len(s)
  PROVE  /\ SubSeq(s, m + 1, n) \in Seq(Byte)
         /\ Len(SubSeq(s, m + 1, n)) = n - m
         /\ \A k \in 1..(n - m) : SubSeq(s, m + 1, n)[k] = s[m + k]
<1>1. Len(s) \in Nat /\ \A k \in 1..Len(s) : s[k] \in Byte
  BY LenProperties, ElementOfSeq
<1>2. m + 1 \in Int /\ n \in Int /\ \A k \in (m + 1)..n : s[k] \in Byte
  BY <1>1
<1>. QED BY <1>1, <1>2, SubSeqProperties

(***************************************************************************)
(* Storing s right behind n bytes makes s the next bytes.                  *)
(***************************************************************************)
LEMMA ContentStore ==
  ASSUME NEW b \in [0..(Size - 1) -> Byte], NEW w \in 0..(Size - 1),
         NEW n \in 0..Size, NEW s \in Seq(Byte), n + Len(s) <= Size
  PROVE  Content(Store(b, Wrap(w + n), s), w, n + Len(s)) = Content(b, w, n) \o s
<1>. DEFINE i == Wrap(w + n)
            c == Store(b, i, s)
            old == Content(b, w, n)
            new == Content(c, w, n + Len(s))
<1>1. i \in 0..(Size - 1) /\ Len(s) \in Nat /\ n + Len(s) \in 0..Size
  BY WrapType, SizeAssumption
<1>2. c \in [0..(Size - 1) -> Byte]
  BY <1>1, StoreType
<1>3. /\ old \in Seq(Byte) /\ Len(old) = n
      /\ \A k \in 1..n : old[k] = b[Wrap(w + (k - 1))]
  BY ContentType
<1>4. /\ new \in Seq(Byte) /\ Len(new) = n + Len(s)
      /\ \A k \in 1..(n + Len(s)) : new[k] = c[Wrap(w + (k - 1))]
  BY <1>1, <1>2, ContentType
<1>5. /\ old \o s \in Seq(Byte) /\ Len(old \o s) = n + Len(s)
      /\ \A k \in 1..n : (old \o s)[k] = old[k]
      /\ \A k \in 1..Len(s) : (old \o s)[n + k] = s[k]
  <2>. HIDE DEF old
  <2>. QED BY <1>3, BytesConcat
<1>6. ASSUME NEW k \in 1..(n + Len(s)) PROVE new[k] = (old \o s)[k]
  <2>. DEFINE x == Wrap(w + (k - 1))
  <2>1. x \in 0..(Size - 1)
    BY WrapType, SizeAssumption, <1>1
  <2>2. c[x] = IF Ahead(x, i) < Len(s) THEN s[Ahead(x, i) + 1] ELSE b[x]
    BY <2>1 DEF Store
  <2>3. CASE k <= n
    <3>1. Ahead(x, i) >= Len(s)
      BY <2>3, <1>1, SizeAssumption DEF Ahead, Wrap
    <3>2. Ahead(x, i) \in Nat
      BY <1>1, <2>1, SizeAssumption DEF Ahead
    <3>3. c[x] = b[x]
      BY <2>2, <3>1, <3>2, <1>1
    <3>4. (old \o s)[k] = b[x]
      <4>. HIDE DEF old
      <4>. QED BY <2>3, <1>3, <1>5, <1>1
    <3>. HIDE DEF new, c, old, i
    <3>. QED BY <3>3, <3>4, <1>4
  <2>4. CASE k > n
    <3>1. Ahead(x, i) = k - 1 - n
      BY <2>4, <1>1, SizeAssumption DEF Ahead, Wrap
    <3>2. PICK j \in 1..Len(s) : k = n + j
      <4>1. k - n \in 1..Len(s) /\ k = n + (k - n)
        BY <2>4, <1>1
      <4>. QED BY <4>1
    <3>3. c[x] = s[j]
      BY <2>2, <3>1, <3>2, <1>1
    <3>4. (old \o s)[k] = s[j]
      <4>. HIDE DEF old
      <4>. QED BY <3>2, <1>5
    <3>. HIDE DEF new, c, old, i
    <3>. QED BY <3>3, <3>4, <1>4
  <2>. QED
    <3>. HIDE DEF new, old
    <3>1. k <= n \/ k > n
      BY <1>1
    <3>. QED BY <2>3, <2>4, <3>1
<1>7. new = old \o s
  <2>. HIDE DEF new, old
  <2>. QED BY <1>4, <1>5, <1>6, BytesEqual
<1>. QED BY <1>7

(***************************************************************************)
(* The first m bytes of the ring are the front of its first n bytes.       *)
(***************************************************************************)
LEMMA ContentTake ==
  ASSUME NEW b \in [0..(Size - 1) -> Byte], NEW w \in 0..(Size - 1),
         NEW n \in 0..Size, NEW m \in 0..n
  PROVE  Content(b, w, m) = SubSeq(Content(b, w, n), 1, m)
<1>1. m \in 0..Size /\ 0 \in 0..n /\ m - 0 = m /\ 0 + 1 = 1
  BY SizeAssumption
<1>2. /\ Content(b, w, n) \in Seq(Byte) /\ Len(Content(b, w, n)) = n
      /\ \A k \in 1..n : Content(b, w, n)[k] = b[Wrap(w + (k - 1))]
  BY ContentType
<1>3. /\ Content(b, w, m) \in Seq(Byte) /\ Len(Content(b, w, m)) = m
      /\ \A k \in 1..m : Content(b, w, m)[k] = b[Wrap(w + (k - 1))]
  BY <1>1, ContentType
<1>4. /\ SubSeq(Content(b, w, n), 1, m) \in Seq(Byte)
      /\ Len(SubSeq(Content(b, w, n), 1, m)) = m
      /\ \A k \in 1..m : SubSeq(Content(b, w, n), 1, m)[k] = Content(b, w, n)[k]
  <2>1. \A k \in 1..m : 0 + k = k
    OBVIOUS
  <2>. QED BY <1>1, <1>2, <2>1, BytesSlice
<1>5. \A k \in 1..m : Content(b, w, m)[k] = SubSeq(Content(b, w, n), 1, m)[k]
  BY <1>1, <1>2, <1>3, <1>4
<1>. QED BY <1>3, <1>4, <1>5, BytesEqual

(***************************************************************************)
(* Moving the front of the ring by m bytes drops m bytes of its content.   *)
(***************************************************************************)
LEMMA ContentDrop ==
  ASSUME NEW b \in [0..(Size - 1) -> Byte], NEW w \in 0..(Size - 1),
         NEW n \in 0..Size, NEW m \in 0..n
  PROVE  Content(b, Wrap(w + m), n - m) = SubSeq(Content(b, w, n), m + 1, n)
<1>1. n - m \in 0..Size /\ Wrap(w + m) \in 0..(Size - 1)
  BY WrapType, SizeAssumption
<1>2. \A k \in 1..(n - m) : Wrap(Wrap(w + m) + (k - 1)) = Wrap(w + ((m + k) - 1))
  BY SizeAssumption DEF Wrap
<1>3. /\ Content(b, w, n) \in Seq(Byte) /\ Len(Content(b, w, n)) = n
      /\ \A k \in 1..n : Content(b, w, n)[k] = b[Wrap(w + (k - 1))]
  BY ContentType
<1>4. /\ Content(b, Wrap(w + m), n - m) \in Seq(Byte)
      /\ Len(Content(b, Wrap(w + m), n - m)) = n - m
      /\ \A k \in 1..(n - m) :
           Content(b, Wrap(w + m), n - m)[k] = b[Wrap(Wrap(w + m) + (k - 1))]
  BY <1>1, ContentType
<1>5. /\ SubSeq(Content(b, w, n), m + 1, n) \in Seq(Byte)
      /\ Len(SubSeq(Content(b, w, n), m + 1, n)) = n - m
      /\ \A k \in 1..(n - m) : SubSeq(Content(b, w, n), m + 1, n)[k] = Content(b, w, n)[m + k]
  BY <1>3, BytesSlice
<1>6. \A k \in 1..(n - m) :
        Content(b, Wrap(w + m), n - m)[k] = SubSeq(Content(b, w, n), m + 1, n)[k]
  <2>1. \A k \in 1..(n - m) : m + k \in 1..n
    BY SizeAssumption
  <2>. QED BY <1>2, <1>3, <1>4, <1>5, <2>1
<1>. QED BY <1>4, <1>5, <1>6, BytesEqual
(***************************************************************************)
(* sane_read puts the data d behind the four bytes that store_reclen then  *)
(* fills with the length h; the two regions do not meet.                   *)
(***************************************************************************)
LEMMA StoreCommute ==
  ASSUME NEW b \in [0..(Size - 1) -> Byte], NEW w \in 0..(Size - 1),
         NEW h \in Seq(Byte), Len(h) = 4, NEW d \in Seq(Byte), 4 + Len(d) <= Size
  PROVE  Store(Store(b, Wrap(w + 4), d), w, h) = Store(Store(b, w, h), Wrap(w + 4), d)
<1>1. Wrap(w + 4) \in 0..(Size - 1) /\ Len(d) \in Nat
  BY WrapType, SizeAssumption
<1>2. ASSUME NEW x \in 0..(Size - 1)
      PROVE  ~(Ahead(x, w) < 4 /\ Ahead(x, Wrap(w + 4)) < Len(d))
  BY <1>1, SizeAssumption DEF Ahead, Wrap
<1>. DEFINE A == Store(Store(b, Wrap(w + 4), d), w, h)
            B == Store(Store(b, w, h), Wrap(w + 4), d)
<1>3. ASSUME NEW x \in 0..(Size - 1) PROVE A[x] = B[x]
  BY <1>2 DEF Store
<1>4. A = [x \in 0..(Size - 1) |-> A[x]] /\ B = [x \in 0..(Size - 1) |-> B[x]]
  BY DEF Store
<1>. QED
  <2>. HIDE DEF A, B
  <2>1. A = B
    BY <1>3, <1>4
  <2>. QED BY <2>1 DEF A, B

(***************************************************************************)
(* A record in the ring reads as its length followed by its data.          *)
(***************************************************************************)
LEMMA RecordContent ==
  ASSUME NEW b \in [0..(Size - 1) -> Byte], NEW w \in 0..(Size - 1),
         NEW h \in Seq(Byte), Len(h) = 4, NEW d \in Seq(Byte), 4 + Len(d) <= Size
  PROVE  Content(Store(Store(b, Wrap(w + 4), d), w, h), w, 4 + Len(d)) = h \o d
<1>. DEFINE c == Store(b, w, h)
<1>1. Wrap(w + 0) = w /\ 0 + Len(h) = 4 /\ 4 \in 0..Size /\ 0 \in 0..Size /\ Len(d) \in Nat
  BY SizeAssumption DEF Wrap
<1>2. c \in [0..(Size - 1) -> Byte]
  BY StoreType
<1>3. Content(c, w, 4) = Content(b, w, 0) \o h
  <2>1. 0 + Len(h) <= Size
    BY <1>1, SizeAssumption
  <2>2. Content(Store(b, Wrap(w + 0), h), w, 0 + Len(h)) = Content(b, w, 0) \o h
    BY <1>1, <2>1, ContentStore, Zenon
  <2>. QED BY <1>1, <2>2, Zenon
<1>4. Content(b, w, 0) = << >>
  <2>1. Content(b, w, 0) \in Seq(Byte) /\ Len(Content(b, w, 0)) = 0
    BY <1>1, ContentType
  <2>2. \A t \in Seq(Byte) : Len(t) = 0 => t = << >>
    BY EmptySeq
  <2>. QED BY <2>1, <2>2
<1>5. Content(c, w, 4) = h
  BY <1>3, <1>4, ConcatEmptySeq
<1>6. Content(Store(c, Wrap(w + 4), d), w, 4 + Len(d)) = Content(c, w, 4) \o d
  <2>. HIDE DEF c
  <2>. QED BY <1>1, <1>2, ContentStore
<1>. QED BY <1>5, <1>6, StoreCommute
(***************************************************************************)
(* An end record stored behind n bytes follows them in the stream,         *)
(* whatever m bytes come after it.                                         *)
(***************************************************************************)
LEMMA EndContent ==
  ASSUME NEW b \in [0..(Size - 1) -> Byte], NEW w \in 0..(Size - 1),
         NEW n \in 0..Size, NEW m \in Nat, n + 5 + m <= Size, NEW st \in SANE_Status
  PROVE  LET new == Content(Store(b, Wrap(w + n), EndRecord(st)), w, n + 5 + m)
         IN  /\ new \in Seq(Byte) /\ Len(new) = n + 5 + m
             /\ SubSeq(new, 1, n + 5) = Content(b, w, n) \o EndRecord(st)
<1>. DEFINE e == EndRecord(st)
            c == Store(b, Wrap(w + n), e)
<1>1. e \in Seq(Byte) /\ Len(e) = 5 /\ n + Len(e) <= Size
  BY EndRecordType, SizeAssumption
<1>2. /\ Wrap(w + n) \in 0..(Size - 1)
      /\ n + 5 + m \in 0..Size /\ n + 5 \in 0..(n + 5 + m)
  BY WrapType, SizeAssumption
<1>3. c \in [0..(Size - 1) -> Byte]
  BY <1>1, <1>2, StoreType
<1>4. Content(c, w, n + 5) = Content(b, w, n) \o e
  <2>. HIDE DEF e
  <2>1. Content(c, w, n + Len(e)) = Content(b, w, n) \o e
    BY <1>1, ContentStore
  <2>. QED BY <2>1, <1>1
<1>5. Content(c, w, n + 5) = SubSeq(Content(c, w, n + 5 + m), 1, n + 5)
  <2>. HIDE DEF c
  <2>. QED BY <1>2, <1>3, ContentTake
<1>6. Content(c, w, n + 5 + m) \in Seq(Byte) /\ Len(Content(c, w, n + 5 + m)) = n + 5 + m
  <2>. HIDE DEF c
  <2>. QED BY <1>2, <1>3, ContentType
<1>. QED BY <1>4, <1>5, <1>6

-------------------------------------------------------------------------------
(* The refinement.                                                         *)

Ended == status # GOOD /\ ~status_dirty

(***************************************************************************)
(* While the loop runs, what is pending is a sequence of bytes as long as  *)
(* the counters say.                                                       *)
(***************************************************************************)
LEMMA PendingType ==
  ASSUME IInv, Running
  PROVE  /\ Wrap(writer + nsent) \in 0..(Size - 1)
         /\ bytes_in_buf - nsent \in 0..Size
         /\ Pending \in Seq(Byte)
         /\ Len(Pending) = bytes_in_buf - nsent
<1>1. Wrap(writer + nsent) \in 0..(Size - 1) /\ bytes_in_buf - nsent \in 0..Size
  BY WrapType, SizeAssumption DEF IInv, TypeOK, RegionsInBuf, Running
<1>. QED BY <1>1, ContentType DEF Pending, IInv, TypeOK

(***************************************************************************)
(* The middle of an iteration is an End step of the stream when the status *)
(* record goes in, and no step otherwise.  p is the stretch of the ring    *)
(* that is still to be written.                                            *)
(***************************************************************************)
LEMMA StoreStatusRefines ==
  ASSUME IInv, NEW n \in 0..Size, NEW w \in 0..(Size - 1),
         StoreStatus(buf, reader, n, status, status_dirty),
         writer' = w, nsent' = 0,
         status_dirty => reader = Wrap(w + n) /\ status = EOF
  PROVE  \/ /\ Pending' = Content(buf, w, n)
            /\ Ended' = Ended
         \/ /\ ~Ended /\ Ended' /\ status_dirty
            /\ Len(Pending') = n + 5
            /\ Pending' = Content(buf, w, n) \o EndRecord(EOF)
<1>0. /\ buf \in [0..(Size - 1) -> Byte] /\ status \in SANE_Status
      /\ status_dirty \in BOOLEAN
  BY DEF IInv, TypeOK
<1>1. Wrap(writer' + nsent') = w
  BY SizeAssumption DEF Wrap
<1>2. CASE status_dirty /\ Size - n >= 5
  <2>1. /\ buf' = Store(buf, Wrap(w + n), EndRecord(EOF))
        /\ bytes_in_buf' = n + 5
        /\ status' = EOF /\ status_dirty' = FALSE
    BY <1>2 DEF StoreStatus, HasRoom
  <2>2. EOF \in SANE_Status /\ 0 \in Nat /\ n + 5 + 0 <= Size /\ n + 5 + 0 = n + 5
    BY <1>2, SizeAssumption DEF EOF, SANE_Status
  <2>3. Pending' = Content(buf', w, n + 5)
    BY <2>1, <1>1 DEF Pending
  <2>4. /\ Content(buf', w, n + 5) \in Seq(Byte)
        /\ Len(Content(buf', w, n + 5)) = n + 5
        /\ SubSeq(Content(buf', w, n + 5), 1, n + 5) = Content(buf, w, n) \o EndRecord(EOF)
    <3>. DEFINE c == Store(buf, Wrap(w + n), EndRecord(EOF))
    <3>1. /\ Content(c, w, n + 5 + 0) \in Seq(Byte)
          /\ Len(Content(c, w, n + 5 + 0)) = n + 5 + 0
          /\ SubSeq(Content(c, w, n + 5 + 0), 1, n + 5) = Content(buf, w, n) \o EndRecord(EOF)
      BY <1>0, <2>2, EndContent, Zenon
    <3>. QED BY <2>1, <2>2, <3>1, Zenon
  <2>5. Pending' = Content(buf, w, n) \o EndRecord(EOF)
    BY <2>3, <2>4, SubSeqFull
  <2>. QED BY <1>2, <2>1, <2>3, <2>4, <2>5 DEF Ended, EOF, GOOD
<1>3. CASE ~(status_dirty /\ Size - n >= 5)
  <2>1. /\ buf' = buf /\ bytes_in_buf' = n
        /\ status' = status /\ status_dirty' = status_dirty
    BY <1>3 DEF StoreStatus, HasRoom
  <2>2. Pending' = Content(buf, w, n)
    BY <2>1, <1>1 DEF Pending
  <2>. QED BY <2>1, <2>2 DEF Ended
<1>. QED BY <1>2, <1>3
(***************************************************************************)
(* RecordStream uses the same record format.                               *)
(***************************************************************************)
LEMMA SameFormat ==
  /\ Stream!EOF = EOF
  /\ \A st : Stream!EndRecord(st) = EndRecord(st)
  /\ \A n : Stream!reclen(n) = reclen(n)
BY DEF Stream!EOF, EOF, Stream!EndRecord, EndRecord, Stream!reclen, reclen

(***************************************************************************)
(* Appending the end record to what is pending is an End step.             *)
(***************************************************************************)
LEMMA EndStep ==
  ASSUME Pending \in Seq(Byte), pos = Len(Image), ~Ended, Ended',
         Pending' = Pending \o EndRecord(EOF), Len(Pending') = Len(Pending) + 5,
         UNCHANGED << pos, sock, peer >>
  PROVE  [Stream!Next]_(Stream!svars)
<1>1. EndRecord(EOF) \in Seq(Byte)
  BY EndRecordType DEF EOF, SANE_Status
<1>2. Pending' \in Seq(Byte) /\ Len(Pending) \in Nat
  BY <1>1, BytesConcat
<1>3. SubSeq(Pending', 1, Len(Pending) + 5) = Pending \o EndRecord(EOF)
  BY <1>2, SubSeqFull
<1>4. Stream!End
  <2>1. EOF \in ErrStatus \cup {EOF} /\ Len(Pending') >= Len(Pending) + 5
    BY <1>2
  <2>2. (status # GOOD /\ ~status_dirty)' = TRUE /\ ~(status # GOOD /\ ~status_dirty)
    BY DEF Ended
  <2>. QED BY <1>3, <2>1, <2>2, SameFormat, Zenon DEF Stream!End
<1>. QED BY <1>4 DEF Stream!Next

(***************************************************************************)
(* An empty ring is an empty stream.                                       *)
(***************************************************************************)
LEMMA StreamInit == Init => Stream!Init
<1>. SUFFICES ASSUME Init PROVE Stream!Init
  OBVIOUS
<1>1. Pending = << >>
  <2>1. /\ IInv /\ Running
        /\ bytes_in_buf - nsent = 0
    BY InitIInv DEF Init, Running
  <2>2. Pending \in Seq(Byte) /\ Len(Pending) = 0
    BY <2>1, PendingType
  <2>3. \A t \in Seq(Byte) : Len(t) = 0 => t = << >>
    BY EmptySeq
  <2>. QED BY <2>2, <2>3
<1>. QED BY <1>1 DEF Init, Stream!Init

(***************************************************************************)
(* Every step of do_scan is a step of RecordStream or leaves its variables *)
(* alone.                                                                  *)
(***************************************************************************)
LEMMA StreamStep == IInv /\ [Next]_vars => [Stream!Next]_(Stream!svars)
<1>. SUFFICES ASSUME IInv, [Next]_vars PROVE [Stream!Next]_(Stream!svars)
  OBVIOUS
<1>. USE DEF IInv
<1>c. /\ buf \in [0..(Size - 1) -> Byte] /\ reader \in 0..(Size - 1)
      /\ writer \in 0..(Size - 1)
      /\ bytes_in_buf \in 0..Size /\ status \in SANE_Status
      /\ status_dirty \in BOOLEAN
  BY DEF TypeOK
<1>s. ASSUME UNCHANGED << Pending, Ended, pos, sock, peer >>
      PROVE  [Stream!Next]_(Stream!svars)
  BY <1>s DEF Stream!svars, Ended
<1>p. ASSUME UNCHANGED << buf, writer, bytes_in_buf, nsent >>
      PROVE  Pending' = Pending
  BY <1>p DEF Pending
<1>1. CASE SelectBadFd
  <2>1. Ended' = Ended
    <3>1. status' # GOOD /\ status_dirty' = (status_dirty \/ status = GOOD)
      BY <1>1 DEF SelectBadFd, EOF, GOOD, EofIsNews
    <3>. QED BY <3>1, Zenon DEF Ended
  <2>2. UNCHANGED << buf, writer, bytes_in_buf, nsent, pos, sock, peer >>
    BY <1>1 DEF SelectBadFd, ring, io, EofIsNews
  <2>. QED BY <2>1, <2>2, <1>p, <1>s
<1>2. CASE SelectError
  <2>1. UNCHANGED << buf, writer, bytes_in_buf, nsent, pos, sock, peer, status_dirty >>
        /\ "select" \in Faults /\ status' # GOOD
    BY <1>2 DEF SelectError, ring, io, IO_ERROR, GOOD
  <2>2. CASE status_dirty
    <3>1. Ended' = Ended
      BY <2>1, <2>2 DEF Ended
    <3>. QED BY <2>1, <3>1, <1>p, <1>s
  <2>3. CASE ~status_dirty
    BY <2>1, <2>3, <1>p DEF Stream!Next, Stream!Abort
  <2>. QED BY <2>2, <2>3
<1>3. CASE WriteBegin
  <2>1. nsent' = nsent
    BY <1>3 DEF WriteBegin, Selected, RegionsInBuf, Chunk
  <2>2. UNCHANGED << buf, writer, bytes_in_buf, pos, sock, peer, status, status_dirty >>
    BY <1>3 DEF WriteBegin, ring, select, Chunk
  <2>3. Ended' = Ended
    BY <2>2 DEF Ended
  <2>. QED BY <2>1, <2>2, <2>3, <1>p, <1>s
<1>4. CASE WriteReturn
  <2>. DEFINE w == IF writer + nbytes = Size THEN 0 ELSE writer + nbytes
              n == bytes_in_buf - nbytes
              v == Wrap(writer + nsent)
              m == bytes_in_buf - nsent
              k == nbytes - nsent
  <2>1. /\ pc = "write"
        /\ nsent = nbytes \/ peer = "closed"
        /\ writer' = w /\ nsent' = 0
        /\ StoreStatus(buf, reader, n, status, status_dirty)
        /\ UNCHANGED << pos, sock, peer >>
    BY <1>4 DEF WriteReturn, WriterNext
  <2>2. /\ n \in 0..Size /\ w \in 0..(Size - 1) /\ k \in 0..m
        /\ w = Wrap(v + k) /\ n = m - k
        /\ Wrap(w + n) = Wrap(writer + bytes_in_buf)
    BY <2>1, SizeAssumption DEF TypeOK, RegionsInBuf, Wrap
  <2>3. v \in 0..(Size - 1) /\ m \in 0..Size /\ Pending \in Seq(Byte) /\ Len(Pending) = m
    BY <2>1, PendingType DEF Running
  <2>4. status_dirty => reader = Wrap(w + n) /\ status = EOF
    BY <2>1, <2>2 DEF RingAligned, DirtyMeansEof, Running
  <2>5. Pending = Content(buf, v, m)
    BY DEF Pending
  <2>. HIDE DEF w, n, v, m, k
  <2>6. Content(buf, w, n) = SubSeq(Pending, k + 1, m)
    <3>1. Content(buf, Wrap(v + k), m - k) = SubSeq(Content(buf, v, m), k + 1, m)
      BY <1>c, <2>2, <2>3, ContentDrop, Zenon
    <3>. QED BY <2>2, <2>5, <3>1, Zenon
  <2>7. Len(SubSeq(Pending, k + 1, m)) = m - k /\ m - (m - k) = k /\ m - k <= m
    <3>1. m \in Nat /\ k \in Nat /\ k <= m /\ m \in k..m
      BY <2>2, <2>3
    <3>2. k \in 0..Len(Pending) /\ m \in k..Len(Pending)
      BY <2>2, <2>3, <3>1
    <3>3. Len(SubSeq(Pending, k + 1, m)) = m - k
      BY <2>3, <3>2, BytesSlice
    <3>. QED BY <3>1, <3>3
  <2>8. \/ /\ Pending' = Content(buf, w, n)
           /\ Ended' = Ended
        \/ /\ ~Ended /\ Ended' /\ status_dirty
           /\ Len(Pending') = n + 5
           /\ Pending' = Content(buf, w, n) \o EndRecord(EOF)
    BY <2>1, <2>2, <2>4, StoreStatusRefines, Zenon
  <2>9. CASE peer = "closed"
    <3>1. CASE Pending' = Content(buf, w, n) /\ Ended' = Ended
      <4>1. Stream!IsSuffix(Pending', Pending)
        BY <3>1, <2>3, <2>6, <2>7 DEF Stream!IsSuffix
      <4>. QED BY <2>1, <2>9, <3>1, <4>1 DEF Stream!Next, Stream!Lose, Ended
    <3>2. CASE ~Ended /\ Ended'
      BY <2>1, <2>9, <3>2 DEF Stream!Next, Stream!Lose, Ended
    <3>. QED BY <2>8, <3>1, <3>2
  <2>10. CASE nsent = nbytes
    <3>1. Content(buf, w, n) = Pending
      <4>1. k = 0 /\ k + 1 = 1
        BY <2>10 DEF k, TypeOK
      <4>2. SubSeq(Pending, 1, m) = Pending
        BY <2>3, SubSeqFull
      <4>. QED BY <2>6, <4>1, <4>2, Zenon
    <3>2. CASE Pending' = Content(buf, w, n) /\ Ended' = Ended
      BY <2>1, <3>1, <3>2, <1>s
    <3>3. CASE /\ ~Ended /\ Ended' /\ status_dirty
               /\ Len(Pending') = n + 5
               /\ Pending' = Content(buf, w, n) \o EndRecord(EOF)
      <4>1. n = m
        BY <2>2, <2>3, <2>10 DEF k, TypeOK
      <4>2. Pending' = Pending \o EndRecord(EOF) /\ Len(Pending') = Len(Pending) + 5
        BY <2>3, <3>1, <3>3, <4>1
      <4>3. pos = Len(Image)
        BY <2>1, <3>3 DEF DirtyMeansEof, Running
      <4>. QED BY <2>1, <3>3, <4>2, <4>3, <2>3, EndStep
    <3>. QED BY <2>8, <3>2, <3>3
  <2>. QED BY <2>1, <2>9, <2>10
<1>5. CASE WriteFail
  <2>1. UNCHANGED << buf, writer, bytes_in_buf, nsent, pos, sock, peer, status_dirty >>
        /\ peer = "closed" /\ status' # GOOD
    BY <1>5 DEF WriteFail, ring, io, CANCELLED, GOOD
  <2>2. CASE status_dirty
    <3>1. Ended' = Ended
      BY <2>1, <2>2 DEF Ended
    <3>. QED BY <2>1, <3>1, <1>p, <1>s
  <2>3. CASE ~status_dirty
    BY <2>1, <2>3, <1>p DEF Stream!Next, Stream!Abort
  <2>. QED BY <2>2, <2>3
<1>6. CASE WriteSigpipe
  <2>1. UNCHANGED << buf, writer, bytes_in_buf, nsent, pos, sock, peer, status, status_dirty >>
    BY <1>6 DEF WriteSigpipe, ring, io, select
  <2>. QED BY <2>1, <1>p, <1>s DEF Ended
<1>7. ASSUME NEW k \in 1..Size, WriteSome(k) PROVE [Stream!Next]_(Stream!svars)
  <2>. DEFINE w == Wrap(writer + nsent)
              n == bytes_in_buf - nsent
  <2>1. /\ pc = "write" /\ peer = "open" /\ k \in 0..n
        /\ sock' = sock \o Content(buf, w, k)
        /\ nsent' = nsent + k
        /\ UNCHANGED << buf, writer, bytes_in_buf, pos, peer, status, status_dirty >>
    BY <1>7, SizeAssumption DEF WriteSome, ring, select, TypeOK, RegionsInBuf
  <2>2. w \in 0..(Size - 1) /\ n \in 0..Size /\ Pending \in Seq(Byte) /\ Len(Pending) = n
    BY <2>1, PendingType DEF Running
  <2>3. Pending' = Content(buf, Wrap(writer + (nsent + k)), bytes_in_buf - (nsent + k))
    BY <2>1 DEF Pending
  <2>4. Wrap(writer + (nsent + k)) = Wrap(w + k) /\ bytes_in_buf - (nsent + k) = n - k
    BY <2>1, SizeAssumption DEF Wrap, TypeOK, RegionsInBuf
  <2>5. Pending = Content(buf, w, n)
    BY DEF Pending
  <2>6. Pending' = SubSeq(Pending, k + 1, n)
    <3>. HIDE DEF w, n
    <3>1. Content(buf, Wrap(w + k), n - k) = SubSeq(Content(buf, w, n), k + 1, n)
      BY <1>c, <2>1, <2>2, ContentDrop, Zenon
    <3>. QED BY <2>3, <2>4, <2>5, <3>1, Zenon
  <2>7. Content(buf, w, k) = SubSeq(Pending, 1, k)
    <3>. HIDE DEF w, n
    <3>1. Content(buf, w, k) = SubSeq(Content(buf, w, n), 1, k)
      BY <1>c, <2>1, <2>2, ContentTake, Zenon
    <3>. QED BY <2>5, <3>1, Zenon
  <2>8. Len(Pending') = n - k
    <3>. HIDE DEF w, n
    <3>1. n \in k..n
      BY <2>1, <2>2
    <3>. QED BY <2>1, <2>2, <2>6, <3>1, BytesSlice
  <2>9. n - (n - k) = k /\ n - k <= n
    BY <2>1, <2>2
  <2>. HIDE DEF w, n
  <2>10. Stream!IsSuffix(Pending', Pending)
    BY <2>2, <2>6, <2>8, <2>9 DEF Stream!IsSuffix
  <2>11. sock' = sock \o SubSeq(Pending, 1, Len(Pending) - Len(Pending'))
    BY <2>1, <2>2, <2>7, <2>8, <2>9
  <2>. QED BY <2>1, <2>10, <2>11 DEF Stream!Next, Stream!Send
<1>8. ASSUME NEW n \in 0..Size, ReadGood(n) PROVE [Stream!Next]_(Stream!svars)
  <2>. DEFINE d == SubSeq(Image, pos + 1, pos + n)
              h == reclen(n)
  <2>1. /\ pc = "select" /\ bytes_in_buf = 0 /\ status = GOOD
        /\ n <= maxlen(Wrap(reader + 4)) /\ n <= Len(Image) - pos
        /\ pos' = pos + n
        /\ UNCHANGED << writer, nsent, sock, peer >>
    BY <1>8 DEF ReadGood, Reading, Selected, io, Counted
  <2>2. ~status_dirty /\ nsent = 0
    BY <2>1 DEF DirtyMeansEof, RegionsInBuf, Running, EOF, GOOD
  <2>3. /\ buf' = Store(Store(buf, Wrap(reader + 4), d), reader, h)
        /\ bytes_in_buf' = n + 4 /\ status' = GOOD /\ status_dirty' = FALSE
    BY <1>8, <2>2, <1>c DEF ReadGood, StoreStatus, HasRoom, Counted
  <2>4. reader = writer
    BY <2>1, SizeAssumption DEF RingAligned, Running, TypeOK, Wrap
  <2>5. d \in Seq(Byte) /\ Len(d) = n
    <3>1. /\ Image \in Seq(Byte) /\ Len(Image) \in Nat /\ pos \in 0..Len(Image)
          /\ pos + n \in pos..Len(Image) /\ (pos + n) - pos = n
      BY <2>1, ImageAssumption DEF TypeOK
    <3>. QED BY <3>1, BytesSlice
  <2>6. h \in Seq(Byte) /\ Len(h) = 4
    BY ReclenType
  <2>7. 4 + Len(d) <= Size /\ 4 + Len(d) = n + 4
    <3>1. maxlen(Wrap(reader + 4)) \in 1..(Size - 4)
      BY <1>c, MaxlenRange
    <3>. QED BY <2>1, <2>5, <3>1, SizeAssumption
  <2>. HIDE DEF d, h
  <2>8. Content(Store(Store(buf, Wrap(writer + 4), d), writer, h), writer, 4 + Len(d)) = h \o d
    BY <1>c, <2>5, <2>6, <2>7, RecordContent, Zenon
  <2>9. Pending' = h \o d
    <3>1. Wrap(writer + 0) = writer /\ (n + 4) - 0 = n + 4
      BY <1>c, SizeAssumption DEF Wrap
    <3>2. Pending' = Content(buf', Wrap(writer + 0), (n + 4) - 0)
      BY <2>1, <2>2, <2>3 DEF Pending
    <3>. QED BY <2>3, <2>4, <2>7, <2>8, <3>1, <3>2, Zenon
  <2>10. Pending = << >>
    <3>1. Pending \in Seq(Byte) /\ Len(Pending) = 0
      BY <2>1, <2>2, PendingType DEF Running
    <3>2. \A t \in Seq(Byte) : Len(t) = 0 => t = << >>
      BY EmptySeq
    <3>. QED BY <3>1, <3>2
  <2>11. n \in 0..(Len(Image) - pos)
    BY <2>1, ImageAssumption DEF TypeOK
  <2>12. Pending' = reclen(n) \o SubSeq(Image, pos + 1, pos + n)
    BY <2>9 DEF d, h
  <2>13. ~(status # GOOD /\ ~status_dirty)
         /\ (status # GOOD /\ ~status_dirty)' = (status # GOOD /\ ~status_dirty)
    BY <2>1, <2>3
  <2>14. Stream!Put
    BY <2>1, <2>10, <2>11, <2>12, <2>13, SameFormat, Zenon DEF Stream!Put
  <2>. QED BY <2>14 DEF Stream!Next
<1>9. ASSUME NEW st \in SANE_Status, NEW len \in ErrLen, ReadEnd(st, len)
      PROVE  [Stream!Next]_(Stream!svars)
  <2>1. /\ pc = "select" /\ bytes_in_buf = 0 /\ status = GOOD
        /\ st \in ErrStatus \/ (st = EOF /\ pos = Len(Image))
        /\ StoreStatus(buf, reader, len + 4, st, TRUE)
        /\ UNCHANGED << writer, nsent, pos, sock, peer >>
    BY <1>9 DEF ReadEnd, Reading, Selected, io, Counted
  <2>2. nsent = 0 /\ st # GOOD /\ (st = EOF => pos = Len(Image)) /\ st \in ErrStatus \cup {EOF}
    BY <2>1, ErrStatusAssumption DEF RegionsInBuf, EOF, GOOD
  <2>3. len \in 0..(Size - 9) /\ Size - (len + 4) >= 5
    BY ErrLenAssumption, SizeAssumption
  <2>4. /\ buf' = Store(buf, reader, EndRecord(st))
        /\ bytes_in_buf' = len + 4 + 5
        /\ status' = st /\ status_dirty' = FALSE
    BY <2>1, <2>3 DEF StoreStatus, HasRoom
  <2>5. /\ reader = Wrap(writer + 0) /\ Wrap(writer + 0) = writer
        /\ 0 \in 0..Size /\ len + 4 \in Nat /\ 0 + 5 + (len + 4) <= Size
        /\ (len + 4 + 5) - 0 = 0 + 5 + (len + 4) /\ 0 + 5 = 5
    BY <1>c, <2>1, <2>3, SizeAssumption DEF RingAligned, Running, Wrap
  <2>. DEFINE c == Store(buf, Wrap(writer + 0), EndRecord(st))
  <2>6. /\ Len(Content(c, writer, 0 + 5 + (len + 4))) = 0 + 5 + (len + 4)
        /\ SubSeq(Content(c, writer, 0 + 5 + (len + 4)), 1, 0 + 5)
             = Content(buf, writer, 0) \o EndRecord(st)
    BY <1>c, <2>5, EndContent, ZenonT(60)
  <2>7. Pending' = Content(c, writer, 0 + 5 + (len + 4))
    <3>1. Pending' = Content(buf', Wrap(writer + 0), (len + 4 + 5) - 0)
      BY <2>1, <2>2, <2>4 DEF Pending
    <3>. QED BY <2>4, <2>5, <3>1, Zenon
  <2>8. Pending = Content(buf, writer, 0) /\ Len(Pending) = 0
    <3>1. Len(Pending) = 0
      BY <2>1, <2>2, PendingType DEF Running
    <3>2. Pending = Content(buf, Wrap(writer + 0), 0)
      BY <2>1, <2>2 DEF Pending
    <3>. QED BY <2>5, <3>1, <3>2
  <2>. HIDE DEF c
  <2>9. Len(Pending') >= 5 /\ SubSeq(Pending', 1, 5) = Pending \o EndRecord(st)
    <3>1. Len(Pending') = 0 + 5 + (len + 4)
      BY <2>6, <2>7, Zenon
    <3>2. SubSeq(Pending', 1, 5) = Pending \o EndRecord(st)
      BY <2>5, <2>6, <2>7, <2>8, Zenon
    <3>3. 0 + 5 + (len + 4) >= 5
      BY <2>3
    <3>. QED BY <3>1, <3>2, <3>3, Zenon
  <2>10. Len(Pending') >= Len(Pending) + 5
         /\ SubSeq(Pending', 1, Len(Pending) + 5) = Pending \o EndRecord(st)
    <3>1. Len(Pending) + 5 = 5
      BY <2>8
    <3>. QED BY <2>9, <3>1, Zenon
  <2>11. ~(status # GOOD /\ ~status_dirty) /\ (status # GOOD /\ ~status_dirty)' = TRUE
    BY <2>1, <2>2, <2>4
  <2>12. Stream!End
    BY <2>1, <2>2, <2>10, <2>11, SameFormat, Zenon DEF Stream!End
  <2>. QED BY <2>12 DEF Stream!Next
<1>10. CASE Idle
  <2>1. /\ pc = "select" /\ writer' = writer /\ nsent' = nsent
        /\ StoreStatus(buf, reader, bytes_in_buf, status, status_dirty)
        /\ UNCHANGED << pos, sock, peer >>
    BY <1>10 DEF Idle, Selected, io
  <2>2. nsent = 0 /\ nsent' = 0
    BY <2>1 DEF RegionsInBuf
  <2>3. status_dirty => reader = Wrap(writer + bytes_in_buf) /\ status = EOF
    BY <2>1 DEF RingAligned, DirtyMeansEof, Running
  <2>4. \/ /\ Pending' = Content(buf, writer, bytes_in_buf)
           /\ Ended' = Ended
        \/ /\ ~Ended /\ Ended' /\ status_dirty
           /\ Len(Pending') = bytes_in_buf + 5
           /\ Pending' = Content(buf, writer, bytes_in_buf) \o EndRecord(EOF)
    BY <1>c, <2>1, <2>2, <2>3, StoreStatusRefines, Zenon
  <2>5. /\ Pending = Content(buf, writer, bytes_in_buf)
        /\ Pending \in Seq(Byte) /\ Len(Pending) = bytes_in_buf
    <3>1. Wrap(writer + 0) = writer /\ bytes_in_buf - 0 = bytes_in_buf
      BY <1>c, SizeAssumption DEF Wrap
    <3>2. Pending = Content(buf, Wrap(writer + 0), bytes_in_buf - 0)
      BY <2>2 DEF Pending
    <3>3. Pending \in Seq(Byte) /\ Len(Pending) = bytes_in_buf - 0
      BY <2>1, <2>2, PendingType DEF Running
    <3>. QED BY <3>1, <3>2, <3>3
  <2>6. CASE Pending' = Content(buf, writer, bytes_in_buf) /\ Ended' = Ended
    BY <2>1, <2>5, <2>6, <1>s
  <2>7. CASE /\ ~Ended /\ Ended' /\ status_dirty
             /\ Len(Pending') = bytes_in_buf + 5
             /\ Pending' = Content(buf, writer, bytes_in_buf) \o EndRecord(EOF)
    <3>1. pos = Len(Image)
      BY <2>1, <2>7 DEF DirtyMeansEof, Running
    <3>. QED BY <2>1, <2>5, <2>7, <3>1, EndStep
  <2>. QED BY <2>4, <2>6, <2>7
<1>11. CASE ProcessRequest
  <2>1. UNCHANGED << buf, writer, bytes_in_buf, nsent, pos, sock, peer, status, status_dirty >>
    BY <1>11 DEF ProcessRequest, ring, io, select
  <2>. QED BY <2>1, <1>p, <1>s DEF Ended
<1>12. CASE Client
  <2>1. ASSUME NEW n \in 1..SockCap, Receive(n) PROVE [Stream!Next]_(Stream!svars)
    <3>1. /\ n \in 0..Len(sock) /\ Len(sock) \in n..Len(sock)
          /\ sock \in Seq(Byte) /\ Len(sock) \in Nat
          /\ sock' = SubSeq(sock, n + 1, Len(sock))
      BY <2>1, SockAssumption DEF Receive, TypeOK
    <3>2. Len(sock') = Len(sock) - n
      BY <3>1, BytesSlice
    <3>3. Len(sock') <= Len(sock) /\ Len(sock) - Len(sock') = n
      BY <3>1, <3>2
    <3>4. Stream!IsSuffix(sock', sock)
      BY <3>1, <3>3 DEF Stream!IsSuffix
    <3>5. UNCHANGED << buf, writer, bytes_in_buf, nsent, pos, peer, status, status_dirty >>
      BY <2>1 DEF Receive, ring, io, select
    <3>. QED BY <3>4, <3>5, <1>p DEF Stream!Next, Stream!Receive
  <2>2. ASSUME PeerClose PROVE [Stream!Next]_(Stream!svars)
    <3>1. UNCHANGED << buf, writer, bytes_in_buf, nsent, pos, status, status_dirty >>
          /\ "peer" \in Faults /\ peer' = "closed" /\ sock' = << >>
      BY <2>2 DEF PeerClose, ring, io, select
    <3>. QED BY <3>1, <1>p DEF Stream!Next, Stream!PeerClose
  <2>3. ASSUME NEW r \in {"cancel", "other"}, Request(r) PROVE [Stream!Next]_(Stream!svars)
    <3>1. UNCHANGED << buf, writer, bytes_in_buf, nsent, pos, sock, peer, status, status_dirty >>
      BY <2>3 DEF Request, ring, io, select
    <3>. QED BY <3>1, <1>p, <1>s DEF Ended
  <2>. QED BY <1>12, <2>1, <2>2, <2>3 DEF Client
<1>13. CASE UNCHANGED vars
  <2>1. UNCHANGED << buf, writer, bytes_in_buf, nsent, pos, sock, peer, status, status_dirty >>
    BY <1>13 DEF vars, ring, io, select
  <2>. QED BY <2>1, <1>p, <1>s DEF Ended
<1>. QED
  BY <1>1, <1>2, <1>3, <1>4, <1>5, <1>6, <1>7, <1>8, <1>9, <1>10, <1>11, <1>12, <1>13
  DEF Next, Server
(***************************************************************************)
(* do_scan implements RecordStream: for every ring size, every image and   *)
(* every way the connection cuts the bytes, the bytes on the data          *)
(* connection are records with the image's bytes in order and then one end *)
(* record with the backend's status.                                       *)
(***************************************************************************)
THEOREM ImplementsStream == Spec => StreamSpec
<1>1. Init => Stream!Init
  BY StreamInit
<1>2. IInv /\ [Next]_vars => [Stream!Next]_(Stream!svars)
  BY StreamStep
<1>. QED BY <1>1, <1>2, IInvHolds, PTL DEF Spec, StreamSpec, Stream!Spec
===============================================================================
