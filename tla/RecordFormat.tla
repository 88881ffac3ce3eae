----------------------------- MODULE RecordFormat -----------------------------
(***************************************************************************)
(* The format of the image data on the data connection between saned and   *)
(* the net backend (frontend/saned.c store_reclen and do_scan,             *)
(* backend/net.c sane_read): a sequence of records, each one a four byte   *)
(* big-endian length followed by that many data bytes, closed by the       *)
(* length 0xffffffff and one status byte.  Status codes are the values of  *)
(* SANE_Status in include/sane/sane.h.                                     *)
(***************************************************************************)
EXTENDS Integers, Sequences

Byte == 0..255

GOOD          == 0
UNSUPPORTED   == 1
CANCELLED     == 2
DEVICE_BUSY   == 3
INVAL         == 4
EOF           == 5
JAMMED        == 6
NO_DOCS       == 7
COVER_OPEN    == 8
IO_ERROR      == 9
NO_MEM        == 10
ACCESS_DENIED == 11

SANE_Status == 0..11

\* Mutant: the least significant byte first.
reclenReversed(n) == << n % 256,
                        (n \div 256) % 256,
                        (n \div 65536) % 256,
                        (n \div 16777216) % 256 >>

(***************************************************************************)
(* The four bytes store_reclen writes for a record of n data bytes.        *)
(***************************************************************************)
reclen(n) == << (n \div 16777216) % 256,
                (n \div 65536) % 256,
                (n \div 256) % 256,
                n % 256 >>

(***************************************************************************)
(* The length 0xffffffff, kept as bytes: it is larger than every integer   *)
(* TLC can hold.  EndRecord(st) is what do_scan appends for status st.     *)
(***************************************************************************)
EndMark == << 255, 255, 255, 255 >>
EndRecord(st) == << 255, 255, 255, 255, st >>

(***************************************************************************)
(* The length sane_read computes from reclen_buf.                          *)
(***************************************************************************)
reclenValue(b) == 16777216 * b[1] + 65536 * b[2] + 256 * b[3] + b[4]
===============================================================================
