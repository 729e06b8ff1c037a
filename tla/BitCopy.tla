------------------------------- MODULE BitCopy -------------------------------
(***************************************************************************)
(* canardDSDLCopyBits (bytes/canard_dsdl.c), through which every signal of *)
(* a message is written and read.  A buffer is the function of its bits.   *)
(* The bytes are copied whole when both offsets begin a byte, and piece by *)
(* piece otherwise, each piece within one byte of the source and one of    *)
(* the destination.                                                        *)
(***************************************************************************)
EXTENDS Integers

VARIABLES
  copy,  \* the buffers, and how far the loop has come
  call   \* the arguments of the call; before is the destination at the call

copyVars == <<copy, call>>

Buffers(n) == [0 .. n - 1 -> {0, 1}]

chooseMin(a, b) == IF a < b THEN a ELSE b
Larger(a, b) == IF a > b THEN a ELSE b

Begin(length_bit, src_offset_bit, dst_offset_bit, src, dst) ==
  /\ copy' = [src |-> src, dst |-> dst, src_off |-> src_offset_bit, dst_off |-> dst_offset_bit]
  /\ call' = [length |-> length_bit, src_offset |-> src_offset_bit,
              dst_offset |-> dst_offset_bit, before |-> dst]

last_bit == call.src_offset + call.length
Copied == copy.src_off = last_bit
Aligned == call.src_offset % 8 = 0 /\ call.dst_offset % 8 = 0

\* memcpy of the whole bytes, and of the low bits of the one after them.
CopyBytes ==
  /\ ~Copied /\ Aligned
  /\ LET first == call.dst_offset \div 8
         length_bytes == call.length \div 8
         length_mod == call.length % 8
         from(j) == 8 * (call.src_offset \div 8 + j \div 8 - first) + (j % 8)
     IN  copy' = [copy EXCEPT
           !.src_off = last_bit,
           !.dst_off = call.dst_offset + call.length,
           !.dst = [j \in DOMAIN copy.dst |->
                      IF \/ j \div 8 >= first /\ j \div 8 < first + length_bytes
                         \/ j \div 8 = first + length_bytes /\ j % 8 < length_mod
                      THEN copy.src[from(j)] ELSE copy.dst[j]]]
  /\ UNCHANGED call

\* Mutant: the piece may reach beyond the byte of the source.
size_in_dst == chooseMin(8 - (copy.dst_off % 8), last_bit - copy.src_off)

\* The bits of the next piece.
size == chooseMin(8 - Larger(copy.src_off % 8, copy.dst_off % 8), last_bit - copy.src_off)

\* The byte of the source, moved so that its bit src_mod comes to dst_mod; what
\* is moved out of the byte is lost, what is moved in is 0.
in(k) ==
  LET from == k - (copy.dst_off % 8) + (copy.src_off % 8)
  IN  IF k >= copy.dst_off % 8 /\ from < 8
      THEN copy.src[8 * (copy.src_off \div 8) + from] ELSE 0

CopyPiece ==
  /\ ~Copied /\ ~Aligned
  /\ LET dst_mod == copy.dst_off % 8
         mask(k) == k >= dst_mod /\ k < dst_mod + size
     IN  copy' = [copy EXCEPT
           !.src_off = @ + size,
           !.dst_off = @ + size,
           !.dst = [j \in DOMAIN copy.dst |->
                      IF j \div 8 = copy.dst_off \div 8 /\ mask(j % 8)
                      THEN in(j % 8) ELSE copy.dst[j]]]
  /\ UNCHANGED call

CopyNext == CopyBytes \/ CopyPiece

\* Any call whose bits lie within its buffers.
CopyInit ==
  \E m, n, length, src_offset, dst_offset \in Nat :
    /\ src_offset + length <= m /\ dst_offset + length <= n
    /\ \E src \in Buffers(m), dst \in Buffers(n) :
         /\ copy = [src |-> src, dst |-> dst, src_off |-> src_offset, dst_off |-> dst_offset]
         /\ call = [length |-> length, src_offset |-> src_offset,
                    dst_offset |-> dst_offset, before |-> dst]

CopySpec == CopyInit /\ [][CopyNext]_copyVars

-----------------------------------------------------------------------------
\* The buffer that a call is to leave: length bits of the source in their
\* place, and the others as they were.
Wanted ==
  [j \in DOMAIN call.before |->
     IF j >= call.dst_offset /\ j < call.dst_offset + call.length
     THEN copy.src[call.src_offset + j - call.dst_offset] ELSE call.before[j]]

\* However the offsets lie in their bytes, the pieces put together are the
\* bits that were asked for: none is left out, moved or spoiled
\* (canard_dsdl.c, canardDSDLCopyBits).
BitsCopied == Copied => copy.dst = Wanted
=============================================================================
