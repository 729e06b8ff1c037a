------------------------------ MODULE MsgCodec ------------------------------
(***************************************************************************)
(* A message of the CAN database (msg_signals/msgdata.cpp): what is typed  *)
(* for its signals is packed and sent, and a page that receives such a     *)
(* message unpacks it and shows the numbers.  canardDSDLSetUxx, GetU32 and *)
(* the like (bytes/canard_dsdl.c) are calls of BitCopy.  A float is        *)
(* opaque: the bits that it is stored as.                                  *)
(***************************************************************************)
EXTENDS BitCopy, Sequences, FiniteSets

CONSTANTS
  Layouts,   \* the messages of the database, each a sequence of signals
  Typed,     \* what is typed for a signal, by its kind
  WIDTH32,   \* bits of an int and of a float (32)
  BuffBits   \* bits of encode_buff

WIDTH64 == 2 * WIDTH32

Extent(s) ==
  s.start_bit .. s.start_bit + (IF s.kind = "float" THEN WIDTH32 ELSE s.bit_length) - 1

\* Signals lie in encode_buff, whose size no code looks at, and what can be
\* typed for one is a number.
ASSUME CodecAssumption ==
  /\ WIDTH32 \in Nat \ {0} /\ BuffBits \in Nat
  /\ \A k \in DOMAIN Typed : Typed[k] \subseteq Int
  /\ \A layout \in Layouts :
       /\ layout \in Seq([start_bit : Nat, bit_length : Nat, kind : DOMAIN Typed])
       /\ \A i \in DOMAIN layout : \A b \in Extent(layout[i]) : b < BuffBits

VARIABLES
  msg,   \* the message, and what is typed for each signal
  pc,    \* the loop under way: over which signals, whether copying, at which
  data,  \* encode_buff, and the array that is sent
  value  \* what is shown for each signal

codecVars == <<copy, call, msg, pc, data, value>>

\* The bits of a number of w bits, in two's complement, and back.
BitsOf(v, w) == [k \in 0 .. w - 1 |-> (v \div 2^k) % 2]
NumberOf(bits) ==
  LET from[k \in 0 .. WIDTH32] == IF k = WIDTH32 THEN 0 ELSE bits[k] + 2 * from[k + 1]
  IN  from[0]
Zero(w) == [k \in 0 .. w - 1 |-> 0]

\* json_items_handle of msg_signals.cpp: the length is the sum of the signals'
\* lengths, wherever they begin.
msg_len(layout) ==
  LET msg_bit_len[n \in 0 .. Len(layout)] ==
        IF n = 0 THEN 0 ELSE msg_bit_len[n - 1] + layout[n].bit_length
  IN  (msg_bit_len[Len(layout)] + 7) \div 8

\* encode_buff is not initialised.
CodecInit ==
  /\ \E layout \in Layouts :
       \E typed \in [DOMAIN layout -> UNION {Typed[k] : k \in DOMAIN Typed}] :
         /\ \A i \in DOMAIN layout : typed[i] \in Typed[layout[i].kind]
         /\ msg = [layout |-> layout, typed |-> typed]
         /\ value = [i \in DOMAIN layout |-> 0]
  /\ pc = [loop |-> "encode", copying |-> FALSE, at |-> 1]
  /\ \E garbage \in {0, 1} :
       data = [encode_buff |-> [j \in 0 .. BuffBits - 1 |-> garbage], array |-> <<>>]
  /\ copy = [src |-> <<>>, dst |-> <<>>, src_off |-> 0, dst_off |-> 0]
  /\ call = [length |-> 0, src_offset |-> 0, dst_offset |-> 0, before |-> <<>>]

Sig == msg.layout[pc.at]
At(loop) == pc.loop = loop /\ ~pc.copying /\ pc.at <= Len(msg.layout)
Copying == pc' = [pc EXCEPT !.copying = TRUE]
Advance == pc' = [pc EXCEPT !.copying = FALSE, !.at = @ + 1]

\* canardDSDLSetF32, SetIxx and SetUxx: a float takes its own bits whatever the
\* signal's length is.
EncodeSignal ==
  /\ At("encode")
  /\ LET length == IF Sig.kind = "float" THEN WIDTH32 ELSE chooseMin(Sig.bit_length, WIDTH64)
     IN  Begin(length, 0, Sig.start_bit, BitsOf(msg.typed[pc.at], WIDTH64), data.encode_buff)
  /\ Copying
  /\ UNCHANGED <<msg, data, value>>

Piece ==
  /\ pc.copying
  /\ CopyNext
  /\ UNCHANGED <<msg, pc, data, value>>

Encoded ==
  /\ pc.loop = "encode" /\ pc.copying /\ Copied
  /\ data' = [data EXCEPT !.encode_buff = copy.dst]
  /\ Advance
  /\ UNCHANGED <<copy, call, msg, value>>

\* The end of slot_encode_send: the first msg_len bytes go out.
SendMessage ==
  /\ pc.loop = "encode" /\ pc.at > Len(msg.layout)
  /\ data' = [data EXCEPT !.array = [j \in 0 .. 8 * msg_len(msg.layout) - 1 |-> data.encode_buff[j]]]
  /\ pc' = [loop |-> "decode", copying |-> FALSE, at |-> 1]
  /\ UNCHANGED <<copy, call, msg, value>>

\* Only what there is of the signal is read; the rest is 0.
getBitCopySize(buf_size_bit, off_bit, len_bit) ==
  chooseMin(buf_size_bit - chooseMin(buf_size_bit, off_bit), chooseMin(len_bit, WIDTH32))

\* Of the three readings of a signal the one that is shown.
DecodeSignal ==
  /\ At("decode")
  /\ LET length == IF Sig.kind = "float" THEN WIDTH32 ELSE Sig.bit_length
     IN  Begin(getBitCopySize(Cardinality(DOMAIN data.array), Sig.start_bit, length),
               Sig.start_bit, 0, data.array, Zero(WIDTH32))
  /\ Copying
  /\ UNCHANGED <<msg, data, value>>

\* Mutant: the sign is taken from the whole word.
unextended(val, len_bit) == IF val >= 2^(WIDTH32 - 1) THEN val - 2^WIDTH32 ELSE val

\* canardDSDLGetI32: the sign is the highest bit of the signal's length.
SignExtended(val, len_bit) ==
  LET sat == chooseMin(len_bit, WIDTH32)
  IN  IF sat > 0 /\ val >= 2^(sat - 1) THEN val - 2^sat ELSE val

Decoded ==
  /\ pc.loop = "decode" /\ pc.copying /\ Copied
  /\ value' = [value EXCEPT ![pc.at] =
                 IF Sig.kind = "signed" THEN SignExtended(NumberOf(copy.dst), Sig.bit_length)
                 ELSE NumberOf(copy.dst)]
  /\ Advance
  /\ UNCHANGED <<copy, call, msg, data>>

CodecNext == EncodeSignal \/ Piece \/ Encoded \/ SendMessage \/ DecodeSignal \/ Decoded

CodecSpec == CodecInit /\ [][CodecNext]_codecVars

-----------------------------------------------------------------------------
CodecTypeOK ==
  /\ pc.at \in 1 .. Len(msg.layout) + 1
  /\ pc.copying => /\ DOMAIN copy.dst = DOMAIN call.before
                   /\ copy.src_off \in call.src_offset .. last_bit
                   /\ copy.src_off - call.src_offset = copy.dst_off - call.dst_offset
  /\ \A j \in DOMAIN data.encode_buff : data.encode_buff[j] \in {0, 1}

\* A signal within the message that no later one overwrites.
Kept(i) ==
  /\ \A j \in i + 1 .. Len(msg.layout) : Extent(msg.layout[i]) \cap Extent(msg.layout[j]) = {}
  /\ \A b \in Extent(msg.layout[i]) : b < 8 * msg_len(msg.layout)

\* What is left of a number in the bits of a signal.
Fitted(s, v) ==
  LET bits == IF s.kind = "float" THEN WIDTH32 ELSE chooseMin(s.bit_length, WIDTH32)
      low == v % 2^bits
  IN  IF s.kind = "signed" /\ bits > 0 /\ low >= 2^(bits - 1) THEN low - 2^bits ELSE low

\* What is sent comes out as what was typed, wherever the signals lie in the
\* bytes and whatever stood in the buffer, unless the message is too short for
\* the signal or a later signal lies over it (msgdata.cpp).
NumbersReturn ==
  pc.loop = "decode" /\ pc.at > Len(msg.layout) =>
    \A i \in DOMAIN msg.layout : Kept(i) => value[i] = Fitted(msg.layout[i], msg.typed[i])
=============================================================================
