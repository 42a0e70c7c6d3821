------------------------- MODULE FrameReaderProofs -------------------------
(***************************************************************************)
(* Theorems about the frame reader, for all frames, masks and limits.  The *)
(* inductive invariant says which bytes of the message belong to the frame *)
(* that is being read, and that these are its masked bytes so far; when it *)
(* is complete, unmasking them gives back what the peer meant.             *)
(***************************************************************************)
EXTENDS FrameReader, SequenceTheorems, TLAPS

\* The payload of a frame as it is on the wire.
Masked(f) == ws_unmask_payload(f.payload, 0, f.mask)

\* Between frames, and while a header is read.
Idle(m) == /\ m.buflen = 0
           /\ Len(m.payload) <= m.size
           /\ ~m.fragmented => m.payload = <<>>

\* While the payload of f is read.
Held(m, f) ==
    /\ m.buflen <= Len(f.payload)
    /\ m.buflen <= Len(m.payload)
    /\ ~m.fragmented => Len(m.payload) = m.buflen
    /\ Len(m.payload) + Len(f.payload) - m.buflen <= m.size
    /\ \A i \in 1 .. m.buflen : m.payload[MaskOffset(m) + i] = Masked(f)[i]

Synced ==
    status = "open" =>
        \/ /\ wire = Nothing /\ taken = 0 /\ frame = new_wsframe
           /\ Idle(message)
        \/ /\ wire # Nothing /\ frame.reading
           /\ taken = frame.buflen /\ frame.buflen < HeaderSize(wire)
           /\ Idle(message)
        \/ /\ wire # Nothing /\ ~frame.reading
           /\ frame.buflen = 0 /\ taken = HeaderSize(wire) + message.buflen
           /\ message.buflen < Len(wire.payload)
           /\ Held(message, wire)

ReaderInv == TypeOK /\ Synced

-----------------------------------------------------------------------------
(* Masking *)

LEMMA PeerFrameType ==
    ASSUME NEW f \in PeerFrames
    PROVE  /\ f \in Frame /\ f # Nothing
           /\ f.payload \in Seq(Bytes) /\ Len(f.payload) \in Nat
           /\ f.mask \in Masks /\ f.opcode \in Opcodes /\ f.fin \in BOOLEAN
           /\ HeaderSize(f) \in Nat /\ HeaderSize(f) >= 6 /\ f.extended \in {0, 2, 8}
<1>1. f \in Frame /\ f # Nothing
  BY PeerFramesAssumption, NothingAssumption
<1>2. f.payload \in Seq(Bytes) /\ Len(f.payload) \in Nat
  BY <1>1, LenProperties DEF Frame
<1> QED BY <1>1, <1>2 DEF Frame, HeaderSize

LEMMA Slice ==
    ASSUME NEW S, NEW s \in Seq(S), NEW pos \in Nat, NEW n \in Nat, pos + n <= Len(s)
    PROVE  /\ SubSeq(s, pos + 1, pos + n) \in Seq(S)
           /\ Len(SubSeq(s, pos + 1, pos + n)) = n
           /\ \A i \in 1 .. n : SubSeq(s, pos + 1, pos + n)[i] = s[pos + i]
<1> DEFINE first == pos + 1
           last == pos + n
<1>1. Len(s) \in Nat /\ \A i \in 1 .. Len(s) : s[i] \in S
  BY LenProperties, ElementOfSeq
<1>2. first \in Int /\ last \in Int /\ \A i \in first .. last : s[i] \in S
  BY <1>1
<1>3. /\ last - first + 1 = n /\ (first <= last => n = last - first + 1)
      /\ ~(first <= last) => n = 0
      /\ \A i \in 1 .. n : first + i - 1 = pos + i
  OBVIOUS
<1> HIDE DEF first, last
<1>4. /\ SubSeq(s, first, last) \in Seq(S)
      /\ Len(SubSeq(s, first, last)) = IF first <= last THEN last - first + 1 ELSE 0
      /\ \A i \in 1 .. last - first + 1 : SubSeq(s, first, last)[i] = s[first + i - 1]
  BY <1>2, SubSeqProperties
<1>5. ASSUME NEW i \in 1 .. n PROVE SubSeq(s, first, last)[i] = s[pos + i]
  BY <1>3, <1>4, Zenon
<1>6. SubSeq(s, first, last) \in Seq(S) /\ Len(SubSeq(s, first, last)) = n
  BY <1>3, <1>4
<1> QED BY <1>5, <1>6 DEF first, last

\* The same, for bounds that are terms of their own.
LEMMA SliceOf ==
    ASSUME NEW S, NEW s \in Seq(S), NEW pos \in Nat, NEW n \in Nat, pos + n <= Len(s),
           NEW first, first = pos + 1, NEW last, last = pos + n,
           NEW part, part = SubSeq(s, first, last)
    PROVE  /\ part \in Seq(S) /\ Len(part) = n
           /\ \A i \in 1 .. n : part[i] = s[pos + i]
<1>1. /\ SubSeq(s, pos + 1, pos + n) \in Seq(S)
      /\ Len(SubSeq(s, pos + 1, pos + n)) = n
      /\ \A i \in 1 .. n : SubSeq(s, pos + 1, pos + n)[i] = s[pos + i]
  BY Slice
<1> QED BY <1>1

LEMMA Prefix ==
    ASSUME NEW S, NEW s \in Seq(S), NEW n \in Nat, n <= Len(s)
    PROVE  /\ SubSeq(s, 1, n) \in Seq(S)
           /\ Len(SubSeq(s, 1, n)) = n
           /\ \A i \in 1 .. n : SubSeq(s, 1, n)[i] = s[i]
<1>1. 0 \in Nat /\ 0 + 1 = 1 /\ 0 + n = n /\ \A i \in 1 .. n : 0 + i = i
  OBVIOUS
<1>2. /\ SubSeq(s, 0 + 1, 0 + n) \in Seq(S)
      /\ Len(SubSeq(s, 0 + 1, 0 + n)) = n
      /\ \A i \in 1 .. n : SubSeq(s, 0 + 1, 0 + n)[i] = s[0 + i]
  BY <1>1, Slice
<1> QED BY <1>1, <1>2

LEMMA MaskByte ==
    ASSUME NEW mask \in Masks, NEW k \in Nat
    PROVE  k % 4 \in 0 .. 3 /\ mask[k % 4] \in Bytes
BY DEF Masks

\* Masking keeps the length, and leaves the bytes up to the offset alone.
LEMMA Unmask ==
    ASSUME NEW buf \in Seq(Bytes), NEW offset \in Nat, NEW mask \in Masks
    PROVE  /\ ws_unmask_payload(buf, offset, mask) \in Seq(Bytes)
           /\ Len(ws_unmask_payload(buf, offset, mask)) = Len(buf)
           /\ \A i \in 1 .. Len(buf) :
                 ws_unmask_payload(buf, offset, mask)[i] =
                    IF i > offset THEN Xor(buf[i], mask[(i - offset - 1) % 4]) ELSE buf[i]
<1> DEFINE out == ws_unmask_payload(buf, offset, mask)
<1>1. Len(buf) \in Nat /\ \A i \in 1 .. Len(buf) : buf[i] \in Bytes
  BY LenProperties, ElementOfSeq
<1>2. \A i \in 1 .. Len(buf) : i > offset => Xor(buf[i], mask[(i - offset - 1) % 4]) \in Bytes
  <2>1. SUFFICES ASSUME NEW i \in 1 .. Len(buf), i > offset
                 PROVE  Xor(buf[i], mask[(i - offset - 1) % 4]) \in Bytes
    OBVIOUS
  <2>2. i - offset - 1 \in Nat
    BY <1>1, <2>1
  <2>3. mask[(i - offset - 1) % 4] \in Bytes
    BY <2>2, MaskByte
  <2> QED BY <1>1, <2>3, XorAssumption
<1>3. out \in [1 .. Len(buf) -> Bytes]
  BY <1>1, <1>2 DEF ws_unmask_payload
<1>4. out \in Seq(Bytes) /\ Len(out) = Len(buf)
  <2>1. out \in Seq(Bytes)
    BY <1>1, <1>3, SeqDef
  <2>2. DOMAIN out = 1 .. Len(buf) /\ DOMAIN out = 1 .. Len(out) /\ Len(out) \in Nat
    BY <1>3, <2>1, LenProperties
  <2> QED BY <1>1, <2>1, <2>2
<1>5. \A i \in 1 .. Len(buf) :
         out[i] = IF i > offset THEN Xor(buf[i], mask[(i - offset - 1) % 4]) ELSE buf[i]
  BY DEF ws_unmask_payload
<1> QED BY <1>4, <1>5

LEMMA MaskedType ==
    ASSUME NEW f \in PeerFrames
    PROVE  /\ Masked(f) \in Seq(Bytes) /\ Len(Masked(f)) = Len(f.payload)
           /\ \A i \in 1 .. Len(f.payload) :
                 /\ Masked(f)[i] = Xor(f.payload[i], f.mask[(i - 1) % 4])
                 /\ f.payload[i] \in Bytes
                 /\ f.mask[(i - 1) % 4] \in Bytes
<1>1. f.payload \in Seq(Bytes) /\ f.mask \in Masks /\ Len(f.payload) \in Nat
  BY PeerFrameType
<1>2. \A i \in 1 .. Len(f.payload) : f.payload[i] \in Bytes
  BY <1>1, ElementOfSeq
<1>3. /\ Masked(f) \in Seq(Bytes) /\ Len(Masked(f)) = Len(f.payload)
      /\ \A i \in 1 .. Len(f.payload) :
            Masked(f)[i] = IF i > 0 THEN Xor(f.payload[i], f.mask[(i - 0 - 1) % 4])
                                    ELSE f.payload[i]
  <2>1. 0 \in Nat
    OBVIOUS
  <2> QED BY <1>1, <2>1, Unmask DEF Masked
<1>4. ASSUME NEW i \in 1 .. Len(f.payload)
      PROVE  /\ i > 0 /\ i - 0 - 1 = i - 1 /\ i - 1 \in Nat
             /\ f.mask[(i - 1) % 4] \in Bytes
  <2>1. i > 0 /\ i - 0 - 1 = i - 1 /\ i - 1 \in Nat
    BY <1>1
  <2> QED BY <1>1, <2>1, MaskByte
<1> QED BY <1>2, <1>3, <1>4

\* Unmasking a message whose last frame is complete appends what the peer meant.
LEMMA Unmasked ==
    ASSUME NEW f \in PeerFrames, NEW m \in WSMessage, Held(m, f),
           m.buflen = Len(f.payload)
    PROVE  /\ Clear(m) \in Seq(Bytes)
           /\ Clear(m) \o f.payload \in Seq(Bytes)
           /\ Len(Clear(m) \o f.payload) = Len(m.payload)
           /\ ws_unmask_payload(m.payload, MaskOffset(m), f.mask) = Clear(m) \o f.payload
           /\ ~m.fragmented => Clear(m) \o f.payload = f.payload
<1> DEFINE off == MaskOffset(m)
           out == ws_unmask_payload(m.payload, off, f.mask)
           cat == Clear(m) \o f.payload
<1>1. /\ m.payload \in Seq(Bytes) /\ f.payload \in Seq(Bytes) /\ f.mask \in Masks
      /\ Len(m.payload) \in Nat /\ Len(f.payload) \in Nat
      /\ \A i \in 1 .. Len(m.payload) : m.payload[i] \in Bytes
  BY PeerFrameType, LenProperties, ElementOfSeq DEF WSMessage
<1>2. off \in Nat /\ off + Len(f.payload) = Len(m.payload)
  BY <1>1 DEF Held, MaskOffset
<1>3. /\ Clear(m) \in Seq(Bytes) /\ Len(Clear(m)) = off
      /\ \A i \in 1 .. off : Clear(m)[i] = m.payload[i]
  <2>1. \A i \in 1 .. off : m.payload[i] \in Bytes
    BY <1>1, <1>2
  <2>2. /\ SubSeq(m.payload, 1, off) \in Seq(Bytes)
        /\ Len(SubSeq(m.payload, 1, off)) = IF 1 <= off THEN off - 1 + 1 ELSE 0
        /\ \A i \in 1 .. off - 1 + 1 : SubSeq(m.payload, 1, off)[i] = m.payload[1 + i - 1]
    BY <1>2, <2>1, SubSeqProperties
  <2> QED BY <1>2, <2>2 DEF Clear
<1>4. /\ cat \in Seq(Bytes) /\ Len(cat) = off + Len(f.payload)
      /\ \A i \in 1 .. off + Len(f.payload) :
            cat[i] = IF i <= off THEN Clear(m)[i] ELSE f.payload[i - off]
  <2>1. /\ cat \in Seq(Bytes) /\ Len(cat) = Len(Clear(m)) + Len(f.payload)
        /\ \A i \in 1 .. Len(Clear(m)) + Len(f.payload) :
              cat[i] = IF i <= Len(Clear(m)) THEN Clear(m)[i] ELSE f.payload[i - Len(Clear(m))]
    BY <1>1, <1>3, ConcatProperties
  <2>2. Len(Clear(m)) = off
    BY <1>3
  <2> HIDE DEF cat, off
  <2> QED BY <2>1, <2>2
<1>5. /\ out \in Seq(Bytes) /\ Len(out) = Len(m.payload)
      /\ \A i \in 1 .. Len(m.payload) :
            out[i] = IF i > off THEN Xor(m.payload[i], f.mask[(i - off - 1) % 4])
                                ELSE m.payload[i]
  BY <1>1, <1>2, Unmask
<1>6. ASSUME NEW i \in 1 .. Len(m.payload)
      PROVE  out[i] = cat[i]
  <2>1. CASE i <= off
    <3>1. i \in 1 .. off /\ ~(i > off) /\ i \in 1 .. off + Len(f.payload)
      BY <1>1, <1>2, <2>1
    <3>2. out[i] = m.payload[i] /\ cat[i] = Clear(m)[i]
      BY <1>4, <1>5, <1>6, <2>1, <3>1
    <3> QED BY <1>3, <3>1, <3>2
  <2>2. CASE i > off
    <3> DEFINE j == i - off
    <3>1. j \in 1 .. Len(f.payload) /\ off + j = i /\ i - off - 1 = j - 1
      BY <1>1, <1>2, <2>2
    <3>2. m.payload[i] = Xor(f.payload[j], f.mask[(j - 1) % 4])
      <4>1. j \in 1 .. m.buflen
        BY <3>1
      <4>2. m.payload[off + j] = Masked(f)[j]
        BY <4>1 DEF Held
      <4> QED BY <3>1, <4>2, MaskedType
    <3>3. f.payload[j] \in Bytes /\ f.mask[(j - 1) % 4] \in Bytes
      BY <3>1, MaskedType
    <3>4. Xor(Xor(f.payload[j], f.mask[(j - 1) % 4]), f.mask[(j - 1) % 4]) = f.payload[j]
      BY <3>3, XorAssumption
    <3>5. out[i] = Xor(m.payload[i], f.mask[(j - 1) % 4])
      BY <1>5, <1>6, <2>2, <3>1
    <3>6. cat[i] = f.payload[j]
      <4>1. i \in 1 .. off + Len(f.payload) /\ ~(i <= off) /\ i - off = j
        BY <1>1, <1>2, <2>2
      <4>2. cat[i] = IF i <= off THEN Clear(m)[i] ELSE f.payload[i - off]
        BY <1>4, <4>1
      <4> HIDE DEF cat, off
      <4> QED BY <4>1, <4>2
    <3> QED BY <3>2, <3>4, <3>5, <3>6
  <2>3. i <= off \/ i > off
    BY <1>1, <1>2
  <2> HIDE DEF cat, off, out
  <2> QED BY <2>1, <2>2, <2>3
<1>7. out = cat
  <2>1. Len(out) = Len(cat) /\ \A i \in 1 .. Len(out) : out[i] = cat[i]
    BY <1>2, <1>4, <1>5, <1>6
  <2> QED BY <1>4, <1>5, <2>1, SeqEqual
<1>8. ~m.fragmented => cat = f.payload
  <2>1. SUFFICES ASSUME ~m.fragmented PROVE cat = f.payload
    OBVIOUS
  <2>2. off = 0
    BY <1>1, <2>1 DEF Held, MaskOffset
  <2>3. Clear(m) = <<>>
    BY <2>2, SubSeqEmpty DEF Clear
  <2> QED BY <1>1, <2>3, ConcatEmptySeq
<1> QED BY <1>2, <1>3, <1>4, <1>7, <1>8

-----------------------------------------------------------------------------
(* The steps of the abstract specification, as the handlers take them. *)

LEMMA EndStep ==
    ASSUME status = "open", status' # "open", UNCHANGED <<delivered, pongs>>
    PROVE  Messages!Next
BY DEF Messages!Next, Messages!End, Partial

LEMMA StutterStep ==
    ASSUME status = "open", status' = "open", message'.fragmented = message.fragmented,
           message'.opcode = message.opcode \/ ~message.fragmented,
           Clear(message') = Clear(message) \/ ~message.fragmented,
           UNCHANGED <<delivered, pongs>>
    PROVE  UNCHANGED Messages!vars
BY DEF Messages!vars, Partial, Clear, MaskOffset

\* The step of the specification that a complete frame is.
FrameStep(f) == Messages!Start(f) \/ Messages!Continue(f) \/ Messages!Ping(f) \/ Messages!Pong(f)

LEMMA FrameStepNext ==
    ASSUME status = "open", NEW f \in PeerFrames, FrameStep(f)
    PROVE  Messages!Next
BY DEF FrameStep, Messages!Next

LEMMA StartStep ==
    ASSUME status = "open", status' = "open", UNCHANGED pongs, ~message.fragmented,
           NEW f \in PeerFrames, f.opcode \in {"TEXT", "BIN"},
           \/ /\ f.fin /\ ~message'.fragmented
              /\ delivered' = Append(delivered, [opcode |-> f.opcode, payload |-> f.payload])
           \/ /\ ~f.fin /\ message'.fragmented
              /\ message'.opcode = f.opcode /\ Clear(message') = f.payload
              /\ UNCHANGED delivered
    PROVE  FrameStep(f)
<1>1. Partial = Nothing
  BY DEF Partial
<1>2. Partial' = IF f.fin THEN Nothing ELSE [opcode |-> f.opcode, payload |-> f.payload]
  BY DEF Partial, Clear, MaskOffset
<1>3. Messages!Start(f)
  BY <1>1, <1>2 DEF Messages!Start, Messages!Joined
<1> QED BY <1>3 DEF FrameStep

LEMMA ExceptPayload ==
    ASSUME NEW o, NEW p, NEW q, NEW r, r = [opcode |-> o, payload |-> p]
    PROVE  [r EXCEPT !.payload = q] = [opcode |-> o, payload |-> q]
OBVIOUS

LEMMA ContinueStep ==
    ASSUME status = "open", status' = "open", UNCHANGED pongs, message.fragmented,
           message \in WSMessage, Clear(message) \in Seq(Bytes),
           NEW f \in PeerFrames, f.opcode = "CONTINUATION",
           NEW whole, whole = [opcode |-> message.opcode, payload |-> Clear(message) \o f.payload],
           \/ /\ f.fin /\ ~message'.fragmented
              /\ delivered' = Append(delivered, whole)
           \/ /\ ~f.fin /\ message'.fragmented
              /\ message'.opcode = whole.opcode /\ Clear(message') = whole.payload
              /\ UNCHANGED delivered
    PROVE  FrameStep(f)
<1>1. Partial = [opcode |-> message.opcode, payload |-> Clear(message)]
  BY DEF Partial
<1>2. Partial # Nothing
  BY <1>1, NothingAssumption DEF Whole, WSMessage
<1>3. [Partial EXCEPT !.payload = @ \o f.payload] = whole
  <2> DEFINE joined == Partial.payload \o f.payload
  <2>1. joined = Clear(message) \o f.payload
    BY <1>1
  <2> HIDE DEF joined
  <2>2. [Partial EXCEPT !.payload = joined] = [opcode |-> message.opcode, payload |-> joined]
    BY <1>1, ExceptPayload
  <2>3. [opcode |-> message.opcode, payload |-> joined] = whole
    BY <2>1, Zenon
  <2>4. [Partial EXCEPT !.payload = joined] = whole
    BY <2>2, <2>3, Zenon
  <2> QED BY <2>4, Zenon DEF joined
<1>4. Partial' = IF f.fin THEN Nothing ELSE whole
  BY DEF Partial, Clear, MaskOffset
<1>5. Messages!Continue(f)
  BY <1>2, <1>3, <1>4 DEF Messages!Continue, Messages!Joined
<1> QED BY <1>5 DEF FrameStep

LEMMA PingStep ==
    ASSUME status = "open", status' = "open", UNCHANGED delivered,
           NEW f \in PeerFrames, f.opcode = "PING", f.fin,
           message'.fragmented = message.fragmented,
           message'.opcode = message.opcode \/ ~message.fragmented,
           Clear(message') = Clear(message) \/ ~message.fragmented,
           pongs' = Append(pongs, f.payload)
    PROVE  FrameStep(f)
<1>1. Partial' = Partial
  BY DEF Partial, Clear, MaskOffset
<1>2. Messages!Ping(f)
  BY <1>1 DEF Messages!Ping
<1> QED BY <1>2 DEF FrameStep

LEMMA PongStep ==
    ASSUME status = "open", status' = "open", UNCHANGED <<delivered, pongs>>,
           NEW f \in PeerFrames, f.opcode = "PONG", f.fin, ~message'.fragmented
    PROVE  FrameStep(f)
<1>1. Partial' = Nothing
  BY DEF Partial
<1>2. Messages!Pong(f)
  BY <1>1 DEF Messages!Pong
<1> QED BY <1>2 DEF FrameStep

-----------------------------------------------------------------------------
(* The handling of a complete frame *)

\* The message with the whole payload of the frame on the wire.
Complete(m) == /\ m \in WSMessage
               /\ Held(m, wire) /\ m.buflen = Len(wire.payload)
               /\ m.fragmented = message.fragmented
               /\ m.opcode = message.opcode
               /\ Clear(m) = Clear(message)

Handled == /\ status' \in {"open", "closed", "refused", "failed"}
           /\ message' \in WSMessage
           /\ delivered' \in Seq(Whole)
           /\ pongs' \in Seq(Seq(Bytes))
           /\ status' = "open" => Idle(message') /\ FrameStep(wire)
           /\ status' # "open" => UNCHANGED <<delivered, pongs>>
           /\ status' = "refused" => ~Allowed(Partial, wire)

LEMMA PartialExists ==
    ASSUME TypeOK, status = "open", message.fragmented, Clear(message) \in Seq(Bytes)
    PROVE  Partial # Nothing
BY NothingAssumption DEF Partial, TypeOK, WSMessage, Whole

LEMMA NewMessage ==
    /\ new_wsmessage \in WSMessage /\ Idle(new_wsmessage)
    /\ ~new_wsmessage.fragmented
<1>1. <<>> \in Seq(Bytes) /\ Len(<<>>) = 0
  BY EmptySeq
<1> QED BY <1>1 DEF new_wsmessage, WSMessage, Idle, Opcodes

LEMMA EndHandled ==
    ASSUME TypeOK, NEW how \in {"closed", "refused", "failed"}, End(how),
           how = "refused" => ~Allowed(Partial, wire)
    PROVE  Handled
BY DEF Handled, End, TypeOK

LEMMA AppendType ==
    ASSUME NEW S, NEW s \in Seq(S), NEW e \in S
    PROVE  Append(s, e) \in Seq(S)
OBVIOUS

\* m with opcode set is the message ws_handle_text_bin is called with.
LEMMA TextBinHandled ==
    ASSUME TypeOK, status = "open", wire \in PeerFrames,
           NEW m, Complete(m),
           NEW opcode,
           \/ wire.opcode \in {"TEXT", "BIN"} /\ opcode = wire.opcode
           \/ wire.opcode = "CONTINUATION" /\ m.fragmented /\ opcode = m.opcode,
           ws_handle_text_bin([m EXCEPT !.opcode = opcode])
    PROVE  Handled
<1> DEFINE n == [m EXCEPT !.opcode = opcode]
           clear == Clear(m) \o wire.payload
           whole == [opcode |-> opcode, payload |-> clear]
<1>1. /\ m \in WSMessage /\ Held(m, wire) /\ m.buflen = Len(wire.payload)
      /\ m.payload \in Seq(Bytes) /\ Len(m.payload) \in Nat
      /\ opcode \in Opcodes /\ Len(wire.payload) \in Nat
  BY PeerFrameType, LenProperties DEF Complete, WSMessage
<1>2. /\ n \in WSMessage /\ n.payload = m.payload /\ n.buflen = m.buflen /\ n.size = m.size
      /\ n.opcode = opcode /\ n.fragmented = m.fragmented
  BY <1>1 DEF WSMessage
<1>3. MaskOffset(n) = MaskOffset(m)
  BY <1>2 DEF MaskOffset
<1>4. /\ clear \in Seq(Bytes) /\ Len(clear) = Len(m.payload)
      /\ ws_unmask_payload(n.payload, MaskOffset(n), wire.mask) = clear
      /\ ~m.fragmented => clear = wire.payload
      /\ Clear(m) \in Seq(Bytes)
  BY <1>1, <1>2, <1>3, Unmasked
<1>5. CASE End("refused") /\ m.fragmented /\ wire.opcode # "CONTINUATION"
  <2>1. Partial # Nothing /\ wire.opcode \in {"TEXT", "BIN"}
    BY <1>4, <1>5, PartialExists DEF Complete
  <2>2. ~Allowed(Partial, wire)
    BY <2>1 DEF Allowed, IsData
  <2> QED BY <1>5, <2>2, EndHandled
<1>5a. CASE /\ End("refused") /\ (~m.fragmented \/ wire.opcode = "CONTINUATION")
            /\ wire.fin /\ opcode = "TEXT" /\ ~IsUtf8(clear)
  <2>1. CASE m.fragmented
    <3>1. message.fragmented /\ opcode = message.opcode /\ Clear(m) = Clear(message)
      BY <1>5a, <2>1 DEF Complete
    <3>2. Partial = [opcode |-> opcode, payload |-> Clear(m)] /\ Partial # Nothing
      BY <1>4, <3>1, PartialExists DEF Partial
    <3>3. Extended(Partial, wire).opcode = "TEXT" /\ Extended(Partial, wire).payload = clear
      <4> HIDE DEF n, whole
      <4> QED BY <1>5a, <3>2 DEF Extended
    <3>4. ~Allowed(Partial, wire)
      <4> HIDE DEF n, clear, whole
      <4> QED BY <1>5a, <2>1, <3>3 DEF Allowed, IsData
    <3> QED BY <1>5a, <3>4, EndHandled
  <2>2. CASE ~m.fragmented
    <3>1. Partial = Nothing /\ opcode = wire.opcode /\ clear = wire.payload
      BY <1>4, <2>2 DEF Partial, Complete
    <3>2. Extended(Partial, wire).opcode = "TEXT" /\ Extended(Partial, wire).payload = clear
      <4> HIDE DEF n, clear, whole
      <4> QED BY <1>5a, <3>1 DEF Extended
    <3>3. ~Allowed(Partial, wire)
      <4> HIDE DEF n, clear, whole
      <4> QED BY <1>5a, <3>1, <3>2 DEF Allowed, IsData
    <3> QED BY <1>5a, <3>3, EndHandled
  <2> QED BY <2>1, <2>2
<1>6. CASE /\ ~m.fragmented \/ wire.opcode = "CONTINUATION"
           /\ ~wire.fin
           /\ message' = [n EXCEPT !.payload = clear, !.buflen = 0, !.fragmented = TRUE]
           /\ UNCHANGED <<status, delivered, pongs>>
  <2>1. /\ message' \in WSMessage /\ message'.payload = clear /\ message'.buflen = 0
        /\ message'.fragmented /\ message'.opcode = opcode /\ message'.size = m.size
    BY <1>1, <1>2, <1>4, <1>6 DEF WSMessage
  <2>2. Idle(message')
    BY <1>1, <1>4, <2>1 DEF Idle, Held
  <2>3. Clear(message') = clear
    <3>1. MaskOffset(message') = Len(clear)
      BY <1>1, <1>4, <2>1 DEF MaskOffset
    <3> QED BY <1>4, <2>1, <3>1, SubSeqFull DEF Clear
  <2>4. FrameStep(wire)
    <3>1. CASE m.fragmented
      <4>1. /\ message.fragmented /\ message \in WSMessage /\ opcode = message.opcode
            /\ wire.opcode = "CONTINUATION" /\ Clear(m) = Clear(message)
        BY <1>6, <3>1 DEF Complete, TypeOK
      <4> HIDE DEF n
      <4> QED BY <1>4, <1>6, <2>1, <2>3, <4>1, ContinueStep
    <3>2. CASE ~m.fragmented
      <4>1. /\ ~message.fragmented /\ wire.opcode \in {"TEXT", "BIN"} /\ opcode = wire.opcode
            /\ clear = wire.payload
        BY <1>4, <3>2 DEF Complete
      <4> HIDE DEF n
      <4> QED BY <1>6, <2>1, <2>3, <4>1, StartStep
    <3> QED BY <3>1, <3>2
  <2> QED BY <1>6, <2>1, <2>2, <2>4 DEF Handled, TypeOK
<1>7. CASE /\ ~m.fragmented \/ wire.opcode = "CONTINUATION"
           /\ wire.fin
           /\ delivered' = Append(delivered, whole)
           /\ message' = new_wsmessage
           /\ UNCHANGED <<status, pongs>>
  <2>1. whole \in Whole
    BY <1>1, <1>4 DEF Whole
  <2>2. delivered' \in Seq(Whole)
    BY <1>7, <2>1, AppendType DEF TypeOK
  <2>3. message' \in WSMessage /\ Idle(message') /\ ~message'.fragmented
    BY <1>7, NewMessage
  <2>4. FrameStep(wire)
    <3>1. CASE m.fragmented
      <4>1. /\ message.fragmented /\ message \in WSMessage /\ opcode = message.opcode
            /\ wire.opcode = "CONTINUATION" /\ Clear(m) = Clear(message)
        BY <1>7, <3>1 DEF Complete, TypeOK
      <4>2. whole = [opcode |-> message.opcode, payload |-> Clear(message) \o wire.payload]
        BY <4>1
      <4> HIDE DEF n, whole
      <4> QED BY <1>4, <1>7, <2>3, <4>1, <4>2, ContinueStep
    <3>2. CASE ~m.fragmented
      <4>1. /\ ~message.fragmented /\ wire.opcode \in {"TEXT", "BIN"} /\ opcode = wire.opcode
            /\ clear = wire.payload
        BY <1>4, <3>2 DEF Complete
      <4>2. whole = [opcode |-> wire.opcode, payload |-> wire.payload]
        BY <4>1
      <4> HIDE DEF n, whole
      <4> QED BY <1>7, <2>3, <4>1, <4>2, StartStep
    <3> QED BY <3>1, <3>2
  <2> QED BY <1>7, <2>2, <2>3, <2>4 DEF Handled, TypeOK
<1>8. ws_handle_text_bin(n)
  OBVIOUS
<1> HIDE DEF clear
<1>9. ws_unmask_payload(m.payload, MaskOffset(m), wire.mask) = clear
  BY <1>2, <1>3, <1>4
<1>10. \/ End("refused") /\ m.fragmented /\ wire.opcode # "CONTINUATION"
       \/ /\ End("refused") /\ (~m.fragmented \/ wire.opcode = "CONTINUATION")
          /\ wire.fin /\ opcode = "TEXT" /\ ~IsUtf8(clear)
       \/ /\ ~m.fragmented \/ wire.opcode = "CONTINUATION"
          /\ \/ /\ ~wire.fin
                /\ message' = [n EXCEPT !.payload = clear, !.buflen = 0, !.fragmented = TRUE]
                /\ UNCHANGED <<status, delivered, pongs>>
             \/ /\ wire.fin
                /\ delivered' = Append(delivered, whole)
                /\ message' = new_wsmessage
                /\ UNCHANGED <<status, pongs>>
  <2> HIDE DEF n
  <2> QED BY <1>2, <1>4, <1>8 DEF ws_handle_text_bin
<1> QED BY <1>5, <1>6, <1>7, <1>10, <1>5a

LEMMA PongHandled ==
    ASSUME TypeOK, status = "open", wire \in PeerFrames, wire.opcode = "PONG",
           NEW m, Complete(m), ws_handle_pong(m)
    PROVE  Handled
<1>1. CASE End("refused") /\ ~wire.fin
  BY <1>1, EndHandled DEF Allowed, IsData
<1>2. CASE wire.fin /\ message' = new_wsmessage /\ UNCHANGED <<status, delivered, pongs>>
  <2>1. message' \in WSMessage /\ Idle(message') /\ ~message'.fragmented
    BY <1>2, NewMessage
  <2>2. FrameStep(wire)
    BY <1>2, <2>1, PongStep
  <2> QED BY <1>2, <2>1, <2>2 DEF Handled, TypeOK
<1> QED BY <1>1, <1>2 DEF ws_handle_pong

\* The bytes of a ping are the last of the message; unmasked they are the peer's.
LEMMA PingBytes ==
    ASSUME wire \in PeerFrames, NEW m, Complete(m)
    PROVE  /\ MaskOffset(m) \in Nat
           /\ Len(m.payload) - Len(wire.payload) = MaskOffset(m)
           /\ Len(wire.payload) \in Nat
           /\ Clear(m) \in Seq(Bytes) /\ Len(Clear(m)) = MaskOffset(m)
           /\ ws_unmask_payload(SubSeq(m.payload, MaskOffset(m) + 1,
                                       MaskOffset(m) + Len(wire.payload)), 0, wire.mask)
              = wire.payload
<1> DEFINE f == wire
           off == MaskOffset(m)
           tail == SubSeq(m.payload, off + 1, off + Len(f.payload))
           out == ws_unmask_payload(tail, 0, f.mask)
<1>1. /\ m.payload \in Seq(Bytes) /\ f.payload \in Seq(Bytes) /\ f.mask \in Masks
      /\ Len(m.payload) \in Nat /\ Len(f.payload) \in Nat
      /\ \A i \in 1 .. Len(m.payload) : m.payload[i] \in Bytes
      /\ Held(m, f) /\ m.buflen = Len(f.payload)
  BY PeerFrameType, LenProperties, ElementOfSeq DEF WSMessage, Complete
<1>2. off \in Nat /\ off + Len(f.payload) = Len(m.payload)
      /\ Len(m.payload) - Len(f.payload) = off
  BY <1>1 DEF Held, MaskOffset
<1>3. Clear(m) \in Seq(Bytes) /\ Len(Clear(m)) = off
  <2>1. \A i \in 1 .. off : m.payload[i] \in Bytes
    BY <1>1, <1>2
  <2>2. /\ SubSeq(m.payload, 1, off) \in Seq(Bytes)
        /\ Len(SubSeq(m.payload, 1, off)) = IF 1 <= off THEN off - 1 + 1 ELSE 0
    BY <1>2, <2>1, SubSeqProperties
  <2> QED BY <1>2, <2>2 DEF Clear
<1>4. /\ tail \in Seq(Bytes) /\ Len(tail) = Len(f.payload)
      /\ \A i \in 1 .. Len(f.payload) : tail[i] = m.payload[off + i]
  <2> HIDE DEF off, f
  <2> QED BY <1>1, <1>2, Slice
<1>5. /\ out \in Seq(Bytes) /\ Len(out) = Len(tail)
      /\ \A i \in 1 .. Len(tail) :
            out[i] = IF i > 0 THEN Xor(tail[i], f.mask[(i - 0 - 1) % 4]) ELSE tail[i]
  <2>1. 0 \in Nat
    OBVIOUS
  <2> QED BY <1>1, <1>4, <2>1, Unmask
<1>6. ASSUME NEW i \in 1 .. Len(f.payload)
      PROVE  out[i] = f.payload[i]
  <2>1. i \in 1 .. Len(tail) /\ i > 0 /\ i - 0 - 1 = i - 1
    BY <1>1, <1>4
  <2>2. out[i] = Xor(tail[i], f.mask[(i - 1) % 4])
    BY <1>5, <2>1
  <2>3. tail[i] = Masked(f)[i]
    BY <1>1, <1>4 DEF Held
  <2>4. /\ Masked(f)[i] = Xor(f.payload[i], f.mask[(i - 1) % 4])
        /\ f.payload[i] \in Bytes /\ f.mask[(i - 1) % 4] \in Bytes
    BY MaskedType
  <2> HIDE DEF out, tail
  <2> QED BY <2>2, <2>3, <2>4, XorAssumption
<1>7. out = f.payload
  <2>1. Len(out) = Len(f.payload) /\ \A i \in 1 .. Len(out) : out[i] = f.payload[i]
    BY <1>4, <1>5, <1>6
  <2> HIDE DEF out
  <2> QED BY <1>1, <1>5, <2>1, SeqEqual
<1> QED BY <1>1, <1>2, <1>3, <1>7

LEMMA PingHandled ==
    ASSUME TypeOK, status = "open", wire \in PeerFrames, wire.opcode = "PING",
           NEW m, Complete(m), ws_handle_ping(m)
    PROVE  Handled
<1> DEFINE len == Len(wire.payload)
           pos == Len(m.payload) - len
           rest == [m EXCEPT !.payload = SubSeq(@, 1, pos), !.buflen = 0, !.size = pos]
           answer == ws_unmask_payload(SubSeq(m.payload, pos + 1, pos + len), 0, wire.mask)
<1>1. /\ m \in WSMessage /\ Held(m, wire) /\ m.buflen = len /\ len \in Nat
      /\ pos = MaskOffset(m) /\ pos \in Nat /\ answer = wire.payload
      /\ Clear(m) \in Seq(Bytes) /\ Len(Clear(m)) = pos
      /\ m.fragmented = message.fragmented /\ m.opcode = message.opcode
      /\ Clear(m) = Clear(message) /\ Len(m.payload) \in Nat /\ m.payload \in Seq(Bytes)
  <2>1. /\ m \in WSMessage /\ Held(m, wire) /\ m.buflen = len
        /\ m.fragmented = message.fragmented /\ m.opcode = message.opcode
        /\ Clear(m) = Clear(message)
    BY DEF Complete
  <2>2. m.payload \in Seq(Bytes) /\ Len(m.payload) \in Nat
    BY <2>1, LenProperties DEF WSMessage
  <2>3. pos = MaskOffset(m)
    BY PingBytes
  <2>4. answer = wire.payload
    BY <2>3, PingBytes
  <2> QED BY <2>1, <2>2, <2>3, <2>4, PingBytes
<1>2. wire.payload \in Seq(Bytes)
  BY PeerFrameType
<1>3. CASE End("failed") \/ (End("refused") /\ (~wire.fin \/ len > ControlLimit))
  <2>1. ~wire.fin \/ len > ControlLimit => ~Allowed(Partial, wire)
    BY <1>1, LimitsAssumption DEF Allowed, IsData
  <2> QED BY <1>3, <2>1, EndHandled
<1>4. CASE /\ wire.fin /\ len = 0 /\ pongs' = Append(pongs, <<>>) /\ message' = m
           /\ UNCHANGED <<status, delivered>>
  <2>1. wire.payload = <<>>
    BY <1>2, <1>4, EmptySeq
  <2>2. pongs' = Append(pongs, wire.payload) /\ pongs' \in Seq(Seq(Bytes))
    BY <1>2, <1>4, <2>1, AppendType DEF TypeOK
  <2>3. Idle(m)
    <3>1. m.buflen = 0 /\ Len(m.payload) <= m.size
      BY <1>1, <1>4 DEF Held, WSMessage
    <3>2. ~m.fragmented => m.payload = <<>>
      BY <1>1, <3>1, EmptySeq DEF Held
    <3> QED BY <3>1, <3>2 DEF Idle
  <2>4. FrameStep(wire)
    BY <1>1, <1>4, <2>2, PingStep
  <2> QED BY <1>1, <1>4, <2>2, <2>3, <2>4 DEF Handled, TypeOK
<1>5. CASE /\ wire.fin /\ len > 0 /\ pongs' = Append(pongs, answer)
           /\ message' = IF m.fragmented THEN rest ELSE new_wsmessage
           /\ UNCHANGED <<status, delivered>>
  <2>1. pongs' = Append(pongs, wire.payload)
    <3> HIDE DEF answer
    <3> QED BY <1>1, <1>5
  <2>2. pongs' \in Seq(Seq(Bytes))
    BY <1>2, <2>1, AppendType DEF TypeOK
  <2>3. CASE m.fragmented
    <3> DEFINE clear == Clear(m)
    <3>1. SubSeq(m.payload, 1, pos) = clear
      BY <1>1 DEF Clear
    <3>2. rest = [m EXCEPT !.payload = clear, !.buflen = 0, !.size = pos]
      BY <3>1
    <3> HIDE DEF clear, pos, rest
    <3>3. /\ message' = rest /\ rest \in WSMessage /\ rest.payload = clear /\ rest.buflen = 0
          /\ rest.size = pos /\ rest.fragmented /\ rest.opcode = m.opcode
      BY <1>1, <1>5, <2>3, <3>2 DEF WSMessage, clear
    <3>4. Idle(rest)
      BY <1>1, <3>3 DEF Idle, clear
    <3>5. Clear(rest) = clear
      <4>1. MaskOffset(rest) = Len(clear)
        BY <1>1, <3>3 DEF MaskOffset, clear
      <4>2. SubSeq(clear, 1, Len(clear)) = clear
        BY <1>1, SubSeqFull DEF clear
      <4> QED BY <3>3, <4>1, <4>2 DEF Clear
    <3>6. FrameStep(wire)
      BY <1>1, <1>5, <2>1, <2>3, <3>3, <3>5, PingStep DEF clear
    <3> QED BY <1>5, <2>2, <3>3, <3>4, <3>6 DEF Handled, TypeOK
  <2>4. CASE ~m.fragmented
    <3>1. message' = new_wsmessage /\ ~message.fragmented
      BY <1>1, <1>5, <2>4
    <3>2. Partial' = Partial
      BY <1>5, <3>1, NewMessage DEF Partial
    <3>3. Messages!Ping(wire)
      BY <1>5, <2>1, <3>2 DEF Messages!Ping
    <3>4. FrameStep(wire)
      BY <3>3 DEF FrameStep
    <3> QED BY <1>5, <2>2, <3>1, <3>4, NewMessage DEF Handled, TypeOK
  <2> QED BY <2>3, <2>4
<1>6. \/ End("failed") \/ (End("refused") /\ (~wire.fin \/ len > ControlLimit))
      \/ /\ wire.fin /\ len = 0 /\ pongs' = Append(pongs, <<>>) /\ message' = m
         /\ UNCHANGED <<status, delivered>>
      \/ /\ wire.fin /\ len > 0 /\ pongs' = Append(pongs, answer)
         /\ message' = IF m.fragmented THEN rest ELSE new_wsmessage
         /\ UNCHANGED <<status, delivered>>
  <2> HIDE DEF answer, rest
  <2>1. len \in 1 .. ControlLimit => len > 0
    BY <1>1, LimitsAssumption
  <2> QED BY <2>1 DEF ws_handle_ping, answer, rest
<1> QED BY <1>3, <1>4, <1>5, <1>6

LEMMA OpcodeHandled ==
    ASSUME TypeOK, status = "open", wire \in PeerFrames,
           NEW m, Complete(m), ws_manage_payload_opcode(m)
    PROVE  Handled
<1>1. CASE wire.opcode = "CONTINUATION" /\ m.fragmented /\ ws_handle_text_bin(m)
  <2>1. m = [m EXCEPT !.opcode = m.opcode]
    BY DEF Complete, WSMessage
  <2>2. ws_handle_text_bin([m EXCEPT !.opcode = m.opcode])
    BY <1>1, <2>1
  <2> QED BY <1>1, <2>2, TextBinHandled
<1>2. CASE \/ End("refused") /\ wire.opcode = "CONTINUATION" /\ ~m.fragmented
           \/ End("closed")
  <2>1. ~m.fragmented => Partial = Nothing
    BY DEF Partial, Complete
  <2>2. wire.opcode = "CONTINUATION" /\ ~m.fragmented => ~Allowed(Partial, wire)
    BY <2>1 DEF Allowed, IsData
  <2> QED BY <1>2, <2>2, EndHandled
<1>3. CASE /\ wire.opcode \in {"TEXT", "BIN"}
           /\ ws_handle_text_bin([m EXCEPT !.opcode = wire.opcode])
  BY <1>3, TextBinHandled
<1>4. CASE wire.opcode = "PONG" /\ ws_handle_pong(m)
  BY <1>4, PongHandled
<1>5. CASE wire.opcode = "PING" /\ ws_handle_ping(m)
  BY <1>5, PingHandled
<1> QED BY <1>1, <1>2, <1>3, <1>4, <1>5 DEF ws_manage_payload_opcode
-----------------------------------------------------------------------------
(* Reading *)

\* Allocating changes the size alone.
LEMMA AllocatedFields ==
    ASSUME NEW m \in WSMessage, NEW len \in Nat
    PROVE  LET a == Allocated(m, len)
           IN  /\ a \in WSMessage /\ a.payload = m.payload /\ a.buflen = m.buflen
               /\ a.fragmented = m.fragmented /\ a.opcode = m.opcode
               /\ Clear(a) = Clear(m)
               /\ a.size = IF len > 0 /\ m.size = 0 THEN len
                           ELSE IF len > 0 /\ m.buflen = 0 THEN Len(m.payload) + len
                           ELSE m.size
<1> DEFINE a == Allocated(m, len)
<1>1. m.payload \in Seq(Bytes) /\ Len(m.payload) \in Nat /\ Len(m.payload) + len \in Nat
  BY LenProperties DEF WSMessage
<1>2. /\ a \in WSMessage /\ a.payload = m.payload /\ a.buflen = m.buflen
      /\ a.fragmented = m.fragmented /\ a.opcode = m.opcode
      /\ a.size = IF len > 0 /\ m.size = 0 THEN len
                  ELSE IF len > 0 /\ m.buflen = 0 THEN Len(m.payload) + len
                  ELSE m.size
  <2> DEFINE grown == Len(m.payload) + len
  <2>1. grown \in Nat
    BY <1>1
  <2> HIDE DEF grown
  <2>2. a = IF len > 0 /\ m.size = 0 THEN [m EXCEPT !.size = len]
            ELSE IF len > 0 /\ m.buflen = 0 THEN [m EXCEPT !.size = grown]
            ELSE m
    BY DEF Allocated, grown
  <2> HIDE DEF a
  <2>3. /\ a \in WSMessage /\ a.payload = m.payload /\ a.buflen = m.buflen
        /\ a.fragmented = m.fragmented /\ a.opcode = m.opcode
        /\ a.size = IF len > 0 /\ m.size = 0 THEN len
                    ELSE IF len > 0 /\ m.buflen = 0 THEN grown
                    ELSE m.size
    BY <2>1, <2>2 DEF WSMessage
  <2> QED BY <2>3 DEF grown
<1> HIDE DEF a
<1>3. Clear(a) = Clear(m)
  BY <1>2 DEF Clear, MaskOffset
<1> QED BY <1>2, <1>3 DEF a

\* With the header complete there is room for the payload.
LEMMA AllocatedIdle ==
    ASSUME NEW m \in WSMessage, Idle(m), NEW f \in PeerFrames
    PROVE  Held(Allocated(m, Len(f.payload)), f)
<1> DEFINE len == Len(f.payload)
           a == Allocated(m, len)
<1>1. len \in Nat /\ m.payload \in Seq(Bytes) /\ Len(m.payload) \in Nat /\ m.size \in Nat
  BY PeerFrameType, LenProperties DEF WSMessage
<1>2. /\ a.payload = m.payload /\ a.buflen = 0 /\ a.fragmented = m.fragmented
      /\ a.size = IF len > 0 /\ m.size = 0 THEN len
                  ELSE IF len > 0 /\ m.buflen = 0 THEN Len(m.payload) + len
                  ELSE m.size
  BY <1>1, AllocatedFields DEF Idle
<1>3. m.buflen = 0 /\ Len(m.payload) <= m.size
  BY DEF Idle
<1>4. ~m.fragmented => Len(m.payload) = 0
  BY EmptySeq DEF Idle
<1> HIDE DEF a, len
<1>5. Len(a.payload) + len - a.buflen <= a.size
  BY <1>1, <1>2, <1>3
<1>6. \A i \in 1 .. a.buflen : FALSE
  BY <1>2
<1>7. a.buflen <= len /\ a.buflen <= Len(a.payload)
  BY <1>1, <1>2
<1> QED BY <1>2, <1>4, <1>5, <1>6, <1>7 DEF Held, a, len

\* Allocating before a further part of the payload keeps what has been read.
LEMMA AllocatedHeld ==
    ASSUME NEW f \in PeerFrames, NEW m \in WSMessage, Held(m, f), m.buflen < Len(f.payload)
    PROVE  Held(Allocated(m, Len(f.payload)), f)
<1> DEFINE len == Len(f.payload)
           a == Allocated(m, len)
<1>1. /\ len \in Nat /\ m.payload \in Seq(Bytes) /\ Len(m.payload) \in Nat
      /\ m.size \in Nat /\ m.buflen \in Nat
  BY PeerFrameType, LenProperties DEF WSMessage
<1>2. /\ a.payload = m.payload /\ a.buflen = m.buflen /\ a.fragmented = m.fragmented
      /\ a.size = IF len > 0 /\ m.size = 0 THEN len
                  ELSE IF len > 0 /\ m.buflen = 0 THEN Len(m.payload) + len
                  ELSE m.size
  BY <1>1, AllocatedFields
<1>3. Len(m.payload) + len - m.buflen <= m.size /\ m.buflen < len /\ m.buflen <= Len(m.payload)
  BY DEF Held
<1>4. MaskOffset(a) = MaskOffset(m)
  BY <1>2 DEF MaskOffset
<1> HIDE DEF a, len
<1>5. Len(a.payload) + len - a.buflen <= a.size
  BY <1>1, <1>2, <1>3
<1> QED BY <1>2, <1>4, <1>5 DEF Held, len, a

\* Where a byte of a message of length len is, pos of it the current frame's, when n
\* more bytes come.
LEMMA Position ==
    ASSUME NEW off \in Nat, NEW pos \in Nat, NEW len \in Nat, NEW n \in Nat,
           off + pos = len, NEW i \in 1 .. pos + n, NEW j, j = off + i, NEW k, k = i - pos
    PROVE  /\ j \in 1 .. len + n
           /\ \/ i \in 1 .. pos /\ j <= len
              \/ ~(j <= len) /\ k \in 1 .. n /\ j - len = k /\ pos + k = i
OBVIOUS

\* cat is s with part, of length n, after it.
Joins(cat, s, part, n) ==
    /\ cat \in Seq(Bytes) /\ Len(cat) = Len(s) + n
    /\ \A i \in 1 .. Len(s) + n : cat[i] = IF i <= Len(s) THEN s[i] ELSE part[i - Len(s)]

\* part is the n bytes of the masked payload that follow the first pos.
NextBytes(f, pos, n, part) == \A i \in 1 .. n : part[i] = Masked(f)[pos + i]

\* The bytes of s after the first off are the first pos of the masked payload.
Reads(s, off, pos, f) == \A i \in 1 .. pos : s[off + i] = Masked(f)[i]

First(s, n) == SubSeq(s, 1, n)

LEMMA JoinsFirst ==
    ASSUME NEW s \in Seq(Bytes), NEW part, NEW n \in Nat, NEW cat, Joins(cat, s, part, n),
           NEW off \in Nat, off <= Len(s)
    PROVE  First(cat, off) = First(s, off)
<1>1. Len(s) \in Nat
  BY LenProperties
<1>2. cat \in Seq(Bytes) /\ off <= Len(cat)
  BY <1>1 DEF Joins
<1>3. PICK a : a = SubSeq(cat, 1, off)
  OBVIOUS
<1>4. PICK b : b = SubSeq(s, 1, off)
  OBVIOUS
<1>5. a \in Seq(Bytes) /\ Len(a) = off /\ \A i \in 1 .. off : a[i] = cat[i]
  BY <1>2, <1>3, Prefix
<1>6. b \in Seq(Bytes) /\ Len(b) = off /\ \A i \in 1 .. off : b[i] = s[i]
  BY <1>4, Prefix
<1>7. ASSUME NEW i \in 1 .. off PROVE a[i] = b[i]
  <2>1. i \in 1 .. Len(s) + n /\ i <= Len(s)
    BY <1>1
  <2>2. cat[i] = s[i]
    BY <2>1 DEF Joins
  <2> QED BY <1>5, <1>6, <2>2
<1>8. a = b
  BY <1>5, <1>6, <1>7, SeqEqual
<1> QED BY <1>3, <1>4, <1>8 DEF First

LEMMA JoinsRead ==
    ASSUME NEW f \in PeerFrames, NEW s \in Seq(Bytes), NEW part, NEW cat,
           NEW off \in Nat, NEW pos \in Nat, NEW n \in Nat, off + pos = Len(s),
           Joins(cat, s, part, n), NextBytes(f, pos, n, part),
           Reads(s, off, pos, f)
    PROVE  Reads(cat, off, pos + n, f)
<1> DEFINE len == Len(s)
<1>1. len \in Nat
  BY LenProperties
<1>2. /\ cat \in Seq(Bytes) /\ Len(cat) = len + n
      /\ \A i \in 1 .. len + n : cat[i] = IF i <= len THEN s[i] ELSE part[i - len]
  BY DEF Joins
<1>3. off + pos = len
  OBVIOUS
<1> HIDE DEF len
<1>4. ASSUME NEW i \in 1 .. pos + n
      PROVE  cat[off + i] = Masked(f)[i]
  <2> DEFINE j == off + i
             k == i - pos
  <2>1. /\ j \in 1 .. len + n
        /\ \/ i \in 1 .. pos /\ j <= len
           \/ ~(j <= len) /\ k \in 1 .. n /\ j - len = k /\ pos + k = i
    BY <1>1, <1>3, Position
  <2>2. i \in 1 .. pos => s[j] = Masked(f)[i]
    BY DEF Reads
  <2> HIDE DEF j, k
  <2>3. cat[j] = IF j <= len THEN s[j] ELSE part[j - len]
    BY <1>2, <2>1
  <2>4. k \in 1 .. n => part[k] = Masked(f)[pos + k]
    BY DEF NextBytes
  <2>5. cat[j] = Masked(f)[i]
    BY <2>1, <2>2, <2>3, <2>4
  <2> QED BY <2>5 DEF j
<1> QED BY <1>4 DEF Reads

\* n bytes of the payload may follow the pos that m has.
Room(m, f, pos, n) == pos = m.buflen /\ pos + n <= Len(f.payload)

\* r is m with the payload cat, len of it the current frame's.
With(r, m, cat, len) == r = [m EXCEPT !.payload = cat, !.buflen = len]

\* part, the next n bytes of the payload, is appended in its place.
LEMMA AppendedPart ==
    ASSUME NEW f \in PeerFrames, NEW m \in WSMessage, Held(m, f),
           NEW pos \in Nat, NEW n \in Nat, Room(m, f, pos, n),
           NEW part, NextBytes(f, pos, n, part),
           NEW cat, Joins(cat, m.payload, part, n),
           NEW r, With(r, m, cat, pos + n)
    PROVE  /\ r \in WSMessage /\ Held(r, f) /\ r.buflen = pos + n
           /\ r.fragmented = m.fragmented /\ r.opcode = m.opcode
           /\ Clear(r) = Clear(m)
<1> DEFINE off == MaskOffset(m)
           len == Len(m.payload)
           all == Len(f.payload)
           s == m.payload
<1>1. s \in Seq(Bytes) /\ len \in Nat /\ all \in Nat /\ m.size \in Nat
  BY PeerFrameType, LenProperties DEF WSMessage
<1>2. /\ off \in Nat /\ off + pos = len /\ len + all - pos <= m.size
      /\ ~m.fragmented => len = pos
  BY <1>1 DEF Held, MaskOffset, Room
<1>3. cat \in Seq(Bytes) /\ Len(cat) = len + n /\ pos + n \in Nat /\ pos + n <= all
  BY DEF Joins, Room
<1>4. /\ r \in WSMessage /\ r.payload = cat /\ r.buflen = pos + n /\ r.size = m.size
      /\ r.fragmented = m.fragmented /\ r.opcode = m.opcode
  <2>1. PICK t \in Nat : t = pos + n
    BY <1>3
  <2>2. r = [m EXCEPT !.payload = cat, !.buflen = t]
    BY <2>1 DEF With
  <2>3. /\ r \in WSMessage /\ r.payload = cat /\ r.buflen = t /\ r.size = m.size
        /\ r.fragmented = m.fragmented /\ r.opcode = m.opcode
    BY <1>3, <2>2 DEF WSMessage
  <2> QED BY <2>1, <2>3
<1>5. Reads(s, off, pos, f)
  BY DEF Held, Reads, Room
<1>6. MaskOffset(r) = off
  <2>1. MaskOffset(r) = Len(cat) - (pos + n)
    BY <1>4 DEF MaskOffset
  <2> HIDE DEF off, len
  <2> QED BY <1>1, <1>2, <1>3, <2>1
<1>7. Reads(cat, off, pos + n, f) /\ First(cat, off) = First(s, off)
  <2>1. PICK o \in Nat : o = off
    BY <1>2
  <2>2. PICK t \in Seq(Bytes) : t = s
    BY <1>1
  <2>3. o + pos = Len(t) /\ Joins(cat, t, part, n) /\ Reads(t, o, pos, f)
    BY <1>2, <1>5, <2>1, <2>2
  <2>4. Reads(cat, o, pos + n, f)
    BY <2>3, JoinsRead
  <2>5. First(cat, o) = First(t, o)
    <3>1. o <= Len(t)
      BY <2>3
    <3> QED BY <2>3, <3>1, JoinsFirst
  <2> QED BY <2>1, <2>2, <2>4, <2>5
<1>8. Held(r, f)
  <2>1. /\ pos + n <= len + n /\ len + n + all - (pos + n) <= m.size
        /\ len = pos => len + n = pos + n
    <3> HIDE DEF off, len, all
    <3> QED BY <1>1, <1>2
  <2>2. /\ r.buflen <= Len(f.payload) /\ r.buflen <= Len(r.payload)
        /\ Len(r.payload) + Len(f.payload) - r.buflen <= r.size
        /\ ~r.fragmented => Len(r.payload) = r.buflen
    <3> HIDE DEF off, len
    <3> QED BY <1>2, <1>3, <1>4, <2>1
  <2>3. \A i \in 1 .. r.buflen : r.payload[MaskOffset(r) + i] = Masked(f)[i]
    <3> HIDE DEF off
    <3> QED BY <1>4, <1>6, <1>7 DEF Reads
  <2> QED BY <2>2, <2>3 DEF Held
<1>9. Clear(r) = Clear(m)
  BY <1>4, <1>6, <1>7 DEF Clear, First
<1> QED BY <1>4, <1>8, <1>9

\* What recv() hands over of the payload.
Following(f, pos, n) == SubSeq(Masked(f), pos + 1, pos + n)

LEMMA PartRead ==
    ASSUME NEW f \in PeerFrames, NEW pos \in Nat, NEW n \in Nat, pos + n <= Len(f.payload),
           NEW part, part = Following(f, pos, n)
    PROVE  part \in Seq(Bytes) /\ Len(part) = n /\ NextBytes(f, pos, n, part)
<1>1. Masked(f) \in Seq(Bytes) /\ Len(Masked(f)) = Len(f.payload)
  BY MaskedType
<1>2. /\ part \in Seq(Bytes) /\ Len(part) = n
      /\ \A i \in 1 .. n : part[i] = Masked(f)[pos + i]
  <2>1. PICK p : p = SubSeq(Masked(f), pos + 1, pos + n)
    OBVIOUS
  <2>2. /\ p \in Seq(Bytes) /\ Len(p) = n
        /\ \A i \in 1 .. n : p[i] = Masked(f)[pos + i]
    BY <1>1, <2>1, Slice
  <2> QED BY <2>1, <2>2 DEF Following
<1> QED BY <1>2 DEF NextBytes

LEMMA JoinsConcat ==
    ASSUME NEW s \in Seq(Bytes), NEW part \in Seq(Bytes), NEW n, n = Len(part)
    PROVE  Joins(s \o part, s, part, n)
BY ConcatProperties DEF Joins

\* r is m with the next n bytes of the payload of f.
Grown(r, m, f, pos, n) ==
    r = [m EXCEPT !.payload = @ \o SubSeq(Masked(f), pos + 1, pos + n), !.buflen = @ + n]

\* A further part of the payload is appended in its place.
LEMMA Appended ==
    ASSUME NEW f \in PeerFrames, NEW m \in WSMessage, Held(m, f),
           NEW pos \in Nat, NEW n \in Nat, Room(m, f, pos, n), NEW r, Grown(r, m, f, pos, n)
    PROVE  /\ r \in WSMessage /\ Held(r, f) /\ r.buflen = pos + n
           /\ r.fragmented = m.fragmented /\ r.opcode = m.opcode
           /\ Clear(r) = Clear(m)
<1>1. m.payload \in Seq(Bytes) /\ pos + n <= Len(f.payload)
  BY DEF WSMessage, Room
<1>2. PICK part : part = Following(f, pos, n)
  OBVIOUS
<1>3. part \in Seq(Bytes) /\ Len(part) = n /\ NextBytes(f, pos, n, part)
  BY <1>1, <1>2, PartRead
<1>4. PICK cat : cat = m.payload \o part
  OBVIOUS
<1>5. Joins(cat, m.payload, part, n)
  BY <1>1, <1>3, <1>4, JoinsConcat
<1>6. With(r, m, cat, pos + n)
  BY <1>2, <1>4 DEF With, Grown, Room, Following
<1> QED BY <1>3, <1>5, <1>6, AppendedPart

-----------------------------------------------------------------------------
(* The actions *)

\* m is message, but for the buffer and the bytes of the frame on the wire.
Like(m) == /\ m \in WSMessage /\ Held(m, wire)
           /\ m.fragmented = message.fragmented
           /\ m.opcode = message.opcode
           /\ Clear(m) = Clear(message)

LEMMA PayloadReadHandled ==
    ASSUME TypeOK, status = "open", wire \in PeerFrames, NEW m, Like(m), PayloadRead(m)
    PROVE  /\ status' \in {"open", "closed", "refused", "failed"}
           /\ message' \in WSMessage /\ delivered' \in Seq(Whole)
           /\ pongs' \in Seq(Seq(Bytes)) /\ frame' \in WSFrame
           /\ Messages!Next \/ UNCHANGED Messages!vars
           /\ \/ /\ m.buflen = Len(wire.payload) /\ frame' = new_wsframe
                 /\ status' = "open" => Idle(message') /\ FrameStep(wire)
                 /\ status' = "refused" => ~Allowed(Partial, wire)
              \/ /\ m.buflen # Len(wire.payload) /\ m.buflen <= Len(wire.payload)
                 /\ frame' = [reading |-> FALSE, buflen |-> 0]
                 /\ message' = m /\ Held(m, wire) /\ status' = status
                 /\ UNCHANGED Messages!vars
<1>1. new_wsframe \in WSFrame /\ [reading |-> FALSE, buflen |-> 0] \in WSFrame
  BY DEF new_wsframe, WSFrame
<1>2. CASE m.buflen = Len(wire.payload) /\ ws_manage_payload_opcode(m) /\ frame' = new_wsframe
  <2>1. Complete(m)
    BY <1>2 DEF Like, Complete
  <2>2. Handled
    BY <1>2, <2>1, OpcodeHandled
  <2>3. Messages!Next
    BY <2>2, EndStep, FrameStepNext DEF Handled
  <2> QED BY <1>1, <1>2, <2>2, <2>3 DEF Handled
<1>3. CASE /\ m.buflen # Len(wire.payload) /\ message' = m
           /\ frame' = [reading |-> FALSE, buflen |-> 0]
           /\ UNCHANGED <<status, delivered, pongs>>
  <2>1. UNCHANGED Messages!vars
    BY <1>3, StutterStep DEF Like
  <2>2. m.buflen <= Len(wire.payload)
    BY DEF Like, Held
  <2> QED BY <1>1, <1>3, <2>1, <2>2 DEF Like, TypeOK
<1> QED BY <1>2, <1>3 DEF PayloadRead

\* What recv() leaves on the wire.
LEMMA RecvDone ==
    ASSUME wire \in PeerFrames, taken \in Nat, NEW n, NEW need \in Nat, Recv(n, need)
    PROVE  /\ n \in Nat /\ n <= need /\ n > 0 /\ UNCHANGED peer
           /\ wire' \in PeerFrames \cup {Nothing} /\ taken' \in Nat
           /\ taken + n <= FrameSize(wire)
           /\ taken + n = FrameSize(wire) => wire' = Nothing /\ taken' = 0
           /\ taken + n # FrameSize(wire) => wire' = wire /\ taken' = taken + n
<1>1. FrameSize(wire) \in Nat
  BY PeerFrameType DEF FrameSize
<1> QED BY <1>1 DEF Recv

\* What the peer meant is what the server has, once it has handled the frame on
\* the wire, which the peer may send at this point.
Agrees ==
    (peer.conforms /\ ~peer.ponged) =>
        /\ status = "refused" => wire # Nothing /\ Len(wire.payload) > max_frm_size
        /\ (status = "open" /\ wire = Nothing) =>
              peer.sending = Partial /\ peer.asked = delivered
        /\ (status = "open" /\ wire # Nothing) =>
              /\ Allowed(Partial, wire)
              /\ wire.opcode = "PONG" => Partial = Nothing
              /\ peer.sending = IF ~IsData(wire) THEN Partial
                                ELSE IF wire.fin THEN Nothing ELSE Extended(Partial, wire)
              /\ peer.asked = IF IsData(wire) /\ wire.fin
                              THEN Append(delivered, Extended(Partial, wire)) ELSE delivered

Sound == /\ ReaderInv'
         /\ Messages!Next \/ UNCHANGED Messages!vars
         /\ Agrees => Agrees'

\* A frame that is handled makes the server's messages the peer's.
LEMMA FrameAgrees ==
    ASSUME Agrees, status = "open", wire \in PeerFrames, wire' = Nothing, UNCHANGED peer,
           status' = "open" => FrameStep(wire),
           status' = "refused" => ~Allowed(Partial, wire)
    PROVE  Agrees'
<1>1. SUFFICES ASSUME peer.conforms, ~peer.ponged
               PROVE  /\ status' # "refused"
                      /\ status' = "open" => peer.sending = Partial' /\ peer.asked = delivered'
  BY DEF Agrees
<1>2. wire # Nothing
  BY PeerFrameType
<1>3. /\ Allowed(Partial, wire)
      /\ wire.opcode = "PONG" => Partial = Nothing
      /\ peer.sending = IF ~IsData(wire) THEN Partial
                        ELSE IF wire.fin THEN Nothing ELSE Extended(Partial, wire)
      /\ peer.asked = IF IsData(wire) /\ wire.fin
                      THEN Append(delivered, Extended(Partial, wire)) ELSE delivered
  BY <1>1, <1>2 DEF Agrees
<1>4. status' # "refused"
  BY <1>3
<1>5. CASE Messages!Start(wire) \/ Messages!Continue(wire)
  <2>1. CASE Messages!Start(wire)
    <3>1. Extended(Partial, wire) = [opcode |-> wire.opcode, payload |-> wire.payload]
      BY <2>1 DEF Messages!Start, Extended
    <3> QED BY <1>3, <1>4, <2>1, <3>1 DEF Messages!Start, Messages!Joined, IsData
  <2>2. CASE Messages!Continue(wire)
    <3>1. Extended(Partial, wire) = [Partial EXCEPT !.payload = @ \o wire.payload]
      BY <2>2 DEF Messages!Continue, Extended
    <3> QED BY <1>3, <1>4, <2>2, <3>1 DEF Messages!Continue, Messages!Joined, IsData
  <2> QED BY <1>5, <2>1, <2>2
<1>6. CASE Messages!Ping(wire) \/ Messages!Pong(wire)
  BY <1>3, <1>4, <1>6 DEF Messages!Ping, Messages!Pong, IsData
<1> QED BY <1>4, <1>5, <1>6 DEF FrameStep

\* Nor does one that is on its way still.
LEMMA SameAgrees ==
    ASSUME Agrees, UNCHANGED <<wire, peer, status>>, UNCHANGED Messages!vars
    PROVE  Agrees'
<1>1. Partial' = Partial /\ delivered' = delivered
  BY DEF Messages!vars
<1> QED BY <1>1 DEF Agrees, Allowed, IsData, Extended

\* An end that is no refusal, or that the size of the frame is the reason of.
LEMMA EndAgrees ==
    ASSUME status' # "open",
           status' = "refused" => \/ wire' # Nothing /\ Len(wire'.payload) > max_frm_size
                                  \/ ~peer'.conforms
    PROVE  Agrees'
BY DEF Agrees

LEMMA NeedType ==
    ASSUME NEW f \in PeerFrames, NEW buflen \in Nat, buflen < HeaderSize(f)
    PROVE  Need(f, buflen) \in Nat /\ buflen + Need(f, buflen) <= HeaderSize(f)
<1> DEFINE ends == {end \in {2, 2 + f.extended, HeaderSize(f)} : end > buflen}
<1>1. f.extended \in Nat /\ HeaderSize(f) = 2 + f.extended + 4
  BY PeerFrameType DEF HeaderSize
<1>2. PICK least \in ends : \A end \in ends : least <= end
  <2>1. HeaderSize(f) \in ends
    BY <1>1
  <2>2. CASE 2 > buflen
    BY <1>1, <2>2
  <2>3. CASE ~(2 > buflen) /\ 2 + f.extended > buflen
    BY <1>1, <2>3
  <2>4. CASE ~(2 > buflen) /\ ~(2 + f.extended > buflen)
    BY <1>1, <2>4
  <2> QED BY <2>2, <2>3, <2>4
<1>3. Min(ends) = least
  <2>1. \A x \in ends : (\A y \in ends : x <= y) => x = least
    BY <1>1, <1>2
  <2> HIDE DEF ends
  <2> QED BY <1>2, <2>1 DEF Min
<1>4. least \in Nat /\ least > buflen /\ least <= HeaderSize(f)
  BY <1>1, <1>2
<1> QED BY <1>1, <1>3, <1>4 DEF Need

\* The frame's bytes are all read, or more of its payload is due.
LEMMA PayloadReadSynced ==
    ASSUME TypeOK, status = "open", wire \in PeerFrames, NEW m, Like(m), PayloadRead(m),
           NEW n, NEW need \in Nat, Recv(n, need),
           taken + n = HeaderSize(wire) + m.buflen
    PROVE  Sound
<1>1. /\ taken \in Nat /\ HeaderSize(wire) \in Nat /\ m.buflen \in Nat /\ Len(wire.payload) \in Nat
      /\ FrameSize(wire) = HeaderSize(wire) + Len(wire.payload) /\ wire # Nothing
  BY PeerFrameType DEF TypeOK, FrameSize, Like, WSMessage
<1>2. /\ n \in Nat /\ UNCHANGED peer
      /\ wire' \in PeerFrames \cup {Nothing} /\ taken' \in Nat
      /\ taken + n = FrameSize(wire) => wire' = Nothing /\ taken' = 0
      /\ taken + n # FrameSize(wire) => wire' = wire /\ taken' = taken + n
  BY <1>1, RecvDone
<1>3. /\ status' \in {"open", "closed", "refused", "failed"}
      /\ message' \in WSMessage /\ delivered' \in Seq(Whole)
      /\ pongs' \in Seq(Seq(Bytes)) /\ frame' \in WSFrame
      /\ Messages!Next \/ UNCHANGED Messages!vars
      /\ \/ /\ m.buflen = Len(wire.payload) /\ frame' = new_wsframe
            /\ status' = "open" => Idle(message') /\ FrameStep(wire)
            /\ status' = "refused" => ~Allowed(Partial, wire)
         \/ /\ m.buflen # Len(wire.payload) /\ m.buflen <= Len(wire.payload)
            /\ frame' = [reading |-> FALSE, buflen |-> 0]
            /\ message' = m /\ Held(m, wire) /\ status' = status
            /\ UNCHANGED Messages!vars
  BY PayloadReadHandled
<1>4. TypeOK'
  BY <1>2, <1>3 DEF TypeOK
<1>5. CASE /\ m.buflen = Len(wire.payload) /\ frame' = new_wsframe
           /\ status' = "open" => Idle(message') /\ FrameStep(wire)
           /\ status' = "refused" => ~Allowed(Partial, wire)
  <2>1. wire' = Nothing /\ taken' = 0
    BY <1>1, <1>2, <1>5
  <2>2. Synced'
    BY <1>3, <1>5, <2>1 DEF Synced
  <2>3. Agrees => Agrees'
    BY <1>2, <1>5, <2>1, FrameAgrees
  <2> QED BY <1>3, <1>4, <2>2, <2>3 DEF Sound, ReaderInv
<1>6. CASE /\ m.buflen # Len(wire.payload) /\ m.buflen <= Len(wire.payload)
           /\ frame' = [reading |-> FALSE, buflen |-> 0]
           /\ message' = m /\ Held(m, wire) /\ status' = status
           /\ UNCHANGED Messages!vars
  <2>1. m.buflen < Len(wire.payload) /\ taken + n # FrameSize(wire)
    BY <1>1, <1>2, <1>6
  <2>2. wire' = wire /\ taken' = HeaderSize(wire) + m.buflen
    BY <1>2, <2>1
  <2>3. Held(message', wire')
    BY <1>6, <2>2 DEF Held, MaskOffset, Masked, ws_unmask_payload
  <2>4. Synced'
    BY <1>1, <1>6, <2>1, <2>2, <2>3 DEF Synced, HeaderSize
  <2>5. Agrees => Agrees'
    BY <1>2, <1>6, <2>2, SameAgrees
  <2> QED BY <1>3, <1>4, <2>4, <2>5 DEF Sound, ReaderInv
<1> QED BY <1>3, <1>5, <1>6

\* A step that ends the connection.
LEMMA EndSound ==
    ASSUME TypeOK, status = "open", NEW how \in {"closed", "refused", "failed"}, End(how),
           frame' \in WSFrame, wire' \in PeerFrames \cup {Nothing}, taken' \in Nat,
           UNCHANGED peer, how = "refused" => (Agrees => Agrees')
    PROVE  Sound
<1>1. status' = how /\ status' # "open" /\ UNCHANGED <<message, delivered, pongs>>
  BY DEF End
<1>2. ReaderInv'
  BY <1>1 DEF ReaderInv, Synced, TypeOK
<1>3. Messages!Next
  BY <1>1, EndStep
<1>4. Agrees => Agrees'
  BY <1>1, EndAgrees
<1> QED BY <1>2, <1>3, <1>4 DEF Sound

LEMMA HeaderSound ==
    ASSUME ReaderInv, NEW n, ws_get_frm_header(n)
    PROVE  Sound
<1> DEFINE got == frame.buflen + n
           need == Need(wire, frame.buflen)
           len == Len(wire.payload)
<1>1. /\ TypeOK /\ status = "open" /\ wire # Nothing /\ wire \in PeerFrames /\ frame.reading
      /\ Recv(n, need)
  BY DEF ws_get_frm_header, Readable, ReaderInv, TypeOK
<1>2. /\ taken = frame.buflen /\ frame.buflen < HeaderSize(wire) /\ Idle(message)
      /\ taken \in Nat /\ frame.buflen \in Nat /\ message \in WSMessage /\ frame \in WSFrame
  BY <1>1 DEF ReaderInv, Synced, TypeOK, WSFrame
<1>3. need \in Nat /\ frame.buflen + need <= HeaderSize(wire)
  BY <1>1, <1>2, NeedType
<1>4. /\ n \in Nat /\ n <= need /\ n > 0 /\ UNCHANGED peer
      /\ wire' \in PeerFrames \cup {Nothing} /\ taken' \in Nat
      /\ taken + n # FrameSize(wire) => wire' = wire /\ taken' = taken + n
  <2> HIDE DEF need
  <2> QED BY <1>1, <1>2, <1>3, RecvDone
<1>5. HeaderSize(wire) \in Nat /\ len \in Nat /\ FrameSize(wire) = HeaderSize(wire) + len
  BY <1>1, PeerFrameType DEF FrameSize
<1>6. CASE /\ End("refused") /\ UNCHANGED frame
           /\ ~wire.valid \/ (got = HeaderSize(wire) /\ len > max_frm_size)
  <2>1. Agrees => Agrees'
    <3>1. CASE got = HeaderSize(wire) /\ len > max_frm_size
      <4>1. taken + n # FrameSize(wire)
        BY <1>2, <1>4, <1>5, <3>1, LimitsAssumption
      <4>2. wire' = wire
        BY <1>4, <4>1
      <4> QED BY <1>1, <1>6, <3>1, <4>2, EndAgrees DEF End
    <3>2. CASE ~wire.valid
      <4>1. Agrees => ~(peer.conforms /\ ~peer.ponged)
        BY <1>1, <3>2 DEF Agrees, Allowed
      <4> QED BY <1>4, <4>1 DEF Agrees
    <3> QED BY <1>6, <3>1, <3>2
  <2> QED BY <1>1, <1>2, <1>4, <1>6, <2>1, EndSound
<1>7. CASE /\ got < HeaderSize(wire) /\ frame' = [frame EXCEPT !.buflen = got]
           /\ UNCHANGED <<message, status, delivered, pongs>>
  <2>1. taken + n # FrameSize(wire) /\ got \in Nat
    BY <1>2, <1>4, <1>5, <1>7
  <2>2. wire' = wire /\ taken' = got
    BY <1>2, <1>4, <2>1
  <2> HIDE DEF got
  <2>3. frame' \in WSFrame /\ frame'.reading /\ frame'.buflen = got
    BY <1>1, <1>2, <1>7, <2>1 DEF WSFrame
  <2>4. TypeOK'
    BY <1>1, <1>4, <1>7, <2>3 DEF TypeOK
  <2>5. Idle(message')
    BY <1>2, <1>7 DEF Idle
  <2>6. Synced'
    BY <1>1, <1>7, <2>2, <2>3, <2>5 DEF Synced, HeaderSize
  <2>7. UNCHANGED Messages!vars
    BY <1>1, <1>7, StutterStep
  <2>8. Agrees => Agrees'
    BY <1>4, <1>7, <2>2, <2>7, SameAgrees
  <2> QED BY <2>4, <2>6, <2>7, <2>8 DEF Sound, ReaderInv
<1>8. CASE got = HeaderSize(wire) /\ PayloadRead(Allocated(message, len))
  <2>1. PICK m : m = Allocated(message, len)
    OBVIOUS
  <2>2. /\ m \in WSMessage /\ m.buflen = message.buflen /\ m.fragmented = message.fragmented
        /\ m.opcode = message.opcode /\ Clear(m) = Clear(message)
    BY <1>2, <1>5, <2>1, AllocatedFields
  <2>3. Held(m, wire)
    BY <1>1, <1>2, <2>1, AllocatedIdle
  <2>4. Like(m) /\ PayloadRead(m)
    BY <1>8, <2>1, <2>2, <2>3 DEF Like
  <2>5. m.buflen = 0
    BY <1>2, <2>2 DEF Idle
  <2>6. taken + n = HeaderSize(wire) + m.buflen
    BY <1>2, <1>5, <1>8, <2>5
  <2> HIDE DEF need
  <2> QED BY <1>1, <1>3, <2>4, <2>6, PayloadReadSynced
<1>9. \/ /\ End("refused") /\ UNCHANGED frame
         /\ ~wire.valid \/ (got = HeaderSize(wire) /\ len > max_frm_size)
      \/ /\ got < HeaderSize(wire) /\ frame' = [frame EXCEPT !.buflen = got]
         /\ UNCHANGED <<message, status, delivered, pongs>>
      \/ got = HeaderSize(wire) /\ PayloadRead(Allocated(message, len))
  BY DEF ws_get_frm_header
<1> QED BY <1>6, <1>7, <1>8, <1>9

LEMMA PayloadSound ==
    ASSUME ReaderInv, NEW n, ws_get_frm_payload(n)
    PROVE  Sound
<1> DEFINE len == Len(wire.payload)
           need == len - message.buflen
<1>1. /\ TypeOK /\ status = "open" /\ wire # Nothing /\ wire \in PeerFrames /\ ~frame.reading
      /\ Recv(n, need)
  BY DEF ws_get_frm_payload, Readable, ReaderInv, TypeOK
<1>2. /\ taken = HeaderSize(wire) + message.buflen /\ message.buflen < len /\ Held(message, wire)
      /\ taken \in Nat /\ message \in WSMessage /\ message.buflen \in Nat
  BY <1>1 DEF ReaderInv, Synced, TypeOK, WSMessage
<1>3. HeaderSize(wire) \in Nat /\ len \in Nat
  BY <1>1, PeerFrameType
<1>4. need \in Nat
  BY <1>2, <1>3
<1>5. n \in Nat /\ n <= need
  <2> HIDE DEF need
  <2> QED BY <1>1, <1>2, <1>4, RecvDone
<1>6. PICK a : a = Allocated(message, len)
  OBVIOUS
<1>7. /\ a \in WSMessage /\ a.buflen = message.buflen /\ a.fragmented = message.fragmented
      /\ a.opcode = message.opcode /\ Clear(a) = Clear(message)
  BY <1>2, <1>3, <1>6, AllocatedFields
<1>8. Held(a, wire)
  BY <1>1, <1>2, <1>6, AllocatedHeld
<1>9. PICK pos \in Nat : pos = message.buflen
  BY <1>2
<1>10. Room(a, wire, pos, n) /\ pos = taken - HeaderSize(wire)
  BY <1>2, <1>3, <1>5, <1>7, <1>9 DEF Room
<1>11. PICK m : m = [a EXCEPT !.payload = @ \o SubSeq(Masked(wire), pos + 1, pos + n),
                              !.buflen = @ + n]
  OBVIOUS
<1>12. /\ m \in WSMessage /\ Held(m, wire) /\ m.buflen = pos + n
       /\ m.fragmented = a.fragmented /\ m.opcode = a.opcode /\ Clear(m) = Clear(a)
  <2>1. Grown(m, a, wire, pos, n)
    BY <1>11 DEF Grown
  <2> QED BY <1>1, <1>5, <1>7, <1>8, <1>10, <2>1, Appended
<1>13. PayloadRead(m)
  BY <1>6, <1>10, <1>11 DEF ws_get_frm_payload, Masked
<1>14. Like(m)
  BY <1>7, <1>12 DEF Like
<1>15. taken + n = HeaderSize(wire) + m.buflen
  BY <1>2, <1>3, <1>5, <1>9, <1>12
<1> HIDE DEF need
<1> QED BY <1>1, <1>4, <1>13, <1>14, <1>15, PayloadReadSynced

LEMMA PeerSound ==
    ASSUME ReaderInv, NEW f \in PeerFrames, PeerSends(f)
    PROVE  Sound
<1>1. /\ status = "open" /\ wire = Nothing /\ wire' = f
      /\ UNCHANGED <<taken, frame, message, status, delivered, pongs>>
  BY DEF PeerSends
<1>2. taken = 0 /\ frame = new_wsframe /\ Idle(message)
  BY <1>1, PeerFrameType DEF ReaderInv, Synced
<1>3. /\ f \in Frame /\ f # Nothing /\ f.opcode \in Opcodes /\ f.payload \in Seq(Bytes)
      /\ HeaderSize(f) \in Nat /\ HeaderSize(f) >= 6
  BY PeerFrameType
<1>4. Idle(message')
  BY <1>1, <1>2 DEF Idle
<1>5. Synced'
  BY <1>1, <1>2, <1>3, <1>4 DEF Synced, new_wsframe, HeaderSize
<1>6. peer' \in [sending : Whole \cup {Nothing}, asked : Seq(Whole),
                 conforms : BOOLEAN, ponged : BOOLEAN, frames : Nat]
  <2> DEFINE whole == Extended(peer.sending, f)
  <2>1. peer \in [sending : Whole \cup {Nothing}, asked : Seq(Whole),
                  conforms : BOOLEAN, ponged : BOOLEAN, frames : Nat]
    BY DEF ReaderInv, TypeOK
  <2>2. whole \in Whole
    <3>1. CASE peer.sending = Nothing
      BY <1>3, <3>1 DEF Extended, Whole
    <3>2. CASE peer.sending \in Whole
      <4>1. PICK s : s = peer.sending
        OBVIOUS
      <4>2. PICK cat \in Seq(Bytes) : cat = s.payload \o f.payload
        BY <1>3, <3>2, <4>1, ConcatProperties DEF Whole
      <4>3. [s EXCEPT !.payload = cat] \in Whole
        BY <3>2, <4>1, <4>2 DEF Whole
      <4>4. whole = [s EXCEPT !.payload = cat]
        BY <3>2, <4>1, <4>2, NothingAssumption DEF Extended
      <4> QED BY <4>3, <4>4
    <3> QED BY <2>1, <3>1, <3>2
  <2> HIDE DEF whole
  <2>3. Append(peer.asked, whole) \in Seq(Whole)
    BY <2>1, <2>2, AppendType
  <2>4. peer' = [sending  |-> IF IsData(f) THEN IF f.fin THEN Nothing ELSE whole
                                          ELSE peer.sending,
                 asked    |-> IF IsData(f) /\ f.fin THEN Append(peer.asked, whole)
                                                   ELSE peer.asked,
                 conforms |-> peer.conforms /\ Allowed(peer.sending, f),
                 ponged   |-> peer.ponged \/ (f.opcode = "PONG" /\ peer.sending # Nothing),
                 frames   |-> peer.frames + 1]
    BY DEF PeerSends, whole
  <2>5. (IF IsData(f) THEN IF f.fin THEN Nothing ELSE whole ELSE peer.sending)
           \in Whole \cup {Nothing}
    BY <2>1, <2>2
  <2>6. (IF IsData(f) /\ f.fin THEN Append(peer.asked, whole) ELSE peer.asked) \in Seq(Whole)
    BY <2>1, <2>3
  <2>7. peer.frames + 1 \in Nat
    BY <2>1
  <2>8. /\ (peer.conforms /\ Allowed(peer.sending, f)) \in BOOLEAN
        /\ (peer.ponged \/ (f.opcode = "PONG" /\ peer.sending # Nothing)) \in BOOLEAN
    OBVIOUS
  <2> QED BY <2>4, <2>5, <2>6, <2>7, <2>8
<1>7. TypeOK'
  BY <1>1, <1>6 DEF TypeOK, ReaderInv
<1>8. UNCHANGED Messages!vars
  BY <1>1 DEF Messages!vars, Partial, Clear, MaskOffset
<1>9. Agrees => Agrees'
  <2>1. Partial' = Partial /\ delivered' = delivered
    BY <1>1, <1>8 DEF Messages!vars
  <2>2. SUFFICES ASSUME Agrees, peer'.conforms, ~peer'.ponged
                 PROVE  /\ Allowed(Partial, f)
                        /\ f.opcode = "PONG" => Partial = Nothing
                        /\ peer'.sending = IF ~IsData(f) THEN Partial
                                           ELSE IF f.fin THEN Nothing ELSE Extended(Partial, f)
                        /\ peer'.asked = IF IsData(f) /\ f.fin
                                         THEN Append(delivered, Extended(Partial, f))
                                         ELSE delivered
    BY <1>1, <1>3, <2>1 DEF Agrees, Allowed, IsData, Extended
  <2>3. /\ peer'.sending = IF IsData(f) THEN IF f.fin THEN Nothing
                                             ELSE Extended(peer.sending, f)
                                        ELSE peer.sending
        /\ peer'.asked = IF IsData(f) /\ f.fin
                         THEN Append(peer.asked, Extended(peer.sending, f)) ELSE peer.asked
        /\ peer.conforms /\ Allowed(peer.sending, f)
        /\ ~peer.ponged /\ ~(f.opcode = "PONG" /\ peer.sending # Nothing)
    BY <2>2 DEF PeerSends
  <2>4. peer.sending = Partial /\ peer.asked = delivered
    BY <1>1, <2>2, <2>3 DEF Agrees
  <2> QED BY <2>3, <2>4
<1> QED BY <1>5, <1>7, <1>8, <1>9 DEF Sound, ReaderInv

LEMMA FailsSound ==
    ASSUME ReaderInv, ReadFails
    PROVE  Sound
BY EndSound DEF ReadFails, ReaderInv, TypeOK

LEMMA InitSound ==
    ASSUME Init
    PROVE  ReaderInv /\ Messages!Init /\ Agrees
<1>1. /\ new_wsmessage \in WSMessage /\ Idle(new_wsmessage) /\ ~new_wsmessage.fragmented
  BY NewMessage
<1>2. <<>> \in Seq(Whole) /\ <<>> \in Seq(Seq(Bytes))
  BY EmptySeq
<1>3. new_wsframe \in WSFrame
  BY DEF new_wsframe, WSFrame
<1>4. TypeOK
  BY <1>1, <1>2, <1>3 DEF Init, TypeOK
<1>5. Synced
  BY <1>1 DEF Init, Synced
<1>6. Messages!Init
  BY <1>1 DEF Init, Messages!Init, Partial
<1>7. Agrees
  BY <1>1 DEF Init, Agrees, Partial
<1> QED BY <1>4, <1>5, <1>6, <1>7 DEF ReaderInv

LEMMA StepSound ==
    ASSUME ReaderInv, [Next]_vars
    PROVE  Sound
<1>1. CASE \E f \in PeerFrames : PeerSends(f)
  BY <1>1, PeerSound
<1>2. CASE \E n \in 1 .. LongestFrame : ws_get_frm_header(n)
  BY <1>2, HeaderSound
<1>3. CASE \E n \in 1 .. LongestFrame : ws_get_frm_payload(n)
  BY <1>3, PayloadSound
<1>4. CASE ReadFails
  BY <1>4, FailsSound
<1>5. CASE UNCHANGED vars
  <2>1. /\ wire' = wire /\ taken' = taken /\ frame' = frame /\ message' = message
        /\ status' = status /\ delivered' = delivered /\ pongs' = pongs /\ peer' = peer
    BY <1>5 DEF vars
  <2>2. TypeOK'
    BY <2>1 DEF TypeOK, ReaderInv
  <2>3. Synced'
    BY <2>1 DEF ReaderInv, Synced, Idle, Held, MaskOffset, Masked, ws_unmask_payload, HeaderSize
  <2>4. UNCHANGED Messages!vars
    BY <2>1 DEF Messages!vars, Partial, Clear, MaskOffset
  <2>5. Agrees => Agrees'
    BY <2>1, <2>4, SameAgrees
  <2> QED BY <2>2, <2>3, <2>4, <2>5 DEF Sound, ReaderInv
<1> QED BY <1>1, <1>2, <1>3, <1>4, <1>5 DEF Next

LEMMA InvariantSound ==
    ASSUME ReaderInv
    PROVE  TypeOK /\ InStep /\ Fits
<1>1. TypeOK
  BY DEF ReaderInv
<1>2. InStep
  <2>1. status = "open" =>
           \/ wire = Nothing /\ frame = new_wsframe /\ message.buflen = 0
           \/ wire # Nothing /\ frame.reading /\ taken = frame.buflen
           \/ /\ wire # Nothing /\ ~frame.reading /\ frame.buflen = 0
              /\ taken = HeaderSize(wire) + message.buflen
    BY DEF ReaderInv, Synced, Idle
  <2>2. /\ taken \in Nat /\ message.buflen \in Nat /\ frame.buflen \in Nat
        /\ wire # Nothing => HeaderSize(wire) \in Nat
    BY PeerFrameType DEF ReaderInv, TypeOK, WSMessage, WSFrame
  <2>3. CASE status = "open" /\ wire # Nothing /\ frame.reading /\ taken = frame.buflen
    BY <2>2, <2>3 DEF InStep
  <2>4. CASE /\ status = "open" /\ wire # Nothing /\ ~frame.reading /\ frame.buflen = 0
             /\ taken = HeaderSize(wire) + message.buflen
    <3>1. taken = frame.buflen + (HeaderSize(wire) + message.buflen)
      BY <2>2, <2>4
    <3> QED BY <2>4, <3>1 DEF InStep
  <2> QED BY <2>1, <2>3, <2>4 DEF InStep
<1>3. Fits
  BY DEF ReaderInv, Synced, Fits, Held, new_wsframe
<1> QED BY <1>1, <1>2, <1>3

-----------------------------------------------------------------------------
(* The theorems *)

\* The reader's inductive invariant holds: what it has of a frame is that frame's
\* masked bytes, at the end of the message.
THEOREM ReaderInvariant == Spec => []ReaderInv
<1>1. Init => ReaderInv
  BY InitSound
<1>2. ReaderInv /\ [Next]_vars => ReaderInv'
  BY StepSound DEF Sound
<1> QED BY <1>1, <1>2, PTL DEF Spec

\* The fields of the frame and the message have their types, and the message is
\* never freed without being made anew.
THEOREM ReaderTypeCorrect == Spec => []TypeOK
<1>1. ReaderInv => TypeOK
  BY DEF ReaderInv
<1> QED BY <1>1, ReaderInvariant, PTL

\* ws_get_frm_header and ws_get_frm_payload count the bytes of the frame they read,
\* whatever the frames before it were and however recv() cut them up.
THEOREM ReaderInStep == Spec => []InStep
<1>1. ReaderInv => InStep
  BY InvariantSound
<1> QED BY <1>1, ReaderInvariant, PTL

\* What ws_get_frm_payload appends fits into what it allocated.
THEOREM BufferFits == Spec => []Fits
<1>1. ReaderInv => Fits
  BY InvariantSound
<1> QED BY <1>1, ReaderInvariant, PTL

\* A peer that keeps to RFC 6455, to the limit, and to pongs between messages, is not
\* refused, and ws_get_message hands over its messages as they were meant.
THEOREM MessagesAsMeant == Spec => []EndToEnd
<1>1. Init => ReaderInv /\ Agrees
  BY InitSound
<1>2. (ReaderInv /\ Agrees) /\ [Next]_vars => (ReaderInv /\ Agrees)'
  BY StepSound DEF Sound
<1>3. Agrees => EndToEnd
  BY DEF Agrees, EndToEnd
<1> QED BY <1>1, <1>2, <1>3, PTL DEF Spec

\* Frame by frame, ws_get_message implements the stream of messages: fragments are
\* joined in the clear, and a ping is answered with its own bytes.
THEOREM RefinesMessages == Spec => ImplementsMessages
<1>1. Init => Messages!Init
  BY InitSound
<1>2. ReaderInv /\ [Next]_vars => [Messages!Next]_(Messages!vars)
  BY StepSound DEF Sound
<1> QED BY <1>1, <1>2, ReaderInvariant, PTL DEF Spec, ImplementsMessages, Messages!Spec
=============================================================================
