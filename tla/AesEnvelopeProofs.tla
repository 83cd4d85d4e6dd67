------------------------- MODULE AesEnvelopeProofs -------------------------
(***************************************************************************)
(* Theorems about AesEnvelope, for data, buffers and envelopes of any      *)
(* length.                                                                 *)
(***************************************************************************)
EXTENDS AesEnvelope, TLAPS

\* The variables' types, with the lengths of the last receive.
EnvelopeTypes ==
    /\ mEncryptionKey \in [Sockets -> Keys \cup {NoKey}]
    /\ wire \subseteq Datagrams

\* A sealed envelope is whole blocks behind the digest, and more than the data.
LEMMA SealedSize ==
    ASSUME NEW n \in Nat
    PROVE  /\ SealSize(n) \in Nat
           /\ Openable(SealSize(n))
           /\ SealSize(n) - DigestSize - BlockSize <= n
           /\ n < SealSize(n) - DigestSize
           /\ SealSize(n) <= GetBufferSizeForPlaintextSize(n)
BY SMTT(30) DEF SealSize, Openable, UpdateSize, DigestSize, BlockSize, GetBufferSizeForPlaintextSize

\* What EVP_EncryptFinal_ex pads, EVP_DecryptFinal_ex takes off again.
LEMMA PaddingComesOff ==
    ASSUME NEW n \in Nat
    PROVE  /\ Padding(n) \in 1..BlockSize
           /\ (SealSize(n) - DigestSize - BlockSize) + (BlockSize - Padding(n)) = n
BY SMTT(30) DEF SealSize, UpdateSize, Padding, DigestSize, BlockSize

\* Seal stays inside the buffer that GetBufferSizeForPlaintextSize gives it.
LEMMA SealInBounds ==
    ASSUME NEW n \in Nat
    PROVE  \A w \in SealWrites(n) : w.end <= w.size
<1>1. /\ DigestSize <= GetBufferSizeForPlaintextSize(n)
      /\ DigestSize + UpdateSize(n) <= GetBufferSizeForPlaintextSize(n)
      /\ SealSize(n) <= GetBufferSizeForPlaintextSize(n)
  BY SMTT(30) DEF SealSize, UpdateSize, DigestSize, BlockSize, GetBufferSizeForPlaintextSize
<1> QED
  BY <1>1 DEF SealWrites, Write

\* The marks of RecvFrom stay inside the caller's buffer.
LEMMA FillInBounds ==
    ASSUME NEW cb \in Nat
    PROVE  \A w \in FillWrites(cb) : w.end <= w.size
<1> DEFINE words == IF cb \div 4 < FillLimit THEN cb \div 4 ELSE FillLimit
<1>1. words # 0 => 4 * (words - 1) + 1 <= cb
  BY SMTT(30) DEF FillLimit
<1> QED
  BY <1>1 DEF FillWrites, Write

\* Open never returns more than it was given behind the digest, less one byte
\* of padding.
LEMMA OpenedSize ==
    ASSUME NEW key, NEW datagram \in Datagrams, NEW len \in Nat,
           NEW r \in OpenResults(key, datagram, len)
    PROVE  /\ r \in Nat
           /\ Openable(len)
           /\ r < len - DigestSize
           /\ key = datagram.key /\ len = SealSize(datagram.plain) => r = datagram.plain
<1> datagram.plain \in Nat
  BY EnvelopeConstants DEF Datagrams
<1>1. PICK pad \in Paddings(key, datagram, len) :
         Openable(len) /\ r = (len - DigestSize - BlockSize) + (BlockSize - pad)
  BY DEF OpenResults
<1>2. pad \in 1..BlockSize
  BY <1>1, PaddingComesOff DEF Paddings
<1>3. len - DigestSize >= BlockSize
  BY <1>1, SMTT(30) DEF Openable, DigestSize, BlockSize
<1>4. key = datagram.key /\ len = SealSize(datagram.plain) => r = datagram.plain
  BY <1>1, PaddingComesOff DEF Paddings
<1> QED
  BY <1>1, <1>2, <1>3, <1>4 DEF DigestSize, BlockSize

\* A receive reads no more than its buffer holds, nor than was sent.
LEMMA ReadBounds ==
    ASSUME NEW datagram \in Datagrams, NEW cb \in Nat
    PROVE  /\ ReadSize(datagram, cb) \in Nat
           /\ ReadSize(datagram, cb) <= cb
           /\ ReadSize(datagram, cb) <= SealSize(datagram.plain)
<1> datagram.plain \in Nat
  BY EnvelopeConstants DEF Datagrams
<1> QED
  BY SealedSize DEF ReadSize

\* Every step keeps the keys and the datagrams in their types.
THEOREM EnvelopeTypeCorrect == Spec => []EnvelopeTypes
<1>1. Init => EnvelopeTypes
  BY DEF Init, EnvelopeTypes
<1>2. EnvelopeTypes /\ [Next]_vars => EnvelopeTypes'
  <2> SUFFICES ASSUME EnvelopeTypes, [Next]_vars PROVE EnvelopeTypes'
    OBVIOUS
  <2>1. ASSUME NEW s \in Sockets, NEW key \in Keys, SetKey(s, key) PROVE EnvelopeTypes'
    BY <2>1 DEF SetKey, EnvelopeTypes
  <2>2. ASSUME NEW s \in Sockets, NEW n \in Sizes, Send(s, n) PROVE EnvelopeTypes'
    <3>1. [key |-> mEncryptionKey[s], plain |-> n] \in Datagrams
      BY <2>2 DEF Send, EnvelopeTypes, Datagrams
    <3> QED
      BY <2>2, <3>1 DEF Send, EnvelopeTypes
  <2>3. CASE UNCHANGED <<mEncryptionKey, wire>>
    BY <2>3 DEF EnvelopeTypes
  <2> QED
    BY <2>1, <2>2, <2>3 DEF Next, Recv, RecvFrom, Receive, RecvError, vars
<1> QED
  BY <1>1, <1>2, PTL DEF Spec

\* What every receive leaves behind, whichever way it ended.
LEMMA ReceiveOutcome ==
    ASSUME EnvelopeTypes, NEW s \in Sockets, NEW datagram \in wire, NEW cb \in Buffers,
           NEW marks, \A w \in marks : w.end <= w.size,
           Receive(s, datagram, cb, marks)
    PROVE  WritesInBounds' /\ RoundTrip'
<1> DEFINE key == mEncryptionKey[s]
           len == ReadSize(datagram, cb)
<1> datagram \in Datagrams /\ cb \in Nat /\ datagram.plain \in Nat
  BY EnvelopeConstants DEF EnvelopeTypes, Datagrams
<1>1. len \in Nat /\ len <= cb /\ len <= SealSize(datagram.plain)
  BY ReadBounds
<1>2. \A w \in OpenWrites(len) : w.end <= w.size
  BY <1>1 DEF OpenWrites, Write, DigestSize
<1>3. Write(len, cb).end <= Write(len, cb).size
  BY <1>1 DEF Write
<1>4. PICK result, written :
        /\ got' = [datagram |-> datagram, key |-> key, len |-> len, result |-> result]
        /\ writes' = marks \cup {Write(len, cb)} \cup written
        /\ \/ key = NoKey /\ result = 0 /\ written = {}
           \/ /\ OpenFails(key, datagram, len)
              /\ result = 0 /\ written = OpenWrites(len)
           \/ /\ result \in OpenResults(key, datagram, len)
              /\ written = OpenWrites(len) \cup {Write(result, cb)}
  BY DEF Receive
<1>5. CASE result \in OpenResults(key, datagram, len)
           /\ written = OpenWrites(len) \cup {Write(result, cb)}
  <2>1. /\ result \in Nat
        /\ Openable(len)
        /\ result < len - DigestSize
        /\ key = datagram.key /\ len = SealSize(datagram.plain) => result = datagram.plain
    BY <1>1, <1>5, OpenedSize
  <2>2. Write(result, cb).end <= Write(result, cb).size
    BY <1>1, <2>1 DEF Write, DigestSize
  <2>3. WritesInBounds'
    BY <1>2, <1>3, <1>4, <1>5, <2>2 DEF WritesInBounds
  <2>4. RoundTrip'
    BY <1>4, <2>1 DEF RoundTrip
  <2> QED
    BY <2>3, <2>4
<1>6. CASE result = 0 /\ (written = {} \/ written = OpenWrites(len))
           /\ (key = NoKey \/ OpenFails(key, datagram, len))
  <2>1. WritesInBounds'
    BY <1>2, <1>3, <1>4, <1>6 DEF WritesInBounds
  <2>2. ~(key = datagram.key /\ len = SealSize(datagram.plain))
    BY <1>6, EnvelopeConstants, SealedSize DEF OpenFails, Datagrams
  <2>3. RoundTrip'
    BY <1>4, <2>2 DEF RoundTrip
  <2> QED
    BY <2>1, <2>3
<1> QED
  BY <1>4, <1>5, <1>6

\* The two guarantees of the envelope, for any sizes and buffers: no write leaves
\* its buffer, and a whole datagram gives its data's length back.
THEOREM EnvelopeSafe == Spec => [](WritesInBounds /\ RoundTrip)
<1> DEFINE Safe == WritesInBounds /\ RoundTrip
<1>1. Init => Safe
  BY DEF Init, WritesInBounds, RoundTrip, Opened
<1>2. EnvelopeTypes /\ Safe /\ [Next]_vars => Safe'
  <2> SUFFICES ASSUME EnvelopeTypes, Safe, [Next]_vars PROVE Safe'
    OBVIOUS
  <2>1. ASSUME NEW s \in Sockets, NEW key \in Keys, SetKey(s, key) PROVE Safe'
    BY <2>1 DEF SetKey, WritesInBounds, RoundTrip, Opened
  <2>2. ASSUME NEW s \in Sockets, NEW n \in Sizes, Send(s, n) PROVE Safe'
    <3>1. \A w \in writes' : w.end <= w.size
      BY <2>2, SealInBounds, EnvelopeConstants DEF Send
    <3> QED
      BY <2>2, <3>1 DEF Send, WritesInBounds, RoundTrip, Opened
  <2>3. ASSUME NEW s \in Sockets, NEW datagram \in wire, NEW cb \in Buffers,
               Recv(s, datagram, cb)
        PROVE  Safe'
    BY <2>3, ReceiveOutcome DEF Recv
  <2>4. ASSUME NEW s \in Sockets, NEW datagram \in wire, NEW cb \in Buffers,
               RecvFrom(s, datagram, cb)
        PROVE  Safe'
    BY <2>4, ReceiveOutcome, FillInBounds, EnvelopeConstants DEF RecvFrom
  <2>5. ASSUME NEW marks, \A w \in marks : w.end <= w.size, RecvError(marks) PROVE Safe'
    BY <2>5 DEF RecvError, WritesInBounds, RoundTrip, Opened
  <2>6. CASE RecvError({})
    BY <2>5, <2>6
  <2>7. ASSUME NEW cb \in Buffers, RecvError(FillWrites(cb)) PROVE Safe'
    BY <2>5, <2>7, FillInBounds, EnvelopeConstants
  <2>8. CASE UNCHANGED vars
    BY <2>8 DEF vars, WritesInBounds, RoundTrip, Opened
  <2> QED
    BY <2>1, <2>2, <2>3, <2>4, <2>6, <2>7, <2>8 DEF Next
<1> QED
  BY <1>1, <1>2, EnvelopeTypeCorrect, PTL DEF Spec

\* No write of Seal, Open or the receives leaves its buffer, for any sizes.
THEOREM EnvelopeInBounds == Spec => []WritesInBounds
BY EnvelopeSafe, PTL

\* Opening is the inverse of sealing as far as the length goes, for any length.
THEOREM EnvelopeRoundTrip == Spec => []RoundTrip
BY EnvelopeSafe, PTL
==================================================
