---------------------------- MODULE AesEnvelope ----------------------------
(***************************************************************************)
(* The encrypted discovery socket: OpenSSLAesAdapter seals every datagram  *)
(* it sends and opens every datagram it receives with an AesContext, one   *)
(* output buffer per socket.  Bytes are abstracted to lengths: the sizes   *)
(* of the buffers, how far each call writes into them and the length that  *)
(* reaches the caller.  The network loses, repeats and reorders datagrams, *)
(* and a receive with a short buffer cuts its datagram.                    *)
(***************************************************************************)
EXTENDS Integers, FiniteSets

CONSTANTS
    Sockets,     \* sockets that hear one another
    Keys,        \* ids that CreateEnvelope makes keys of
    NoKey,       \* mEncryptionKey is null
    Sizes,       \* bound: lengths of the data sent
    Buffers,     \* bound: lengths of the caller's receive buffers
    MaxWire      \* bound: distinct datagrams sent

ASSUME EnvelopeConstants ==
    /\ NoKey \notin Keys
    /\ Sizes \subseteq Nat /\ Buffers \subseteq Nat

DigestSize == 32   \* EVP_MD_size(EVP_sha256())
BlockSize == 16    \* EVP_CIPHER_CTX_block_size of EVP_aes_256_ecb()
SocketError == -1  \* what Recv and RecvFrom return when the socket's call fails
FillLimit == 512   \* words of the receive buffer that RecvFrom marks

VARIABLES
    mEncryptionKey,   \* [Sockets -> Keys \cup {NoKey}]
    wire,             \* datagrams sent: the key and the length they were sealed from
    writes,           \* the last call's writes: the end of each and its buffer's size
    got               \* the last datagram opened, what was read of it, and the result

vars == <<mEncryptionKey, wire, writes, got>>

Datagrams == [key : Keys, plain : Sizes]
Write(end, size) == [end |-> end, size |-> size]
NoReceipt == [result |-> SocketError]

Init ==
    /\ mEncryptionKey = [s \in Sockets |-> NoKey]
    /\ wire = {}
    /\ writes = {}
    /\ got = NoReceipt

-----------------------------------------------------------------------------
(* The envelope: a digest, then the data padded to whole blocks.           *)

\* Mutant: room for the blocks but none for the digest.
GetBufferSizeNoDigest(size) == size + 2 * BlockSize

GetBufferSizeForPlaintextSize(size) == size + DigestSize + 2 * BlockSize

\* What EVP_EncryptUpdate gives at once: the whole blocks of the data.
UpdateSize(n) == (n \div BlockSize) * BlockSize

\* Mutant: the View ends with what EVP_EncryptUpdate gave.
SealSizeUpdateOnly(n) == DigestSize + UpdateSize(n)

\* The View that Seal returns: EVP_EncryptFinal_ex always adds one block.
SealSize(n) == DigestSize + UpdateSize(n) + BlockSize

\* Seal writes the digest, the whole blocks behind it and the last block.
SealWrites(n) ==
    LET size == GetBufferSizeForPlaintextSize(n)
    IN  {Write(DigestSize, size), Write(DigestSize + UpdateSize(n), size),
         Write(SealSize(n), size)}

\* The padding that EVP_EncryptFinal_ex appends to data of n bytes.
Padding(n) == BlockSize - (n % BlockSize)

\* EVP_DecryptFinal_ex refuses anything but whole blocks, one at least.
Openable(len) ==
    len > DigestSize /\ (len - DigestSize) % BlockSize = 0

\* The padding that the last block decrypts to, when it is a valid one.  The
\* digest is not compared, so what is decrypted with another key, or from a
\* part of the datagram, passes with whatever padding it happens to end in.
Paddings(key, datagram, len) ==
    IF key = datagram.key /\ len = SealSize(datagram.plain)
    THEN {Padding(datagram.plain)}
    ELSE 1..BlockSize

\* Lengths that Open can return for the first len bytes of a datagram: what
\* EVP_DecryptUpdate gives, all blocks but the last, and what
\* EVP_DecryptFinal_ex leaves of the last.
OpenResults(key, datagram, len) ==
    {(len - DigestSize - BlockSize) + (BlockSize - pad) :
        pad \in {p \in Paddings(key, datagram, len) : Openable(len)}}

\* Whether Open can return an error.
OpenFails(key, datagram, len) ==
    \/ ~Openable(len)
    \/ key # datagram.key
    \/ len # SealSize(datagram.plain)

\* EVP_DecryptUpdate writes at most what it is given; the buffer has the
\* envelope's length.
OpenWrites(len) == IF len < DigestSize THEN {} ELSE {Write(len - DigestSize, len)}

-----------------------------------------------------------------------------
(* The socket.                                                             *)

\* CreateEnvelope may fail, which changes nothing.
SetKey(s, key) ==
    /\ mEncryptionKey' = [mEncryptionKey EXCEPT ![s] = key]
    /\ UNCHANGED <<wire, writes, got>>

\* Send and SendTo; without a key nothing is sent.
Send(s, n) ==
    /\ mEncryptionKey[s] # NoKey
    /\ LET datagram == [key |-> mEncryptionKey[s], plain |-> n]
       IN  /\ datagram \in wire \/ Cardinality(wire) < MaxWire
           /\ wire' = wire \cup {datagram}
    /\ writes' = SealWrites(n)
    /\ UNCHANGED <<mEncryptionKey, got>>

\* RecvFrom marks the first byte of each word of the caller's buffer.
FillWrites(cb) ==
    LET words == IF cb \div 4 < FillLimit THEN cb \div 4 ELSE FillLimit
    IN  IF words = 0 THEN {} ELSE {Write(4 * (words - 1) + 1, cb)}

\* What the socket gives of a datagram to a buffer of cb bytes.
ReadSize(datagram, cb) ==
    IF SealSize(datagram.plain) <= cb THEN SealSize(datagram.plain) ELSE cb

\* What both receives do with the bytes they read: open them and copy the
\* result over them.  An error of Open is a result of 0.
Receive(s, datagram, cb, marks) ==
    LET key == mEncryptionKey[s]
        len == ReadSize(datagram, cb)
        Finish(result, written) ==
            /\ got' = [datagram |-> datagram, key |-> key, len |-> len, result |-> result]
            /\ writes' = marks \cup {Write(len, cb)} \cup written
    IN  /\ \/ key = NoKey /\ Finish(0, {})
           \/ /\ key # NoKey
              /\ OpenFails(key, datagram, len)
              /\ Finish(0, OpenWrites(len))
           \/ /\ key # NoKey
              /\ \E n \in OpenResults(key, datagram, len) :
                    Finish(n, OpenWrites(len) \cup {Write(n, cb)})
        /\ UNCHANGED <<mEncryptionKey, wire>>

Recv(s, datagram, cb) == Receive(s, datagram, cb, {})

RecvFrom(s, datagram, cb) == Receive(s, datagram, cb, FillWrites(cb))

\* The socket's own receive fails.
RecvError(marks) ==
    /\ got' = NoReceipt
    /\ writes' = marks
    /\ UNCHANGED <<mEncryptionKey, wire>>

Next ==
    \/ \E s \in Sockets :
         \/ \E key \in Keys : SetKey(s, key)
         \/ \E n \in Sizes : Send(s, n)
         \/ \E datagram \in wire, cb \in Buffers :
              Recv(s, datagram, cb) \/ RecvFrom(s, datagram, cb)
    \/ RecvError({})
    \/ \E cb \in Buffers : RecvError(FillWrites(cb))

Spec == Init /\ [][Next]_vars

-----------------------------------------------------------------------------
(* Properties.                                                             *)

\* No call writes past the end of a buffer: not the digest and the blocks into
\* mOutputBuffer, not RecvFrom's marks or the opened data into the caller's.
WritesInBounds == \A w \in writes : w.end <= w.size

\* What the last receive was given is known to be a datagram that was sent.
Opened == got # NoReceipt

\* A datagram that arrives whole at a socket with the key it was sealed with
\* gives the data's length back, whatever else is on the wire and however the
\* keys changed since it was sent.
RoundTrip ==
    /\ Opened
    /\ got.key = got.datagram.key
    /\ got.len = SealSize(got.datagram.plain)
    => got.result = got.datagram.plain
==================================================
