------------------------------- MODULE Codec -------------------------------
(***************************************************************************)
(* How PacketHandler turns a text into packets and back: padding, cutting  *)
(* and the checksum of send(), the padding check of poll().  A text is a   *)
(* sequence of bytes.  The cipher works on it byte by byte and keeps its   *)
(* length, so it is left out here, but for the byte order of the key and    *)
(* the vector it is given.                                                 *)
(***************************************************************************)
EXTENDS Integers, Sequences

Bytes == 0 .. 255
PACKET_MAX_SIZE == 119

\* What UnixSocket reads from a client at once, and on_data gives to send().
Texts == {t \in Seq(Bytes) : Len(t) \in 1 .. 256}

-----------------------------------------------------------------------------
(* send() *)

paddedSizeBytes(size) == ((size + 15) \div 16) * 16

padding_value(size) == (paddedSizeBytes(size) - size) % 256

\* memset with the padding value, then memcpy of the text.
paddedData(text) ==
    [i \in 1 .. paddedSizeBytes(Len(text)) |->
        IF i <= Len(text) THEN text[i] ELSE padding_value(Len(text))]

\* rawFragments, cast to uint8_t.
totalFragments(size) == ((paddedSizeBytes(size) + PACKET_MAX_SIZE - 1) \div PACKET_MAX_SIZE) % 256

\* The length of fragment k, counted from 0.
packetLen(size, k) ==
    LET remaining == paddedSizeBytes(size) - k * PACKET_MAX_SIZE
    IN  IF remaining > PACKET_MAX_SIZE THEN PACKET_MAX_SIZE ELSE remaining

\* Fragment k of the padded text.
fragment(text, k) ==
    [i \in 1 .. packetLen(Len(text), k) |-> paddedData(text)[k * PACKET_MAX_SIZE + i]]

\* ~sum as a byte; the 16 bits of sum hold those of 119 bytes.
compute_checksum(data) ==
    LET sum[i \in 0 .. Len(data)] == IF i = 0 THEN 0 ELSE sum[i - 1] + data[i]
    IN  255 - (sum[Len(data)] % 256)

\* Packet k of the padded text, as send() fills it.
packet_t(text, k) ==
    [lenght |-> packetLen(Len(text), k), data |-> fragment(text, k),
     checksum |-> compute_checksum(fragment(text, k))]

-----------------------------------------------------------------------------
(* receive() *)

\* The bytes that `lenght' counts have the checksum the packet names.
validate_checksum(pkt) == compute_checksum(SubSeq(pkt.data, 1, pkt.lenght)) = pkt.checksum

-----------------------------------------------------------------------------
(* poll() *)

\* offset += lenght, from one fragment to the next.
Offset(fragments) ==
    LET offset[k \in 0 .. Len(fragments)] ==
          IF k = 0 THEN 0 ELSE offset[k - 1] + Len(fragments[k])
    IN  offset

reassembled(fragments) ==
    LET offset == Offset(fragments)
    IN  [i \in 1 .. offset[Len(fragments)] |->
            LET k == CHOOSE j \in DOMAIN fragments : offset[j - 1] < i /\ i <= offset[j]
            IN  fragments[k][i - offset[k - 1]]]

\* A bug to rule out: a full block counts as padding, too.
padding_lengthFullBlock(bytes) ==
    LET total_length == Len(bytes)
        last == bytes[total_length]
    IN  IF last > 0 /\ last <= 16
        THEN IF \A i \in total_length - last + 1 .. total_length : bytes[i] = last
             THEN last ELSE -1
        ELSE IF total_length % 16 = 0 THEN 0 ELSE -2

\* The padding that poll() finds; negative if it finds none that is valid.  There
\* is at least one byte.
padding_length(bytes) ==
    LET total_length == Len(bytes)
        last == bytes[total_length]
    IN  IF last > 0 /\ last < 16
        THEN IF \/ last > total_length   \* the unsigned start wraps: none is compared
                \/ \A i \in total_length - last + 1 .. total_length : bytes[i] = last
             THEN last ELSE -1
        ELSE IF total_length % 16 = 0 THEN 0 ELSE -2

\* The padding is refused, and the callback gets nothing.
Refused(bytes) == padding_length(bytes) < 0

\* What the callback gets otherwise; the length wraps if the padding is the longer.
unpadded(bytes) == SubSeq(bytes, 1, Len(bytes) - padding_length(bytes))

-----------------------------------------------------------------------------
(* Byte order.  A word is its four bytes, the most significant one first; the *)
(* host is little-endian; vectors and keys are four words.                    *)

Words == [1 .. 4 -> [1 .. 4 -> Bytes]]

aes_key == << <<\hC9, \h39, \hCC, \h13>>, <<\h39, \h7C, \h1D, \h37>>,
              <<\hDE, \h6A, \hE0, \hE1>>, <<\hCB, \h7C, \h42, \h3C>> >>

Flipped(word) == [i \in 1 .. 4 |-> word[5 - i]]

swap_endianness(words) == [w \in 1 .. 4 |-> Flipped(words[w])]

\* Byte j of word w, in an array of 16.
Row(words) == [b \in 1 .. 16 |-> words[(b - 1) \div 4 + 1][((b - 1) % 4) + 1]]

\* reinterpret_cast<uint8_t*> of words, and reinterpret_cast<uint32_t*> of bytes.
InMemory(words) == Row(swap_endianness(words))
FromMemory(bytes) ==
    swap_endianness([w \in 1 .. 4 |-> [i \in 1 .. 4 |-> bytes[4 * (w - 1) + i]]])

u32_to_bytes(words) == Row(words)

\* The key that init() gives to the cipher, and the one of encryption_handshake().
InitKey == InMemory(aes_key)
HandshakeKey == u32_to_bytes(aes_key)

\* The vector that encryption_handshake() announces and uses, and the one that
\* poll() uses for the bytes it is sent.
OwnVector(iv) == u32_to_bytes(iv)
ReceivedVector(bytes) == InMemory(swap_endianness(FromMemory(bytes)))

-----------------------------------------------------------------------------

\* A text that fills its last block and ends like a padding.
Ambiguous(text) == Len(text) % 16 = 0 /\ text[Len(text)] \in 1 .. 15

\* The text a user gets when bytes decrypt to what was enciphered.
Recovered(text) ==
    /\ ~Refused(paddedData(text))
    /\ unpadded(paddedData(text)) = text
=============================================================================
