---------------------------- MODULE CodecProofs ----------------------------
(* Theorems about the padding, cutting and joining of texts, and byte order. *)
EXTENDS Codec, TLAPS

(* The padded size is the next multiple of 16. *)
LEMMA PaddedSize ==
    ASSUME NEW size \in Nat
    PROVE  /\ paddedSizeBytes(size) \in Nat
           /\ paddedSizeBytes(size) - size \in 0 .. 15
           /\ paddedSizeBytes(size) % 16 = 0
           /\ padding_value(size) = paddedSizeBytes(size) - size
           /\ size % 16 # 0 => padding_value(size) # 0
           /\ size % 16 = 0 => padding_value(size) = 0
BY DEF paddedSizeBytes, padding_value

(* What a text is made of. *)
LEMMA TextFacts ==
    ASSUME NEW text \in Texts
    PROVE  /\ text \in Seq(Bytes) /\ Len(text) \in 1 .. 256
           /\ \A i \in 1 .. Len(text) : text[i] \in Bytes
           /\ text = [i \in 1 .. Len(text) |-> text[i]]
           /\ paddedSizeBytes(Len(text)) \in Nat
<1>1. text \in Seq(Bytes) /\ Len(text) \in 1 .. 256
  BY Zenon DEF Texts
<1>2. ASSUME NEW S, NEW s \in Seq(S), NEW i \in 1 .. Len(s) PROVE s[i] \in S
  OBVIOUS
<1>3. ASSUME NEW S, NEW s \in Seq(S) PROVE s = [i \in 1 .. Len(s) |-> s[i]]
  OBVIOUS
<1>4. \A n \in 1 .. 256 : paddedSizeBytes(n) \in Nat
  <2>1. \A n \in 1 .. 256 : n \in Nat
    OBVIOUS
  <2> QED  BY <2>1, PaddedSize, Zenon
<1>5. \A i \in 1 .. Len(text) : text[i] \in Bytes
  BY <1>1, <1>2, Zenon
<1>6. text = [i \in 1 .. Len(text) |-> text[i]]
  BY <1>1, <1>3, Zenon
<1>7. paddedSizeBytes(Len(text)) \in Nat
  BY <1>1, <1>4, Zenon
<1> QED  BY <1>1, <1>5, <1>6, <1>7, Zenon

(* The padded text. *)
LEMMA PaddedText ==
    ASSUME NEW text \in Texts
    PROVE  /\ Len(text) \in 1 .. 256
           /\ Len(paddedData(text)) = paddedSizeBytes(Len(text))
           /\ paddedData(text) \in Seq(Bytes)
           /\ \A i \in 1 .. Len(text) : paddedData(text)[i] = text[i]
           /\ \A i \in Len(text) + 1 .. paddedSizeBytes(Len(text)) :
                 paddedData(text)[i] = padding_value(Len(text))
<1> DEFINE n == Len(text)
           p == paddedSizeBytes(n)
<1>1. n \in 1 .. 256 /\ text \in Seq(Bytes)
  BY TextFacts
<1>2. p \in Nat /\ p - n \in 0 .. 15 /\ padding_value(n) = p - n
  <2> HIDE DEF n
  <2>1. n \in Nat
    BY <1>1
  <2> QED  BY <2>1, PaddedSize
<1>3. \A i \in 1 .. n : text[i] \in Bytes
  BY TextFacts
<1> HIDE DEF p
<1>4. paddedData(text) = [i \in 1 .. p |-> IF i <= n THEN text[i] ELSE padding_value(n)]
  BY DEF paddedData, p
<1> HIDE DEF n
<1>5. \A i \in 1 .. p : (IF i <= n THEN text[i] ELSE padding_value(n)) \in Bytes
  BY <1>1, <1>2, <1>3 DEF Bytes
<1>6. paddedData(text) \in Seq(Bytes) /\ Len(paddedData(text)) = p
  BY <1>2, <1>4, <1>5
<1>7. \A i \in 1 .. n : paddedData(text)[i] = text[i]
  BY <1>1, <1>2, <1>4
<1>8. \A i \in n + 1 .. p : paddedData(text)[i] = padding_value(n)
  BY <1>1, <1>2, <1>4
<1> QED
  BY <1>1, <1>6, <1>7, <1>8 DEF n, p

(***************************************************************************)
(* poll() gives back every text that send() padded, unless the text fills  *)
(* its last block and ends in a byte that looks like padding               *)
(* (packethandler.cpp 218-223 against 76-96).                              *)
(***************************************************************************)
THEOREM PaddingUndone ==
    ASSUME NEW text \in Texts, ~Ambiguous(text)
    PROVE  Recovered(text)
<1> DEFINE n == Len(text)
           p == paddedSizeBytes(n)
           bytes == paddedData(text)
<1>0. \A i \in 1 .. n : text[i] \in Bytes
  BY TextFacts
<1>1. /\ n \in 1 .. 256 /\ text \in Seq(Bytes)
      /\ p \in Nat /\ p - n \in 0 .. 15 /\ p % 16 = 0
      /\ padding_value(n) = p - n
      /\ n % 16 # 0 => p # n
      /\ n % 16 = 0 => p = n
  <2>1. n \in 1 .. 256 /\ text \in Seq(Bytes)
    BY TextFacts
  <2> HIDE DEF n
  <2>2. n \in Nat
    BY <2>1
  <2>3. /\ p \in Nat /\ p - n \in 0 .. 15 /\ p % 16 = 0
        /\ padding_value(n) = p - n
        /\ n % 16 # 0 => padding_value(n) # 0
        /\ n % 16 = 0 => padding_value(n) = 0
    BY <2>2, PaddedSize
  <2> HIDE DEF p
  <2>4. (n % 16 # 0 => p # n) /\ (n % 16 = 0 => p = n)
    BY <2>2, <2>3
  <2> QED
    BY <2>1, <2>3, <2>4
<1>2. /\ Len(bytes) = p /\ bytes \in Seq(Bytes)
      /\ \A i \in 1 .. n : bytes[i] = text[i]
      /\ \A i \in n + 1 .. p : bytes[i] = p - n
  BY <1>1, PaddedText
<1>3. ~(n % 16 = 0 /\ text[n] \in 1 .. 15)
  BY DEF Ambiguous
<1> HIDE DEF n, p, bytes
<1>4. padding_length(bytes) = p - n
  <2>1. CASE p = n
    <3>1. text[n] \in Bytes
      BY <1>0, <1>1
    <3>2. bytes[p] = text[n]
      BY <1>1, <1>2, <2>1
    <3>3. n % 16 = 0
      BY <1>1, <2>1
    <3>4. ~(bytes[p] > 0 /\ bytes[p] < 16)
      BY <1>3, <3>1, <3>2, <3>3 DEF Bytes
    <3> QED
      BY <1>1, <1>2, <2>1, <3>4 DEF padding_length
  <2>2. CASE p # n
    <3>1. p - n \in 1 .. 15 /\ bytes[p] = p - n
      BY <1>1, <1>2, <2>2
    <3>2. \A i \in p - (p - n) + 1 .. p : bytes[i] = p - n
      BY <1>1, <1>2
    <3> QED
      BY <1>1, <1>2, <3>1, <3>2 DEF padding_length
  <2> QED
    BY <2>1, <2>2
<1>5. unpadded(bytes) = text
  <2>1. p - (p - n) = n
    BY <1>1
  <2>2. unpadded(bytes) = SubSeq(bytes, 1, n)
    BY <1>2, <1>4, <2>1 DEF unpadded
  <2>3. SubSeq(bytes, 1, n) = [i \in 1 .. n |-> bytes[i]]
    BY <1>1, <1>2
  <2>4. text = [i \in 1 .. n |-> text[i]]
    BY TextFacts DEF n
  <2> QED
    BY <1>2, <2>2, <2>3, <2>4
<1>6. padding_length(bytes) >= 0
  BY <1>1, <1>4
<1> QED
  BY <1>5, <1>6, <1>1, <1>4 DEF Recovered, Refused, bytes

(***************************************************************************)
(* The fragments of a text are at most three, none is empty and none is    *)
(* longer than a packet, and together they are as long as the padded text  *)
(* (packethandler.cpp 238-263): total_fragments never wraps.               *)
(***************************************************************************)
THEOREM FragmentsFit ==
    ASSUME NEW size \in 1 .. 256
    PROVE  /\ totalFragments(size) \in 1 .. 3
           /\ \A k \in 0 .. totalFragments(size) - 1 :
                 packetLen(size, k) \in 1 .. PACKET_MAX_SIZE
           /\ (totalFragments(size) - 1) * PACKET_MAX_SIZE
                + packetLen(size, totalFragments(size) - 1) = paddedSizeBytes(size)
<1> DEFINE p == paddedSizeBytes(size)
<1>1. p \in 1 .. 256
  BY DEF paddedSizeBytes
<1> HIDE DEF p
<1>2. totalFragments(size) = (p + 118) \div 119
  BY <1>1 DEF totalFragments, PACKET_MAX_SIZE, p
<1>3. CASE p <= 119
  <2>1. totalFragments(size) = 1
    BY <1>1, <1>2, <1>3
  <2> QED
    BY <1>1, <1>3, <2>1 DEF packetLen, PACKET_MAX_SIZE, p
<1>4. CASE p > 119 /\ p <= 238
  <2>1. totalFragments(size) = 2
    BY <1>1, <1>2, <1>4
  <2> QED
    BY <1>1, <1>4, <2>1 DEF packetLen, PACKET_MAX_SIZE, p
<1>5. CASE p > 238
  <2>1. totalFragments(size) = 3
    BY <1>1, <1>2, <1>5
  <2> QED
    BY <1>1, <1>5, <2>1 DEF packetLen, PACKET_MAX_SIZE, p
<1> QED
  BY <1>1, <1>3, <1>4, <1>5

(***************************************************************************)
(* Whatever at least a block decrypts to, right or garbage, the callback   *)
(* gets no more than has arrived (packethandler.cpp 76-99): the length     *)
(* does not wrap.  Buckets of fewer than 15 bytes are not covered.         *)
(***************************************************************************)
THEOREM NothingBeyondBuffer ==
    ASSUME NEW bytes \in Seq(Bytes), Len(bytes) >= 15, ~Refused(bytes)
    PROVE  /\ padding_length(bytes) \in 0 .. 15
           /\ Len(bytes) - padding_length(bytes) \in 0 .. Len(bytes)
<1>1. Len(bytes) \in Nat /\ bytes[Len(bytes)] \in Bytes
  <2>1. Len(bytes) \in Nat /\ Len(bytes) \in DOMAIN bytes
    OBVIOUS
  <2> QED  BY <2>1
<1>2. padding_length(bytes) \in {bytes[Len(bytes)], 0, -1, -2}
  BY DEF padding_length
<1>3. padding_length(bytes) \in 0 .. 15
  <2>1. CASE bytes[Len(bytes)] > 0 /\ bytes[Len(bytes)] < 16
    <3> DEFINE last == bytes[Len(bytes)]
               found == padding_length(bytes)
    <3>1. last \in 1 .. 15 /\ found \in {last, 0, -1, -2} /\ ~(found < 0)
      <4>1. last \in Bytes /\ found \in {last, 0, -1, -2} /\ last > 0 /\ last < 16
        BY <1>1, <1>2, <2>1
      <4>2. ~(found < 0)
        BY DEF Refused
      <4> HIDE DEF last, found
      <4>3. last \in 1 .. 15
        BY <4>1 DEF Bytes
      <4> QED  BY <4>1, <4>2, <4>3
    <3> HIDE DEF last, found
    <3>2. found \in 0 .. 15
      BY <3>1
    <3> QED  BY <3>2 DEF found
  <2>2. CASE ~(bytes[Len(bytes)] > 0 /\ bytes[Len(bytes)] < 16)
    BY <1>1, <2>2 DEF padding_length, Refused
  <2> QED  BY <2>1, <2>2
<1> QED  BY <1>1, <1>3

-----------------------------------------------------------------------------
(* Cutting and joining.  A recursive function is a CHOOSE of a function that     *)
(* meets its equation; with three fragments at most, the one that does is given. *)

\* The fragments of a text, as send() cuts them and poll() has them sorted.
Cut(text) == [k \in 1 .. totalFragments(Len(text)) |-> fragment(text, k - 1)]

(* The offsets of three fragments at most are the sums of their lengths. *)
LEMMA OffsetSums ==
    ASSUME NEW fragments, Len(fragments) \in 1 .. 3,
           \A k \in 1 .. Len(fragments) : Len(fragments[k]) \in Nat
    PROVE  /\ Offset(fragments)[0] = 0
           /\ \A k \in 1 .. Len(fragments) :
                 Offset(fragments)[k] = Offset(fragments)[k - 1] + Len(fragments[k])
<1> DEFINE n == Len(fragments)
           L(k) == Len(fragments[k])
           F(f) == [k \in 0 .. n |-> IF k = 0 THEN 0 ELSE f[k - 1] + Len(fragments[k])]
           g == [k \in 0 .. n |-> IF k = 0 THEN 0 ELSE IF k = 1 THEN L(1)
                                    ELSE IF k = 2 THEN L(1) + L(2) ELSE L(1) + L(2) + L(3)]
<1>1. Offset(fragments) = CHOOSE f : f = F(f)
  BY DEF Offset
<1>2. g = F(g)
  <2> HIDE DEF n
  <2>1. \A k \in 0 .. n : g[k] = F(g)[k]
    BY DEF n
  <2> QED  BY <2>1
<1> HIDE DEF F, g
<1>3. Offset(fragments) = F(Offset(fragments))
  BY <1>1, <1>2
<1> QED  BY <1>3 DEF F

(* Fragments are what a text is cut into, at the distance of a full packet. *)
LEMMA CutType ==
    ASSUME NEW text \in Texts
    PROVE  LET n == totalFragments(Len(text))
               p == paddedSizeBytes(Len(text))
           IN  /\ n \in 1 .. 3 /\ Len(Cut(text)) = n /\ DOMAIN Cut(text) = 1 .. n
               /\ \A k \in 1 .. n :
                    /\ Cut(text)[k] \in Seq(Bytes)
                    /\ Len(Cut(text)[k]) = packetLen(Len(text), k - 1)
                    /\ Len(Cut(text)[k]) =
                         IF k = n THEN p - (n - 1) * PACKET_MAX_SIZE ELSE PACKET_MAX_SIZE
                    /\ Len(Cut(text)[k]) \in 1 .. PACKET_MAX_SIZE
                    /\ \A i \in 1 .. Len(Cut(text)[k]) :
                         Cut(text)[k][i] = paddedData(text)[(k - 1) * PACKET_MAX_SIZE + i]
<1> DEFINE size == Len(text)
           n == totalFragments(size)
           p == paddedSizeBytes(size)
           bytes == paddedData(text)
<1>1. size \in 1 .. 256 /\ Len(bytes) = p /\ bytes \in Seq(Bytes) /\ p \in Nat
  BY PaddedText, TextFacts
<1>2. /\ n \in 1 .. 3
      /\ \A k \in 0 .. n - 1 : packetLen(size, k) \in 1 .. PACKET_MAX_SIZE
      /\ (n - 1) * PACKET_MAX_SIZE + packetLen(size, n - 1) = p
  <2> HIDE DEF size
  <2> QED  BY <1>1, FragmentsFit
<1>3. Cut(text) = [k \in 1 .. n |-> fragment(text, k - 1)]
  BY DEF Cut
<1>4. \A k \in Int : packetLen(size, k) =
        IF p - k * PACKET_MAX_SIZE > PACKET_MAX_SIZE THEN PACKET_MAX_SIZE ELSE p - k * PACKET_MAX_SIZE
  BY DEF packetLen
<1>5. \A k \in Int : fragment(text, k) =
        [i \in 1 .. packetLen(size, k) |-> bytes[k * PACKET_MAX_SIZE + i]]
  BY DEF fragment
<1> HIDE DEF size, n, p, bytes
<1>6. Len(Cut(text)) = n /\ DOMAIN Cut(text) = 1 .. n
  BY <1>2, <1>3
<1>7. ASSUME NEW k \in 1 .. n
      PROVE  /\ Cut(text)[k] \in Seq(Bytes)
             /\ Len(Cut(text)[k]) = packetLen(size, k - 1)
             /\ Len(Cut(text)[k]) = IF k = n THEN p - (n - 1) * PACKET_MAX_SIZE ELSE PACKET_MAX_SIZE
             /\ Len(Cut(text)[k]) \in 1 .. PACKET_MAX_SIZE
             /\ \A i \in 1 .. Len(Cut(text)[k]) :
                   Cut(text)[k][i] = bytes[(k - 1) * PACKET_MAX_SIZE + i]
  <2> DEFINE l == packetLen(size, k - 1)
             f == fragment(text, k - 1)
  <2>1. k - 1 \in 0 .. n - 1 /\ k - 1 \in Int
    BY <1>2
  <2>2. l \in 1 .. PACKET_MAX_SIZE
    BY <1>2, <2>1
  <2>3. l = IF k = n THEN p - (n - 1) * PACKET_MAX_SIZE ELSE PACKET_MAX_SIZE
    <3>1. CASE k = n
      <4>1. l \in Nat /\ (n - 1) * PACKET_MAX_SIZE + l = p
        BY <1>2, <2>2, <3>1 DEF PACKET_MAX_SIZE
      <4> HIDE DEF l
      <4> QED  BY <1>1, <1>2, <3>1, <4>1 DEF PACKET_MAX_SIZE
    <3>2. CASE k # n
      <4> DEFINE m == packetLen(size, n - 1)
      <4>1. m \in 1 .. 119 /\ (n - 1) * 119 + m = p
        BY <1>2 DEF PACKET_MAX_SIZE
      <4> HIDE DEF m
      <4>2. p - (k - 1) * 119 > 119
        BY <1>1, <1>2, <3>2, <4>1
      <4> QED  BY <1>4, <2>1, <3>2, <4>2 DEF PACKET_MAX_SIZE
    <3> QED  BY <3>1, <3>2
  <2>4. \A i \in 1 .. l : (k - 1) * PACKET_MAX_SIZE + i \in 1 .. p
    <3> DEFINE m == packetLen(size, n - 1)
    <3>1. m \in 1 .. 119 /\ (n - 1) * 119 + m = p
      BY <1>2 DEF PACKET_MAX_SIZE
    <3> HIDE DEF m, l
    <3> QED  BY <1>1, <1>2, <2>2, <2>3, <3>1 DEF PACKET_MAX_SIZE
  <2>5. f = [i \in 1 .. l |-> bytes[(k - 1) * PACKET_MAX_SIZE + i]]
    BY <1>5, <2>1
  <2>6. \A i \in 1 .. p : bytes[i] \in Bytes
    BY <1>1
  <2>7. Cut(text)[k] = f
    BY <1>3
  <2> HIDE DEF l, f
  <2>8. f \in [1 .. l -> Bytes] /\ l \in Nat
    <3>1. l \in Nat
      BY <2>2 DEF PACKET_MAX_SIZE
    <3>2. \A i \in 1 .. l : bytes[(k - 1) * PACKET_MAX_SIZE + i] \in Bytes
      BY <2>4, <2>6
    <3> QED  BY <2>5, <3>1, <3>2
  <2>9. f \in Seq(Bytes) /\ Len(f) = l
    BY <2>8
  <2> QED  BY <2>2, <2>3, <2>5, <2>7, <2>9 DEF l
<1> QED  BY <1>2, <1>6, <1>7 DEF size, n, p, bytes

(***************************************************************************)
(* What send() cuts (packethandler.cpp 238-263) and poll() joins by adding *)
(* up the lengths (61-69) is the padded text again, for every text a       *)
(* client can send.                                                        *)
(***************************************************************************)
THEOREM JoiningUndoesCutting ==
    ASSUME NEW text \in Texts
    PROVE  reassembled(Cut(text)) = paddedData(text)
<1> DEFINE n == totalFragments(Len(text))
           p == paddedSizeBytes(Len(text))
           bytes == paddedData(text)
           cut == Cut(text)
           offset == Offset(cut)
<1>1. /\ Len(bytes) = p /\ bytes \in Seq(Bytes)
      /\ n \in 1 .. 3 /\ Len(cut) = n /\ DOMAIN cut = 1 .. n
  BY PaddedText, CutType
<1>2. \A k \in 1 .. n :
        /\ Len(cut[k]) = IF k = n THEN p - (n - 1) * 119 ELSE 119
        /\ Len(cut[k]) \in 1 .. 119
        /\ \A i \in 1 .. Len(cut[k]) : cut[k][i] = bytes[(k - 1) * 119 + i]
  <2>1. \A k \in 1 .. n :
          /\ Len(cut[k]) = IF k = n THEN p - (n - 1) * PACKET_MAX_SIZE ELSE PACKET_MAX_SIZE
          /\ Len(cut[k]) \in 1 .. PACKET_MAX_SIZE
          /\ \A i \in 1 .. Len(cut[k]) : cut[k][i] = bytes[(k - 1) * PACKET_MAX_SIZE + i]
    BY CutType
  <2> HIDE DEF n, p, bytes, cut
  <2> QED  BY <2>1 DEF PACKET_MAX_SIZE
<1>3. reassembled(cut) = [i \in 1 .. offset[Len(cut)] |->
            LET k == CHOOSE j \in DOMAIN cut : offset[j - 1] < i /\ i <= offset[j]
            IN  cut[k][i - offset[k - 1]]]
  BY DEF reassembled
<1>0. p \in Nat
  BY TextFacts
<1> HIDE DEF n, p, bytes, cut
<1>4. offset[0] = 0 /\ \A k \in 1 .. n : offset[k] = offset[k - 1] + Len(cut[k])
  <2>1. Len(cut) \in 1 .. 3 /\ \A k \in 1 .. Len(cut) : Len(cut[k]) \in Nat
    BY <1>1, <1>2
  <2> QED  BY <1>1, <2>1, OffsetSums
<1> HIDE DEF offset
<1>5. \A k \in 1 .. n : offset[k - 1] = (k - 1) * 119 /\ offset[k] = IF k = n THEN p ELSE k * 119
  <2>0. ASSUME NEW k \in 1 .. n
        PROVE  offset[k] = offset[k - 1] + (IF k = n THEN p - (n - 1) * 119 ELSE 119)
    BY <1>2, <1>4
  <2>1. offset[1] = IF n = 1 THEN p ELSE 119
    BY <1>1, <1>4, <1>0, <2>0
  <2>2. n >= 2 => offset[2] = IF n = 2 THEN p ELSE 238
    BY <1>1, <1>4, <1>0, <2>0, <2>1
  <2>3. n = 3 => offset[3] = p
    BY <1>1, <1>4, <1>0, <2>0, <2>2
  <2>4. offset[0] = 0
    BY <1>4
  <2>5. CASE n = 1
    BY <1>0, <2>1, <2>4, <2>5
  <2>6. CASE n = 2
    BY <1>0, <2>1, <2>2, <2>4, <2>6
  <2>7. CASE n = 3
    BY <1>0, <2>1, <2>2, <2>3, <2>4, <2>7
  <2> QED  BY <1>1, <2>5, <2>6, <2>7
<1>6. ASSUME NEW i \in 1 .. p
      PROVE  LET k == CHOOSE j \in DOMAIN cut : offset[j - 1] < i /\ i <= offset[j]
             IN  cut[k][i - offset[k - 1]] = bytes[i]
  <2> DEFINE In(j) == offset[j - 1] < i /\ i <= offset[j]
             k == CHOOSE j \in DOMAIN cut : In(j)
  <2>1. \E j \in 1 .. n : In(j)
    BY <1>1, <1>5, <1>0
  <2> HIDE DEF In
  <2>2. k \in 1 .. n /\ In(k)
    BY <1>1, <2>1
  <2> HIDE DEF k
  <2>3. i - offset[k - 1] \in 1 .. Len(cut[k]) /\ offset[k - 1] = (k - 1) * 119
    <3>1. offset[k - 1] = (k - 1) * 119 /\ offset[k] = IF k = n THEN p ELSE k * 119
      BY <1>5, <2>2
    <3>2. Len(cut[k]) = IF k = n THEN p - (n - 1) * 119 ELSE 119
      BY <1>2, <2>2
    <3> QED  BY <1>1, <1>0, <2>2, <3>1, <3>2 DEF In
  <2>4. \A j \in 1 .. Len(cut[k]) : cut[k][j] = bytes[(k - 1) * 119 + j]
    BY <1>2, <2>2
  <2> DEFINE d == i - offset[k - 1]
  <2>5. (k - 1) * 119 + d = i /\ d \in 1 .. Len(cut[k])
    BY <1>1, <2>2, <2>3
  <2> HIDE DEF d
  <2>6. cut[k][d] = bytes[i]
    BY <2>4, <2>5
  <2> QED  BY <2>6 DEF d, k, In
<1>7. reassembled(cut) = [i \in 1 .. p |-> bytes[i]]
  <2>1. offset[Len(cut)] = p
    BY <1>1, <1>5
  <2> QED  BY <1>3, <1>6, <2>1
<1>8. bytes = [i \in 1 .. p |-> bytes[i]]
  BY <1>1
<1> QED  BY <1>7, <1>8 DEF cut, bytes

(***************************************************************************)
(* Every packet of a text passes the check of receive (packethandler.cpp   *)
(* 259 against 332-341): the checksum of send covers just the bytes that   *)
(* `lenght' counts.                                                        *)
(***************************************************************************)
THEOREM ChecksumsHold ==
    ASSUME NEW text \in Texts, NEW k \in 1 .. totalFragments(Len(text))
    PROVE  /\ validate_checksum(packet_t(text, k - 1))
           /\ packet_t(text, k - 1).data = Cut(text)[k]
<1> DEFINE pkt == packet_t(text, k - 1)
<1>1. /\ pkt.data = Cut(text)[k] /\ pkt.lenght = packetLen(Len(text), k - 1)
      /\ pkt.checksum = compute_checksum(pkt.data)
  BY DEF packet_t, Cut
<1>2. Cut(text)[k] \in Seq(Bytes) /\ Len(Cut(text)[k]) = packetLen(Len(text), k - 1)
  BY CutType
<1> HIDE DEF pkt
<1>3. SubSeq(pkt.data, 1, pkt.lenght) = pkt.data
  <2>1. ASSUME NEW s \in Seq(Bytes) PROVE SubSeq(s, 1, Len(s)) = s
    OBVIOUS
  <2> QED  BY <1>1, <1>2, <2>1
<1> QED  BY <1>1, <1>3 DEF validate_checksum, pkt

-----------------------------------------------------------------------------
(* Byte order *)

(* The bytes of words are those of the same words in memory, each flipped. *)
LEMMA RowOfWords ==
    ASSUME NEW words \in Words
    PROVE  FromMemory(u32_to_bytes(words)) = swap_endianness(words)
<1> DEFINE bytes == Row(words)
<1>1. \A w \in 1 .. 4, i \in 1 .. 4 : bytes[4 * (w - 1) + i] = words[w][i]
  BY DEF Row
<1>2. \A w \in 1 .. 4 : words[w] = [i \in 1 .. 4 |-> words[w][i]]
  BY DEF Words
<1>3. words = [w \in 1 .. 4 |-> words[w]]
  BY DEF Words
<1> HIDE DEF bytes
<1>4. \A w \in 1 .. 4 : [i \in 1 .. 4 |-> bytes[4 * (w - 1) + i]] = words[w]
  BY <1>1, <1>2
<1>5. [w \in 1 .. 4 |-> [i \in 1 .. 4 |-> bytes[4 * (w - 1) + i]]] = words
  BY <1>3, <1>4
<1> QED  BY <1>5 DEF FromMemory, u32_to_bytes, bytes

(* Swapping twice is the identity. *)
LEMMA SwapTwice ==
    ASSUME NEW words \in Words
    PROVE  swap_endianness(swap_endianness(words)) = words
<1>1. \A w \in 1 .. 4 : Flipped(Flipped(words[w])) = words[w]
  <2> SUFFICES ASSUME NEW w \in 1 .. 4 PROVE Flipped(Flipped(words[w])) = words[w]
    OBVIOUS
  <2>1. words[w] \in [1 .. 4 -> Bytes]
    BY DEF Words
  <2>2. \A i \in 1 .. 4 : 5 - i \in 1 .. 4 /\ 5 - (5 - i) = i
    OBVIOUS
  <2>3. \A i \in 1 .. 4 : Flipped(words[w])[5 - i] = words[w][i]
    BY <2>2 DEF Flipped
  <2>4. Flipped(Flipped(words[w])) = [i \in 1 .. 4 |-> words[w][i]]
    BY <2>3 DEF Flipped
  <2> QED  BY <2>1, <2>4
<1>2. words = [w \in 1 .. 4 |-> words[w]]
  BY DEF Words
<1> QED  BY <1>1, <1>2 DEF swap_endianness

(***************************************************************************)
(* encryption_handshake uses and announces its vector most significant     *)
(* byte first (packethandler.cpp 184-198), poll swaps what it is sent      *)
(* (112-117): a program with this code reads a vector of this code as the  *)
(* words in the order of memory.  So the two directions agree only with a  *)
(* peer that does the opposite.                                            *)
(***************************************************************************)
THEOREM VectorIsSwapped ==
    ASSUME NEW iv \in Words
    PROVE  ReceivedVector(OwnVector(iv)) = InMemory(iv)
<1>1. FromMemory(OwnVector(iv)) = swap_endianness(iv)
  BY RowOfWords DEF OwnVector
<1>2. swap_endianness(swap_endianness(iv)) = iv
  BY SwapTwice
<1> QED  BY <1>1, <1>2 DEF ReceivedVector

(***************************************************************************)
(* The key of init (packethandler.cpp 15) is not the one of                *)
(* encryption_handshake (184-188): what comes before the first own message *)
(* is decrypted with another key.                                          *)
(***************************************************************************)
THEOREM KeysDiffer == InitKey # HandshakeKey
<1>1. InitKey[1] = \h13 /\ HandshakeKey[1] = \hC9
  BY DEF InitKey, HandshakeKey, InMemory, u32_to_bytes, Row, swap_endianness, Flipped, aes_key
<1> QED  BY <1>1
=============================================================================
