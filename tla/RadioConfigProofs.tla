-------------------------- MODULE RadioConfigProofs --------------------------
(***************************************************************************)
(* Proofs about the registers: what each routine of the driver leaves      *)
(* alone, and that a preset fixes the modem whatever was in the registers. *)
(*                                                                         *)
(* Nothing here is an induction: a byte has eight bits, so that Bits and   *)
(* Field are unrolled (BitsAre, FieldUnrolled), and a preset has six calls *)
(* (PresetCall).  Written(f, p, k) is what the first k of them have fixed. *)
(***************************************************************************)
EXTENDS RadioConfig, TLAPS

(* The registers: bits, fields, and what each routine changes *)

\* The bits of a number, without powers.
LEMMA BitsAre ==
    ASSUME NEW n \in Nat
    PROVE  /\ 0 \in Bits(n) <=> n % 2 = 1
           /\ 1 \in Bits(n) <=> (n \div 2) % 2 = 1
           /\ 2 \in Bits(n) <=> (n \div 4) % 2 = 1
           /\ 3 \in Bits(n) <=> (n \div 8) % 2 = 1
           /\ 4 \in Bits(n) <=> (n \div 16) % 2 = 1
           /\ 5 \in Bits(n) <=> (n \div 32) % 2 = 1
           /\ 6 \in Bits(n) <=> (n \div 64) % 2 = 1
           /\ 7 \in Bits(n) <=> (n \div 128) % 2 = 1
           /\ Bits(n) \subseteq 0 .. 7
<1> DEFINE B(i) == (n \div 2^i) % 2 = 1
<1>1. /\ 2^0 = 1 /\ 2^1 = 2 /\ 2^2 = 4 /\ 2^3 = 8
      /\ 2^4 = 16 /\ 2^5 = 32 /\ 2^6 = 64 /\ 2^7 = 128
  OBVIOUS
<1>2. Bits(n) = {i \in 0 .. 7 : B(i)}
  BY DEF Bits
<1>3. B(0) <=> (n % 2 = 1)
  <2>1. n \div 1 = n
    OBVIOUS
  <2> QED  BY <1>1, <2>1
<1>4. /\ B(1) <=> ((n \div 2) % 2 = 1)
      /\ B(2) <=> ((n \div 4) % 2 = 1)
      /\ B(3) <=> ((n \div 8) % 2 = 1)
      /\ B(4) <=> ((n \div 16) % 2 = 1)
      /\ B(5) <=> ((n \div 32) % 2 = 1)
      /\ B(6) <=> ((n \div 64) % 2 = 1)
      /\ B(7) <=> ((n \div 128) % 2 = 1)
  BY <1>1
<1> HIDE DEF B
<1> QED  BY <1>2, <1>3, <1>4

\* The constants that the routines write or compare with.
LEMMA Constants ==
    /\ Bits(217) = {0, 3, 4, 6, 7} /\ Bits(135) = {0, 1, 2, 7} /\ Bits(132) = {2, 7}
    /\ Bits(195) = {0, 1, 6, 7} /\ Bits(10) = {1, 3} /\ Bits(0) = {}
    /\ Bits(5) = {0, 2} /\ Bits(6) = {1, 2} /\ Bits(7) = {0, 1, 2} /\ Bits(8) = {3}
    /\ Bits(15) = {0, 1, 2, 3} /\ Bits(17) = {0, 4} /\ Bits(32) = {5}
BY BitsAre

\* 868 MHz: the number of steps of 32 MHz / 2^19, and its three bytes.
LEMMA Frequency ==
    /\ Bits((868 * 2^14) \div 2^16) = Bits(217)
    /\ Bits((868 * 2^14) \div 2^8) = {}
    /\ Bits(868 * 2^14) = {}
<1>1. 868 * 2^14 = 14221312 /\ 2^16 = 65536 /\ 2^8 = 256
  OBVIOUS
<1>2. 14221312 \div 65536 = 217 /\ 14221312 \div 256 = 55552
  OBVIOUS
<1>3. Bits(55552) = {} /\ Bits(14221312) = {}
  BY BitsAre
<1> QED  BY <1>1, <1>2, <1>3

Bit(b, i) == IF i \in b THEN 1 ELSE 0

\* The recursion of Field comes to an end for fields within a byte.
LEMMA FieldUnrolled ==
    ASSUME NEW b, NEW first \in Nat, NEW last \in first .. first + 7
    PROVE  \E w : /\ Field(b, first, last) = w[first] /\ w[last + 1] = 0
                  /\ \A i \in first .. last : w[i] = Bit(b, i) + 2 * w[i + 1]
<1> DEFINE F(f) == [i \in first .. last + 1 |->
                      IF i > last THEN 0 ELSE (IF i \in b THEN 1 ELSE 0) + 2 * f[i + 1]]
           B(k) == Bit(b, last - k)
           s1 == B(0)
           s2 == B(1) + 2 * s1
           s3 == B(2) + 2 * s2
           s4 == B(3) + 2 * s3
           s5 == B(4) + 2 * s4
           s6 == B(5) + 2 * s5
           s7 == B(6) + 2 * s6
           s8 == B(7) + 2 * s7
           g == [i \in first .. last + 1 |->
                   IF i = last + 1 THEN 0 ELSE IF i = last THEN s1
                   ELSE IF i = last - 1 THEN s2 ELSE IF i = last - 2 THEN s3
                   ELSE IF i = last - 3 THEN s4 ELSE IF i = last - 4 THEN s5
                   ELSE IF i = last - 5 THEN s6 ELSE IF i = last - 6 THEN s7 ELSE s8]
           w == CHOOSE f : f = F(f)
<1>1. Field(b, first, last) = w[first]
  BY DEF Field
<1>2. \A k \in 0 .. 7 : B(k) \in Int /\ B(k) = Bit(b, last - k)
  BY DEF Bit
<1> HIDE DEF B
<1>3. /\ s1 \in Int /\ s1 = B(0) /\ s2 \in Int /\ s2 = B(1) + 2 * s1
      /\ s3 \in Int /\ s3 = B(2) + 2 * s2 /\ s4 \in Int /\ s4 = B(3) + 2 * s3
      /\ s5 \in Int /\ s5 = B(4) + 2 * s4 /\ s6 \in Int /\ s6 = B(5) + 2 * s5
      /\ s7 \in Int /\ s7 = B(6) + 2 * s6 /\ s8 \in Int /\ s8 = B(7) + 2 * s7
  BY <1>2
<1> HIDE DEF s1, s2, s3, s4, s5, s6, s7, s8
<1>4. g[last + 1] = 0 /\ \A i \in first .. last : g[i] = Bit(b, i) + 2 * g[i + 1]
  <2>1. g[last + 1] = 0
    OBVIOUS
  <2>2. ASSUME NEW i \in first .. last PROVE g[i] = Bit(b, i) + 2 * g[i + 1]
    <3>1. Bit(b, i) = B(last - i) /\ last - i \in 0 .. 7
      BY <1>2
    <3>2. CASE i = last
      BY <1>3, <3>1, <3>2
    <3>3. CASE i = last - 1
      BY <1>3, <3>1, <3>3
    <3>4. CASE i = last - 2
      BY <1>3, <3>1, <3>4
    <3>5. CASE i = last - 3
      BY <1>3, <3>1, <3>5
    <3>6. CASE i = last - 4
      BY <1>3, <3>1, <3>6
    <3>7. CASE i = last - 5
      BY <1>3, <3>1, <3>7
    <3>8. CASE i = last - 6
      BY <1>3, <3>1, <3>8
    <3>9. CASE i = last - 7
      BY <1>3, <3>1, <3>9
    <3> QED  BY <3>1, <3>2, <3>3, <3>4, <3>5, <3>6, <3>7, <3>8, <3>9
  <2> QED  BY <2>1, <2>2
<1>5. DOMAIN g = first .. last + 1 /\ g = [i \in first .. last + 1 |-> g[i]]
  OBVIOUS
<1> HIDE DEF g
<1>6. g = F(g)
  <2>1. \A i \in first .. last + 1 : g[i] = F(g)[i]
    BY <1>4 DEF Bit
  <2> QED  BY <1>5, <2>1
<1>7. w = F(w)
  <2> HIDE DEF F
  <2> QED  BY <1>6
<1> HIDE DEF w
<1>8. w[last + 1] = 0 /\ \A i \in first .. last : w[i] = Bit(b, i) + 2 * w[i + 1]
  BY <1>7 DEF Bit
<1> QED  BY <1>1, <1>8

\* A field of four bits.
LEMMA Field4 ==
    ASSUME NEW b, NEW first \in Nat
    PROVE  Field(b, first, first + 3) =
             Bit(b, first) + 2 * Bit(b, first + 1) + 4 * Bit(b, first + 2) + 8 * Bit(b, first + 3)
<1>1. PICK w : /\ Field(b, first, first + 3) = w[first] /\ w[first + 3 + 1] = 0
               /\ \A i \in first .. first + 3 : w[i] = Bit(b, i) + 2 * w[i + 1]
  <2>1. first + 3 \in first .. first + 7
    OBVIOUS
  <2> QED  BY <2>1, FieldUnrolled
<1>2. \A i \in Int : Bit(b, i) \in Int
  BY DEF Bit
<1>3. w[first + 3] = Bit(b, first + 3)
  BY <1>1, <1>2
<1>4. w[first + 2] = Bit(b, first + 2) + 2 * Bit(b, first + 3)
  BY <1>1, <1>2, <1>3
<1>5. w[first + 1] = Bit(b, first + 1) + 2 * Bit(b, first + 2) + 4 * Bit(b, first + 3)
  BY <1>1, <1>2, <1>4
<1> QED  BY <1>1, <1>2, <1>5

\* The two halves of a byte.
LEMMA HalfByte ==
    ASSUME NEW b
    PROVE  /\ Field(b, 0, 3) = Bit(b, 0) + 2 * Bit(b, 1) + 4 * Bit(b, 2) + 8 * Bit(b, 3)
           /\ Field(b, 4, 7) = Bit(b, 4) + 2 * Bit(b, 5) + 4 * Bit(b, 6) + 8 * Bit(b, 7)
<1>1. /\ Field(b, 0, 0 + 3) = Bit(b, 0) + 2 * Bit(b, 0 + 1) + 4 * Bit(b, 0 + 2) + 8 * Bit(b, 0 + 3)
      /\ Field(b, 4, 4 + 3) = Bit(b, 4) + 2 * Bit(b, 4 + 1) + 4 * Bit(b, 4 + 2) + 8 * Bit(b, 4 + 3)
  BY Field4
<1> QED  BY <1>1

\* A field of five bits.
LEMMA Field5 ==
    ASSUME NEW b
    PROVE  Field(b, 0, 4) =
             Bit(b, 0) + 2 * Bit(b, 1) + 4 * Bit(b, 2) + 8 * Bit(b, 3) + 16 * Bit(b, 4)
<1>1. PICK w : /\ Field(b, 0, 4) = w[0] /\ w[5] = 0
               /\ \A i \in 0 .. 4 : w[i] = Bit(b, i) + 2 * w[i + 1]
  <2>1. 0 \in Nat /\ 4 \in 0 .. 0 + 7 /\ 4 + 1 = 5
    OBVIOUS
  <2>2. \E w : /\ Field(b, 0, 4) = w[0] /\ w[4 + 1] = 0
               /\ \A i \in 0 .. 4 : w[i] = Bit(b, i) + 2 * w[i + 1]
    BY <2>1, FieldUnrolled
  <2> QED  BY <2>1, <2>2
<1>2. \A i \in Int : Bit(b, i) \in Int
  BY DEF Bit
<1>3. w[4] = Bit(b, 4)
  BY <1>1, <1>2
<1>4. w[3] = Bit(b, 3) + 2 * Bit(b, 4)
  BY <1>1, <1>2, <1>3
<1>5. w[2] = Bit(b, 2) + 2 * Bit(b, 3) + 4 * Bit(b, 4)
  BY <1>1, <1>2, <1>4
<1>6. w[1] = Bit(b, 1) + 2 * Bit(b, 2) + 4 * Bit(b, 3) + 8 * Bit(b, 4)
  BY <1>1, <1>2, <1>5
<1> QED  BY <1>1, <1>2, <1>6

\* A byte of which only the low half is used.
LEMMA Field8 ==
    ASSUME NEW b, b \subseteq 0 .. 3
    PROVE  Field(b, 0, 7) = Bit(b, 0) + 2 * Bit(b, 1) + 4 * Bit(b, 2) + 8 * Bit(b, 3)
<1>1. PICK w : /\ Field(b, 0, 7) = w[0] /\ w[8] = 0
               /\ \A i \in 0 .. 7 : w[i] = Bit(b, i) + 2 * w[i + 1]
  <2>1. 0 \in Nat /\ 7 \in 0 .. 0 + 7 /\ 7 + 1 = 8
    OBVIOUS
  <2>2. \E w : /\ Field(b, 0, 7) = w[0] /\ w[7 + 1] = 0
               /\ \A i \in 0 .. 7 : w[i] = Bit(b, i) + 2 * w[i + 1]
    BY <2>1, FieldUnrolled
  <2> QED  BY <2>1, <2>2
<1>2. /\ \A i \in Int : Bit(b, i) \in Int
      /\ Bit(b, 4) = 0 /\ Bit(b, 5) = 0 /\ Bit(b, 6) = 0 /\ Bit(b, 7) = 0
  BY DEF Bit
<1>3. w[7] = 0
  BY <1>1, <1>2
<1>4. w[6] = 0
  BY <1>1, <1>2, <1>3
<1>5. w[5] = 0
  BY <1>1, <1>2, <1>4
<1>6. w[4] = 0
  BY <1>1, <1>2, <1>5
<1>7. w[3] = Bit(b, 3)
  BY <1>1, <1>2, <1>6
<1>8. w[2] = Bit(b, 2) + 2 * Bit(b, 3)
  BY <1>1, <1>2, <1>7
<1>9. w[1] = Bit(b, 1) + 2 * Bit(b, 2) + 4 * Bit(b, 3)
  BY <1>1, <1>2, <1>8
<1> QED  BY <1>1, <1>2, <1>9

-----------------------------------------------------------------------------
(* The routines: the registers they set, and that they set no other *)

\* One register is written.
LEMMA Bytewise ==
    ASSUME NEW f \in RegisterFiles, NEW r \in Registers, NEW b \in Byte
    PROVE  /\ [f EXCEPT ![r] = b] \in RegisterFiles
           /\ [f EXCEPT ![r] = b][r] = b
           /\ \A q \in Registers \ {r} : [f EXCEPT ![r] = b][q] = f[q]
BY DEF RegisterFiles

\* What the routines compute is a byte.
LEMMA BitsByte ==
    /\ \A n : Bits(n) \in Byte
    /\ \A b, k : Shl(b, k) \in Byte
    /\ \A b, c : b \in Byte /\ c \in Byte =>
         b \cup c \in Byte /\ b \cap c \in Byte /\ b \ c \in Byte
    /\ \A f \in RegisterFiles, r \in Registers : f[r] \in Byte
    /\ \A b \in Byte : b \cap 0 .. 3 \in Byte
    /\ {} \in Byte /\ {2} \in Byte /\ {3} \in Byte /\ {5} \in Byte /\ {7} \in Byte
    /\ {0, 1} \in Byte
BY DEF Bits, Shl, Byte, RegisterFiles

\* set_low_data_rate_optimization, for any spreading factor.
LEMMA LowRate ==
    ASSUME NEW f \in RegisterFiles
    PROVE  LET g == set_low_data_rate_optimization(f)
           IN  /\ g \in RegisterFiles
               /\ \A q \in Registers \ {"MODEM_CONFIG_3"} : g[q] = f[q]
               /\ Field(f["MODEM_CONFIG_2"], 4, 7) < 11 => g["MODEM_CONFIG_3"] = {2}
<1> DEFINE sf == Field(f["MODEM_CONFIG_2"], 4, 7)
           bandwidth == Field(f["MODEM_CONFIG_1"], 4, 7)
           b == {2} \cup IF sf >= 11 /\ bandwidth = LORA_BANDWIDTH_125_KHZ THEN {3} ELSE {}
<1>1. set_low_data_rate_optimization(f) = [f EXCEPT !["MODEM_CONFIG_3"] = b]
  BY DEF set_low_data_rate_optimization, write_register
<1>2. b \in Byte
  BY BitsByte
<1>3. sf \in Int
  BY HalfByte DEF Bit
<1>4. sf < 11 => b = {2}
  <2> HIDE DEF sf
  <2> QED  BY <1>3
<1>5. "MODEM_CONFIG_3" \in Registers
  BY DEF Registers
<1> HIDE DEF b
<1> DEFINE h == [f EXCEPT !["MODEM_CONFIG_3"] = b]
<1> HIDE DEF sf
<1>6. h \in RegisterFiles /\ h["MODEM_CONFIG_3"] = b
      /\ \A q \in Registers \ {"MODEM_CONFIG_3"} : h[q] = f[q]
  BY <1>2, <1>5, Bytewise
<1> HIDE DEF h
<1>7. set_low_data_rate_optimization(f) = h
  BY <1>1 DEF h
<1> QED  BY <1>4, <1>6, <1>7 DEF sf

\* The spreading factor: 7 or 8.
LEMMA SpreadingFactor ==
    ASSUME NEW f \in RegisterFiles, NEW sf \in {7, 8}
    PROVE  LET g == lora_set_spreading_factor(f, sf)
           IN  /\ g \in RegisterFiles
               /\ g["MODEM_CONFIG_2"] = (f["MODEM_CONFIG_2"] \cap 0 .. 3) \cup Shl(Bits(sf), 4)
               /\ g["MODEM_CONFIG_3"] = {2}
               /\ g["DETECTION_OPTIMIZE"] = Bits(195) /\ g["DETECTION_THRESHOLD"] = Bits(10)
               /\ \A q \in Registers \ {"MODEM_CONFIG_2", "MODEM_CONFIG_3", "DETECTION_OPTIMIZE",
                                        "DETECTION_THRESHOLD"} : g[q] = f[q]
<1> DEFINE t1 == [f EXCEPT !["DETECTION_OPTIMIZE"] = Bits(195)]
           t2 == [t1 EXCEPT !["DETECTION_THRESHOLD"] = Bits(10)]
           b == (f["MODEM_CONFIG_2"] \cap 0 .. 3) \cup Shl(Bits(sf), 4)
           t3 == [t2 EXCEPT !["MODEM_CONFIG_2"] = b]
<1>1. {"MODEM_CONFIG_2", "MODEM_CONFIG_3", "DETECTION_OPTIMIZE", "DETECTION_THRESHOLD"}
         \subseteq Registers
  BY DEF Registers
<1>2. lora_set_spreading_factor(f, sf) = set_low_data_rate_optimization(t3)
  <2>1. \hc3 = 195 /\ \h0a = 10 /\ (IF sf < 6 THEN 6 ELSE IF sf > 12 THEN 12 ELSE sf) = sf /\ sf # 6
    OBVIOUS
  <2>2. t2 = [f EXCEPT !["DETECTION_OPTIMIZE"] = Bits(195), !["DETECTION_THRESHOLD"] = Bits(10)]
    OBVIOUS
  <2> QED  BY <2>1, <2>2 DEF lora_set_spreading_factor, write_register
<1>3. b \in Byte
  BY <1>1, BitsByte
<1>4. b \cap 4 .. 7 = Shl(Bits(sf), 4)
  <2>1. Bits(sf) \subseteq 0 .. 7
    BY DEF Bits
  <2>2. \A i \in Shl(Bits(sf), 4) : i \in 4 .. 7
    BY <2>1 DEF Shl
  <2> QED  BY <2>2
<1> HIDE DEF b
<1>5. /\ t1 \in RegisterFiles /\ t1["DETECTION_OPTIMIZE"] = Bits(195)
      /\ \A q \in Registers \ {"DETECTION_OPTIMIZE"} : t1[q] = f[q]
  BY <1>1, Bytewise, BitsByte
<1> HIDE DEF t1
<1>6. /\ t2 \in RegisterFiles /\ t2["DETECTION_THRESHOLD"] = Bits(10)
      /\ \A q \in Registers \ {"DETECTION_THRESHOLD"} : t2[q] = t1[q]
  BY <1>1, <1>5, Bytewise, BitsByte
<1> HIDE DEF t2
<1>7. /\ t3 \in RegisterFiles /\ t3["MODEM_CONFIG_2"] = b
      /\ \A q \in Registers \ {"MODEM_CONFIG_2"} : t3[q] = t2[q]
  BY <1>1, <1>3, <1>6, Bytewise
<1> HIDE DEF t3
<1>8. Field(t3["MODEM_CONFIG_2"], 4, 7) < 11
  <2>1. Field(b, 4, 7) = Bit(b, 4) + 2 * Bit(b, 5) + 4 * Bit(b, 6) + 8 * Bit(b, 7)
    BY HalfByte
  <2>2. \A i \in 4 .. 7 : i \in b <=> i - 4 \in Bits(sf)
    BY <1>4 DEF Shl
  <2>3. CASE sf = 7
    BY <2>1, <2>2, <2>3, <1>7, Constants DEF Bit
  <2>4. CASE sf = 8
    BY <2>1, <2>2, <2>4, <1>7, Constants DEF Bit
  <2> QED  BY <2>3, <2>4
<1> DEFINE g == lora_set_spreading_factor(f, sf)
<1>9. /\ g \in RegisterFiles /\ g["MODEM_CONFIG_3"] = {2}
      /\ \A q \in Registers \ {"MODEM_CONFIG_3"} : g[q] = t3[q]
  BY <1>2, <1>7, <1>8, LowRate
<1> HIDE DEF g
<1>10. /\ g["MODEM_CONFIG_2"] = b
       /\ g["DETECTION_OPTIMIZE"] = Bits(195) /\ g["DETECTION_THRESHOLD"] = Bits(10)
       /\ \A q \in Registers \ {"MODEM_CONFIG_2", "MODEM_CONFIG_3", "DETECTION_OPTIMIZE",
                               "DETECTION_THRESHOLD"} : g[q] = f[q]
  BY <1>1, <1>5, <1>6, <1>7, <1>9
<1> QED  BY <1>9, <1>10 DEF b, g

\* The bandwidth and the coding rate of the presets.
LEMMA SignalBandwidth ==
    ASSUME NEW f \in RegisterFiles, NEW bw
    PROVE  LET g == lora_set_signal_bandwidth(f, bw)
           IN  /\ g \in RegisterFiles
               /\ g["MODEM_CONFIG_1"] = (f["MODEM_CONFIG_1"] \cap 0 .. 3) \cup Shl(Bits(bw), 4)
               /\ Field(f["MODEM_CONFIG_2"], 4, 7) < 11 => g["MODEM_CONFIG_3"] = {2}
               /\ \A q \in Registers \ {"MODEM_CONFIG_1", "MODEM_CONFIG_3"} : g[q] = f[q]
<1> DEFINE b == (f["MODEM_CONFIG_1"] \cap 0 .. 3) \cup Shl(Bits(bw), 4)
           t == [f EXCEPT !["MODEM_CONFIG_1"] = b]
<1>1. {"MODEM_CONFIG_1", "MODEM_CONFIG_2", "MODEM_CONFIG_3"} \subseteq Registers
  BY DEF Registers
<1>2. lora_set_signal_bandwidth(f, bw) = set_low_data_rate_optimization(t)
  BY DEF lora_set_signal_bandwidth, write_register
<1>3. b \in Byte
  BY <1>1, BitsByte
<1> HIDE DEF b
<1>4. /\ t \in RegisterFiles /\ t["MODEM_CONFIG_1"] = b
      /\ \A q \in Registers \ {"MODEM_CONFIG_1"} : t[q] = f[q]
  BY <1>1, <1>3, Bytewise
<1> HIDE DEF t
<1> DEFINE g == lora_set_signal_bandwidth(f, bw)
<1>5. /\ g \in RegisterFiles /\ \A q \in Registers \ {"MODEM_CONFIG_3"} : g[q] = t[q]
      /\ Field(t["MODEM_CONFIG_2"], 4, 7) < 11 => g["MODEM_CONFIG_3"] = {2}
  BY <1>2, <1>4, LowRate
<1> HIDE DEF g
<1>6. t["MODEM_CONFIG_2"] = f["MODEM_CONFIG_2"] /\ g["MODEM_CONFIG_1"] = b
  BY <1>1, <1>4, <1>5
<1>7. Field(f["MODEM_CONFIG_2"], 4, 7) < 11 => g["MODEM_CONFIG_3"] = {2}
  BY <1>5, <1>6
<1>8. \A q \in Registers \ {"MODEM_CONFIG_1", "MODEM_CONFIG_3"} : g[q] = f[q]
  BY <1>4, <1>5
<1> QED  BY <1>5, <1>6, <1>7, <1>8 DEF b, g

\* The bits of the rate are added to those of the rate before.
LEMMA CodingRate ==
    ASSUME NEW f \in RegisterFiles, NEW rate
    PROVE  LET g == lora_set_coding_rate(f, rate)
           IN  /\ g \in RegisterFiles
               /\ g["MODEM_CONFIG_1"] = f["MODEM_CONFIG_1"] \cup Shl(Bits(rate), 1)
               /\ \A q \in Registers \ {"MODEM_CONFIG_1"} : g[q] = f[q]
<1> DEFINE b == f["MODEM_CONFIG_1"] \cup Shl(Bits(rate), 1)
           t == [f EXCEPT !["MODEM_CONFIG_1"] = b]
<1>1. "MODEM_CONFIG_1" \in Registers
  BY DEF Registers
<1>2. lora_set_coding_rate(f, rate) = t
  BY DEF lora_set_coding_rate, write_register
<1>3. b \in Byte
  BY <1>1, BitsByte
<1> HIDE DEF b
<1>4. /\ t \in RegisterFiles /\ t["MODEM_CONFIG_1"] = b
      /\ \A q \in Registers \ {"MODEM_CONFIG_1"} : t[q] = f[q]
  BY <1>1, <1>3, Bytewise
<1> HIDE DEF t
<1> QED  BY <1>2, <1>4 DEF b

\* The CRC bit is set or cleared.
LEMMA Crc ==
    ASSUME NEW f \in RegisterFiles, NEW enable
    PROVE  LET g == lora_set_crc(f, enable)
           IN  /\ g \in RegisterFiles
               /\ g["MODEM_CONFIG_2"] = IF enable # 0 THEN f["MODEM_CONFIG_2"] \cup {2}
                                                      ELSE f["MODEM_CONFIG_2"] \ {2}
               /\ \A q \in Registers \ {"MODEM_CONFIG_2"} : g[q] = f[q]
<1> DEFINE b == IF enable # 0 THEN f["MODEM_CONFIG_2"] \cup {2} ELSE f["MODEM_CONFIG_2"] \ {2}
           t == [f EXCEPT !["MODEM_CONFIG_2"] = b]
<1>1. "MODEM_CONFIG_2" \in Registers
  BY DEF Registers
<1>2. lora_set_crc(f, enable) = t
  BY DEF lora_set_crc, write_register
<1>3. b \in Byte
  BY <1>1, BitsByte
<1> HIDE DEF b
<1>4. /\ t \in RegisterFiles /\ t["MODEM_CONFIG_2"] = b
      /\ \A q \in Registers \ {"MODEM_CONFIG_2"} : t[q] = f[q]
  BY <1>1, <1>3, Bytewise
<1> HIDE DEF t
<1> QED  BY <1>2, <1>4 DEF b

\* Bit 0 of MODEM_CONFIG_1 is cleared.
LEMMA ExplicitHeader ==
    ASSUME NEW f \in RegisterFiles
    PROVE  LET g == lora_set_explicit_header_mode(f)
           IN  /\ g \in RegisterFiles
               /\ g["MODEM_CONFIG_1"] = f["MODEM_CONFIG_1"] \ {0}
               /\ \A q \in Registers \ {"MODEM_CONFIG_1"} : g[q] = f[q]
<1> DEFINE b == f["MODEM_CONFIG_1"] \ {0}
           t == [f EXCEPT !["MODEM_CONFIG_1"] = b]
<1>1. "MODEM_CONFIG_1" \in Registers
  BY DEF Registers
<1>2. lora_set_explicit_header_mode(f) = t
  BY DEF lora_set_explicit_header_mode, write_register
<1>3. b \in Byte
  BY <1>1, BitsByte DEF Byte
<1> HIDE DEF b
<1>4. /\ t \in RegisterFiles /\ t["MODEM_CONFIG_1"] = b
      /\ \A q \in Registers \ {"MODEM_CONFIG_1"} : t[q] = f[q]
  BY <1>1, <1>3, Bytewise
<1> HIDE DEF t
<1> QED  BY <1>2, <1>4 DEF b

\* Both touch registers no preset looks at, or writes again.
LEMMA LnaAndAgc ==
    ASSUME NEW f \in RegisterFiles
    PROVE  /\ set_lna_boost(f) \in RegisterFiles
           /\ \A q \in Registers \ {"LNA"} : set_lna_boost(f)[q] = f[q]
           /\ set_auto_agc(f) \in RegisterFiles
           /\ \A q \in Registers \ {"MODEM_CONFIG_3"} : set_auto_agc(f)[q] = f[q]
<1> DEFINE b == f["LNA"] \cup {0, 1}
           t == [f EXCEPT !["LNA"] = b]
           u == [f EXCEPT !["MODEM_CONFIG_3"] = {2}]
<1>1. "LNA" \in Registers /\ "MODEM_CONFIG_3" \in Registers
  BY DEF Registers
<1>2. set_lna_boost(f) = t /\ set_auto_agc(f) = u
  BY DEF set_lna_boost, set_auto_agc, write_register
<1>3. b \in Byte /\ {2} \in Byte
  BY <1>1, BitsByte
<1> HIDE DEF b
<1>4. t \in RegisterFiles /\ \A q \in Registers \ {"LNA"} : t[q] = f[q]
  BY <1>1, <1>3, Bytewise
<1>5. u \in RegisterFiles /\ \A q \in Registers \ {"MODEM_CONFIG_3"} : u[q] = f[q]
  BY <1>1, <1>3, Bytewise
<1> HIDE DEF t, u
<1> QED  BY <1>2, <1>4, <1>5

\* The three bytes of the only frequency in use.
LEMMA CarrierFrequency ==
    ASSUME NEW f \in RegisterFiles
    PROVE  LET g == lora_set_frequency(f, 868)
           IN  /\ g \in RegisterFiles
               /\ g["FRF_MSB"] = Bits(217) /\ g["FRF_MID"] = {} /\ g["FRF_LSB"] = {}
               /\ \A q \in Registers \ {"FRF_MSB", "FRF_MID", "FRF_LSB"} : g[q] = f[q]
<1> DEFINE t1 == [f EXCEPT !["FRF_MSB"] = Bits(217)]
           t2 == [t1 EXCEPT !["FRF_MID"] = {}]
           t3 == [t2 EXCEPT !["FRF_LSB"] = {}]
<1>1. {"FRF_MSB", "FRF_MID", "FRF_LSB"} \subseteq Registers
  BY DEF Registers
<1>2. lora_set_frequency(f, 868) = t3
  <2> DEFINE msb == Bits((868 * 2^14) \div 2^16)
             mid == Bits((868 * 2^14) \div 2^8)
             lsb == Bits(868 * 2^14)
  <2>1. msb = Bits(217) /\ mid = {} /\ lsb = {}
    BY Frequency
  <2>2. lora_set_frequency(f, 868) =
          [f EXCEPT !["FRF_MSB"] = msb, !["FRF_MID"] = mid, !["FRF_LSB"] = lsb]
    BY DEF lora_set_frequency
  <2> HIDE DEF msb, mid, lsb
  <2> QED  BY <2>1, <2>2
<1>3. /\ t1 \in RegisterFiles /\ t1["FRF_MSB"] = Bits(217)
      /\ \A q \in Registers \ {"FRF_MSB"} : t1[q] = f[q]
  BY <1>1, Bytewise, BitsByte
<1> HIDE DEF t1
<1>4. /\ t2 \in RegisterFiles /\ t2["FRF_MID"] = {}
      /\ \A q \in Registers \ {"FRF_MID"} : t2[q] = t1[q]
  BY <1>1, <1>3, Bytewise, BitsByte
<1> HIDE DEF t2
<1>5. /\ t3 \in RegisterFiles /\ t3["FRF_LSB"] = {}
      /\ \A q \in Registers \ {"FRF_LSB"} : t3[q] = t2[q]
  BY <1>1, <1>4, Bytewise, BitsByte
<1> HIDE DEF t3
<1> QED  BY <1>1, <1>2, <1>3, <1>4, <1>5

\* A length of one byte, of which four bits arrive.
LEMMA PreambleLength ==
    ASSUME NEW f \in RegisterFiles, NEW len \in 0 .. 255
    PROVE  LET g == lora_set_preamble_length(f, len)
           IN  /\ g \in RegisterFiles
               /\ g["PREAMBLE_MSB"] = {} /\ g["PREAMBLE_LSB"] = Bits(len) \cap 0 .. 3
               /\ \A q \in Registers \ {"PREAMBLE_MSB", "PREAMBLE_LSB"} : g[q] = f[q]
<1> DEFINE b == Bits(len) \cap 0 .. 3
           t1 == [f EXCEPT !["PREAMBLE_MSB"] = {}]
           t2 == [t1 EXCEPT !["PREAMBLE_LSB"] = b]
<1>1. {"PREAMBLE_MSB", "PREAMBLE_LSB"} \subseteq Registers
  BY DEF Registers
<1>2. lora_set_preamble_length(f, len) = t2
  <2>1. Bits(len \div 2^8) = {}
    <3>1. len \div 2^8 = 0
      OBVIOUS
    <3> QED  BY <3>1, Constants
  <2>2. lora_set_preamble_length(f, len) =
          [f EXCEPT !["PREAMBLE_MSB"] = Bits(len \div 2^8), !["PREAMBLE_LSB"] = b]
    BY DEF lora_set_preamble_length
  <2>3. @ = [f EXCEPT !["PREAMBLE_MSB"] = {}, !["PREAMBLE_LSB"] = b]
    BY <2>1, Zenon
  <2> QED  BY <2>2, <2>3
<1>3. b \in Byte
  BY BitsByte
<1> HIDE DEF b
<1>4. /\ t1 \in RegisterFiles /\ t1["PREAMBLE_MSB"] = {}
      /\ \A q \in Registers \ {"PREAMBLE_MSB"} : t1[q] = f[q]
  BY <1>1, Bytewise, BitsByte
<1> HIDE DEF t1
<1>5. /\ t2 \in RegisterFiles /\ t2["PREAMBLE_LSB"] = b
      /\ \A q \in Registers \ {"PREAMBLE_LSB"} : t2[q] = t1[q]
  BY <1>1, <1>3, <1>4, Bytewise
<1> HIDE DEF t2
<1> QED  BY <1>1, <1>2, <1>4, <1>5 DEF b

\* The output power: of the init, of the short and of the long preset.
LEMMA TxPower ==
    ASSUME NEW f \in RegisterFiles, NEW level \in {10, 17, 20}
    PROVE  LET g == lora_set_tx_power(f, level)
           IN  /\ g \in RegisterFiles
               /\ level = 20 => /\ g["PA_DAC"] = Bits(135) /\ g["OCP"] = {5} \cup Bits(17)
                                /\ g["PA_CONFIG"] = {7} \cup Bits(15)
               /\ level = 10 => /\ g["PA_DAC"] = Bits(132) /\ g["OCP"] = {5} \cup Bits(10)
                                /\ g["PA_CONFIG"] = {7} \cup Bits(8)
               /\ \A q \in Registers \ {"PA_DAC", "OCP", "PA_CONFIG"} : g[q] = f[q]
<1> DEFINE high == level > 17
           dac == IF high THEN Bits(135) ELSE Bits(132)
           ocp == {5} \cup IF high THEN Bits(17) ELSE Bits(10)
           pa == {7} \cup IF high THEN Bits(15) ELSE Bits(level - 2)
           t1 == [f EXCEPT !["PA_DAC"] = dac]
           t2 == [t1 EXCEPT !["OCP"] = ocp]
           t3 == [t2 EXCEPT !["PA_CONFIG"] = pa]
<1>1. {"PA_DAC", "OCP", "PA_CONFIG"} \subseteq Registers
  BY DEF Registers
<1>2. \A h : /\ set_OCP(h, 140) = [h EXCEPT !["OCP"] = {5} \cup Bits(17)]
             /\ set_OCP(h, 97) = [h EXCEPT !["OCP"] = {5} \cup Bits(10)]
  <2>1. (140 + 30) \div 10 = 17 /\ (97 - 45) \div 5 = 10
    OBVIOUS
  <2> QED  BY <2>1 DEF set_OCP, write_register
<1>3. lora_set_tx_power(f, level) = t3
  <2>1. \h87 = 135 /\ \h84 = 132
    OBVIOUS
  <2>2. CASE high
    <3>1. level = 20 /\ level - 3 - 2 = 15
      BY <2>2
    <3> QED  BY <1>2, <2>1, <2>2, <3>1 DEF lora_set_tx_power, write_register
  <2>3. CASE ~high
    BY <1>2, <2>1, <2>3 DEF lora_set_tx_power, write_register
  <2> QED  BY <2>2, <2>3
<1>4. dac \in Byte /\ ocp \in Byte /\ pa \in Byte
  <2>1. \A b : b \in Byte => {5} \cup b \in Byte /\ {7} \cup b \in Byte
    BY BitsByte, Zenon
  <2>2. \A n : Bits(n) \in Byte
    BY BitsByte, Zenon
  <2>3. /\ dac \in Byte /\ (IF high THEN Bits(17) ELSE Bits(10)) \in Byte
        /\ (IF high THEN Bits(15) ELSE Bits(level - 2)) \in Byte
    BY <2>2
  <2> QED  BY <2>1, <2>3, Zenon
<1>5. /\ level = 20 => dac = Bits(135) /\ ocp = {5} \cup Bits(17) /\ pa = {7} \cup Bits(15)
      /\ level = 10 => dac = Bits(132) /\ ocp = {5} \cup Bits(10) /\ pa = {7} \cup Bits(8)
  OBVIOUS
<1> HIDE DEF dac, ocp, pa
<1>6. /\ t1 \in RegisterFiles /\ t1["PA_DAC"] = dac
      /\ \A q \in Registers \ {"PA_DAC"} : t1[q] = f[q]
  BY <1>1, <1>4, Bytewise
<1> HIDE DEF t1
<1>7. /\ t2 \in RegisterFiles /\ t2["OCP"] = ocp
      /\ \A q \in Registers \ {"OCP"} : t2[q] = t1[q]
  BY <1>1, <1>4, <1>6, Bytewise
<1> HIDE DEF t2
<1>8. /\ t3 \in RegisterFiles /\ t3["PA_CONFIG"] = pa
      /\ \A q \in Registers \ {"PA_CONFIG"} : t3[q] = t2[q]
  BY <1>1, <1>4, <1>7, Bytewise
<1> HIDE DEF t3
<1>9. /\ t3["PA_DAC"] = dac /\ t3["OCP"] = ocp
      /\ \A q \in Registers \ {"PA_DAC", "OCP", "PA_CONFIG"} : t3[q] = f[q]
  BY <1>1, <1>6, <1>7, <1>8
<1> QED  BY <1>3, <1>5, <1>8, <1>9

-----------------------------------------------------------------------------
(* The calls of LoRa::init and of the presets, in their order *)

\* What a preset relies on and does not write itself: lora_init has written it.
Tuned(f) ==
    /\ f["FRF_MSB"] = Bits(217) /\ f["FRF_MID"] = {} /\ f["FRF_LSB"] = {}
    /\ 0 \notin f["MODEM_CONFIG_1"]

\* The registers after the first k calls of preset p.
Written(f, p, k) ==
    /\ k >= 1 => /\ f["MODEM_CONFIG_2"] \cap 4 .. 7 = Shl(Bits(Wanted[p].sf), 4)
                 /\ f["MODEM_CONFIG_3"] = {2}
                 /\ f["DETECTION_OPTIMIZE"] = Bits(195) /\ f["DETECTION_THRESHOLD"] = Bits(10)
    /\ k >= 2 => f["MODEM_CONFIG_1"] \cap 4 .. 7 = Shl(Bits(Wanted[p].bw), 4)
    /\ k >= 4 => IF p = "long"
                 THEN /\ f["PA_DAC"] = Bits(135) /\ f["OCP"] = {5} \cup Bits(17)
                      /\ f["PA_CONFIG"] = {7} \cup Bits(15)
                 ELSE /\ f["PA_DAC"] = Bits(132) /\ f["OCP"] = {5} \cup Bits(10)
                      /\ f["PA_CONFIG"] = {7} \cup Bits(8)
    /\ k >= 5 => /\ f["PREAMBLE_MSB"] = {}
                 /\ f["PREAMBLE_LSB"] = Bits(Wanted[p].preamble) \cap 0 .. 3
    /\ k >= 6 => ((2 \in f["MODEM_CONFIG_2"]) <=> (Wanted[p].crc # 0))

\* The numbers of the two presets.
LEMMA WantedAre ==
    /\ Wanted["long"].sf = 8 /\ Wanted["long"].bw = 6 /\ Wanted["long"].cr = 32
    /\ Wanted["long"].power = 20 /\ Wanted["long"].preamble = 10 /\ Wanted["long"].crc = 1
    /\ Wanted["short"].sf = 7 /\ Wanted["short"].bw = 7 /\ Wanted["short"].cr = 8
    /\ Wanted["short"].power = 10 /\ Wanted["short"].preamble = 5 /\ Wanted["short"].crc = 0
BY DEF Wanted, LORA_BANDWIDTH_62_5_KHZ, LORA_BANDWIDTH_125_KHZ

\* Which bits the fields of the presets set.
LEMMA ShiftedAre ==
    /\ Shl(Bits(8), 4) = {7} /\ Shl(Bits(7), 4) = {4, 5, 6} /\ Shl(Bits(6), 4) = {5, 6}
    /\ Shl(Bits(32), 1) = {6} /\ Shl(Bits(8), 1) = {4}
<1>1. Bits(8) = {3} /\ Bits(7) = {0, 1, 2} /\ Bits(6) = {1, 2} /\ Bits(32) = {5}
  BY Constants
<1>2. /\ Shl({3}, 4) = {7} /\ Shl({0, 1, 2}, 4) = {4, 5, 6} /\ Shl({1, 2}, 4) = {5, 6}
      /\ Shl({5}, 1) = {6} /\ Shl({3}, 1) = {4}
  BY DEF Shl
<1> QED  BY <1>1, <1>2

\* Which routine each call reaches.
LEMMA Dispatch ==
    ASSUME NEW f, NEW n
    PROVE  /\ Apply(f, Call("frequency", n)) = lora_set_frequency(f, n)
           /\ Apply(f, Call("spreading_factor", n)) = lora_set_spreading_factor(f, n)
           /\ Apply(f, Call("signal_bandwidth", n)) = lora_set_signal_bandwidth(f, n)
           /\ Apply(f, Call("coding_rate", n)) = lora_set_coding_rate(f, n)
           /\ Apply(f, Call("tx_power", n)) = lora_set_tx_power(f, n)
           /\ Apply(f, Call("preamble_length", n)) = lora_set_preamble_length(f, n)
           /\ Apply(f, Call("crc", n)) = lora_set_crc(f, n)
           /\ Apply(f, Call("explicit_header", n)) = lora_set_explicit_header_mode(f)
           /\ Apply(f, Call("lna_boost", n)) = set_lna_boost(f)
           /\ Apply(f, Call("auto_agc", n)) = set_auto_agc(f)
BY DEF Apply, Call

\* lora_init: each of its calls, and what it establishes for the presets.
LEMMA InitCall ==
    ASSUME NEW f \in RegisterFiles, NEW i \in 1 .. 7
    PROVE  LET g == Apply(f, InitCalls[i])
           IN  /\ g \in RegisterFiles
               /\ i = 1 => g["FRF_MSB"] = Bits(217) /\ g["FRF_MID"] = {} /\ g["FRF_LSB"] = {}
               /\ i > 1 => \A q \in {"FRF_MSB", "FRF_MID", "FRF_LSB"} : g[q] = f[q]
               /\ i = 4 => 0 \notin g["MODEM_CONFIG_1"]
               /\ i > 4 => g["MODEM_CONFIG_1"] = f["MODEM_CONFIG_1"]
<1> USE DEF Registers
<1>1. /\ InitCalls[1] = Call("frequency", 868) /\ InitCalls[2] = Call("spreading_factor", 7)
      /\ InitCalls[3] = Call("preamble_length", 10) /\ InitCalls[4] = Call("explicit_header", 0)
      /\ InitCalls[5] = Call("lna_boost", 3) /\ InitCalls[6] = Call("auto_agc", 4)
      /\ InitCalls[7] = Call("tx_power", 17)
  BY DEF InitCalls
<1>2. CASE i = 1
  BY <1>1, <1>2, Dispatch, CarrierFrequency
<1>3. CASE i = 2
  BY <1>1, <1>3, Dispatch, SpreadingFactor
<1>4. CASE i = 3
  <2> DEFINE g == Apply(f, InitCalls[i])
  <2>1. g = lora_set_preamble_length(f, 10)
    BY <1>1, <1>4, Dispatch
  <2> HIDE DEF g
  <2>2. g \in RegisterFiles /\ \A q \in Registers \ {"PREAMBLE_MSB", "PREAMBLE_LSB"} : g[q] = f[q]
    <3> DEFINE h == lora_set_preamble_length(f, 10)
    <3>1. h \in RegisterFiles /\ \A q \in Registers \ {"PREAMBLE_MSB", "PREAMBLE_LSB"} : h[q] = f[q]
      <4> HIDE DEF Registers
      <4>1. 10 \in 0 .. 255
        OBVIOUS
      <4> QED  BY <4>1, PreambleLength
    <3> HIDE DEF h
    <3>2. g = h
      BY <2>1 DEF h
    <3> QED  BY <3>1, <3>2
  <2>3. \A q \in {"FRF_MSB", "FRF_MID", "FRF_LSB"} : g[q] = f[q]
    BY <2>2
  <2> QED  BY <1>4, <2>2, <2>3 DEF g
<1>5. CASE i = 4
  BY <1>1, <1>5, Dispatch, ExplicitHeader
<1>6. CASE i = 5 \/ i = 6
  BY <1>1, <1>6, Dispatch, LnaAndAgc
<1>7. CASE i = 7
  BY <1>1, <1>7, Dispatch, TxPower
<1> QED  BY <1>2, <1>3, <1>4, <1>5, <1>6, <1>7

\* With this spreading factor there is no low data rate optimisation.
LEMMA SpreadingField ==
    ASSUME NEW p \in {"long", "short"}, NEW b, b \cap 4 .. 7 = Shl(Bits(Wanted[p].sf), 4)
    PROVE  Field(b, 4, 7) = Wanted[p].sf
<1>1. CASE p = "long"
  <2>1. b \cap 4 .. 7 = {7}
    BY <1>1, WantedAre, ShiftedAre
  <2>2. 4 \notin b /\ 5 \notin b /\ 6 \notin b /\ 7 \in b
    BY <2>1
  <2> QED  BY <1>1, <2>2, WantedAre, HalfByte DEF Bit
<1>2. CASE p = "short"
  <2>1. b \cap 4 .. 7 = {4, 5, 6}
    BY <1>2, WantedAre, ShiftedAre
  <2>2. 4 \in b /\ 5 \in b /\ 6 \in b /\ 7 \notin b
    BY <2>1
  <2> QED  BY <1>2, <2>2, WantedAre, HalfByte DEF Bit
<1> QED  BY <1>1, <1>2

\* LoRa::set_long_range, LoRa::set_short_range: each call.
LEMMA PresetCall ==
    ASSUME NEW f \in RegisterFiles, NEW p \in {"long", "short"}, NEW k \in 0 .. 5,
           Tuned(f), Written(f, p, k)
    PROVE  LET g == Apply(f, PresetCalls(p)[k + 1])
           IN  g \in RegisterFiles /\ Tuned(g) /\ Written(g, p, k + 1)
<1> DEFINE g == Apply(f, PresetCalls(p)[k + 1])
<1> SUFFICES g \in RegisterFiles /\ Tuned(g) /\ Written(g, p, k + 1)
  OBVIOUS
<1> DEFINE Same(q) == g[q] = f[q]
<1>0. /\ {"FRF_MSB", "FRF_MID", "FRF_LSB", "PA_CONFIG", "OCP", "MODEM_CONFIG_1", "MODEM_CONFIG_2",
           "PREAMBLE_MSB", "PREAMBLE_LSB", "MODEM_CONFIG_3"} \subseteq Registers
      /\ {"DETECTION_OPTIMIZE", "DETECTION_THRESHOLD", "PA_DAC"} \subseteq Registers
  BY DEF Registers
<1>1. /\ PresetCalls(p)[1] = Call("spreading_factor", Wanted[p].sf)
      /\ PresetCalls(p)[2] = Call("signal_bandwidth", Wanted[p].bw)
      /\ PresetCalls(p)[3] = Call("coding_rate", Wanted[p].cr)
      /\ PresetCalls(p)[4] = Call("tx_power", Wanted[p].power)
      /\ PresetCalls(p)[5] = Call("preamble_length", Wanted[p].preamble)
      /\ PresetCalls(p)[6] = Call("crc", Wanted[p].crc)
  BY DEF PresetCalls
<1>2. CASE k = 0
  <2>1. g = lora_set_spreading_factor(f, Wanted[p].sf) /\ Wanted[p].sf \in {7, 8}
    BY <1>1, <1>2, Dispatch, WantedAre
  <2>2. g["MODEM_CONFIG_2"] \cap 4 .. 7 = Shl(Bits(Wanted[p].sf), 4)
    <3>1. g["MODEM_CONFIG_2"] = (f["MODEM_CONFIG_2"] \cap 0 .. 3) \cup Shl(Bits(Wanted[p].sf), 4)
      BY <2>1, SpreadingFactor
    <3>2. Shl(Bits(Wanted[p].sf), 4) \subseteq 4 .. 7
      BY ShiftedAre, WantedAre
    <3> QED  BY <3>1, <3>2
  <2>3. /\ g \in RegisterFiles /\ g["MODEM_CONFIG_3"] = {2}
        /\ g["DETECTION_OPTIMIZE"] = Bits(195) /\ g["DETECTION_THRESHOLD"] = Bits(10)
        /\ Same("FRF_MSB") /\ Same("FRF_MID") /\ Same("FRF_LSB") /\ Same("MODEM_CONFIG_1")
    BY <1>0, <2>1, SpreadingFactor
  <2> HIDE DEF g
  <2> QED  BY <1>2, <2>2, <2>3 DEF Tuned, Written
<1>3. CASE k = 1
  <2>1. g = lora_set_signal_bandwidth(f, Wanted[p].bw)
    BY <1>1, <1>3, Dispatch
  <2>2. Field(f["MODEM_CONFIG_2"], 4, 7) < 11
    BY <1>3, SpreadingField, WantedAre DEF Written
  <2>3. /\ g["MODEM_CONFIG_1"] \cap 4 .. 7 = Shl(Bits(Wanted[p].bw), 4)
        /\ 0 \notin g["MODEM_CONFIG_1"]
    <3>1. g["MODEM_CONFIG_1"] = (f["MODEM_CONFIG_1"] \cap 0 .. 3) \cup Shl(Bits(Wanted[p].bw), 4)
      BY <2>1, SignalBandwidth
    <3>2. Shl(Bits(Wanted[p].bw), 4) \subseteq 4 .. 7
      BY ShiftedAre, WantedAre
    <3> QED  BY <3>1, <3>2 DEF Tuned
  <2>4. /\ g \in RegisterFiles /\ g["MODEM_CONFIG_3"] = {2}
        /\ Same("FRF_MSB") /\ Same("FRF_MID") /\ Same("FRF_LSB") /\ Same("MODEM_CONFIG_2")
        /\ Same("DETECTION_OPTIMIZE") /\ Same("DETECTION_THRESHOLD")
    BY <1>0, <2>1, <2>2, SignalBandwidth
  <2> HIDE DEF g
  <2> QED  BY <1>3, <2>3, <2>4 DEF Tuned, Written
<1>4. CASE k = 2
  <2>1. g = lora_set_coding_rate(f, Wanted[p].cr)
    BY <1>1, <1>4, Dispatch
  <2>2. /\ g["MODEM_CONFIG_1"] \cap 4 .. 7 = Shl(Bits(Wanted[p].bw), 4)
        /\ 0 \notin g["MODEM_CONFIG_1"]
    <3>1. g["MODEM_CONFIG_1"] = f["MODEM_CONFIG_1"] \cup Shl(Bits(Wanted[p].cr), 1)
      BY <2>1, CodingRate
    <3>2. /\ Shl(Bits(Wanted[p].cr), 1) \subseteq Shl(Bits(Wanted[p].bw), 4)
          /\ Shl(Bits(Wanted[p].bw), 4) \subseteq 4 .. 7
      BY ShiftedAre, WantedAre
    <3> QED  BY <1>4, <3>1, <3>2 DEF Tuned, Written
  <2>3. /\ g \in RegisterFiles /\ Same("MODEM_CONFIG_2") /\ Same("MODEM_CONFIG_3")
        /\ Same("FRF_MSB") /\ Same("FRF_MID") /\ Same("FRF_LSB")
        /\ Same("DETECTION_OPTIMIZE") /\ Same("DETECTION_THRESHOLD")
    BY <1>0, <2>1, CodingRate
  <2> HIDE DEF g
  <2> QED  BY <1>4, <2>2, <2>3 DEF Tuned, Written
<1>5. CASE k = 3
  <2>1. g = lora_set_tx_power(f, Wanted[p].power)
    BY <1>1, <1>5, Dispatch
  <2>2. Wanted["long"].power = 20 /\ Wanted["short"].power = 10
    BY WantedAre
  <2>3. /\ g \in RegisterFiles
        /\ Same("MODEM_CONFIG_1") /\ Same("MODEM_CONFIG_2") /\ Same("MODEM_CONFIG_3")
        /\ Same("FRF_MSB") /\ Same("FRF_MID") /\ Same("FRF_LSB")
        /\ Same("DETECTION_OPTIMIZE") /\ Same("DETECTION_THRESHOLD")
        /\ p = "long" => /\ g["PA_DAC"] = Bits(135) /\ g["OCP"] = {5} \cup Bits(17)
                         /\ g["PA_CONFIG"] = {7} \cup Bits(15)
        /\ p = "short" => /\ g["PA_DAC"] = Bits(132) /\ g["OCP"] = {5} \cup Bits(10)
                          /\ g["PA_CONFIG"] = {7} \cup Bits(8)
    BY <1>0, <2>1, <2>2, TxPower
  <2> HIDE DEF g
  <2> QED  BY <1>5, <2>3 DEF Tuned, Written
<1>6. CASE k = 4
  <2> DEFINE len == Wanted[p].preamble
  <2>1. g = lora_set_preamble_length(f, len) /\ len \in 0 .. 255
    BY <1>1, <1>6, Dispatch, WantedAre
  <2> HIDE DEF g, len
  <2>2. /\ g \in RegisterFiles
        /\ g["PREAMBLE_MSB"] = {} /\ g["PREAMBLE_LSB"] = Bits(len) \cap 0 .. 3
        /\ Same("MODEM_CONFIG_1") /\ Same("MODEM_CONFIG_2") /\ Same("MODEM_CONFIG_3")
        /\ Same("FRF_MSB") /\ Same("FRF_MID") /\ Same("FRF_LSB")
        /\ Same("DETECTION_OPTIMIZE") /\ Same("DETECTION_THRESHOLD")
        /\ Same("PA_DAC") /\ Same("OCP") /\ Same("PA_CONFIG")
    <3>1. /\ g \in RegisterFiles
          /\ g["PREAMBLE_MSB"] = {} /\ g["PREAMBLE_LSB"] = Bits(len) \cap 0 .. 3
          /\ \A q \in Registers \ {"PREAMBLE_MSB", "PREAMBLE_LSB"} : Same(q)
      <4> DEFINE h == lora_set_preamble_length(f, len)
      <4>1. /\ h \in RegisterFiles
            /\ h["PREAMBLE_MSB"] = {} /\ h["PREAMBLE_LSB"] = Bits(len) \cap 0 .. 3
            /\ \A q \in Registers \ {"PREAMBLE_MSB", "PREAMBLE_LSB"} : h[q] = f[q]
        BY <2>1, PreambleLength
      <4> HIDE DEF h
      <4>2. g = h
        BY <2>1 DEF h
      <4> QED  BY <4>1, <4>2
    <3> QED  BY <1>0, <3>1
  <2> QED  BY <1>6, <2>2 DEF Tuned, Written, len
<1>7. CASE k = 5
  <2> DEFINE crc == Wanted[p].crc
  <2>1. g = lora_set_crc(f, crc)
    BY <1>1, <1>7, Dispatch
  <2> HIDE DEF g, crc
  <2>2. /\ g["MODEM_CONFIG_2"] \cap 4 .. 7 = f["MODEM_CONFIG_2"] \cap 4 .. 7
        /\ (2 \in g["MODEM_CONFIG_2"]) <=> (crc # 0)
    <3> DEFINE on == crc # 0
    <3>1. g["MODEM_CONFIG_2"] =
            IF on THEN f["MODEM_CONFIG_2"] \cup {2} ELSE f["MODEM_CONFIG_2"] \ {2}
      BY <2>1, Crc
    <3> HIDE DEF on
    <3>2. CASE on
      BY <3>1, <3>2 DEF on
    <3>3. CASE ~on
      BY <3>1, <3>3 DEF on
    <3> QED  BY <3>2, <3>3
  <2>3. /\ g \in RegisterFiles /\ Same("MODEM_CONFIG_1") /\ Same("MODEM_CONFIG_3")
        /\ Same("FRF_MSB") /\ Same("FRF_MID") /\ Same("FRF_LSB")
        /\ Same("DETECTION_OPTIMIZE") /\ Same("DETECTION_THRESHOLD")
        /\ Same("PA_DAC") /\ Same("OCP") /\ Same("PA_CONFIG")
        /\ Same("PREAMBLE_MSB") /\ Same("PREAMBLE_LSB")
    <3>1. g \in RegisterFiles /\ \A q \in Registers \ {"MODEM_CONFIG_2"} : Same(q)
      BY <2>1, Crc
    <3> QED  BY <1>0, <3>1
  <2> QED  BY <1>7, <2>2, <2>3 DEF Tuned, Written, crc
<1> HIDE DEF g
<1> QED  BY <1>2, <1>3, <1>4, <1>5, <1>6, <1>7

\* A call of a preset leaves bytes, whatever it finds.
LEMMA PresetCallType ==
    ASSUME NEW f \in RegisterFiles, NEW p \in {"long", "short"}, NEW k \in 1 .. 6
    PROVE  Apply(f, PresetCalls(p)[k]) \in RegisterFiles
<1> DEFINE g == Apply(f, PresetCalls(p)[k])
<1>1. /\ PresetCalls(p)[1] = Call("spreading_factor", Wanted[p].sf)
      /\ PresetCalls(p)[2] = Call("signal_bandwidth", Wanted[p].bw)
      /\ PresetCalls(p)[3] = Call("coding_rate", Wanted[p].cr)
      /\ PresetCalls(p)[4] = Call("tx_power", Wanted[p].power)
      /\ PresetCalls(p)[5] = Call("preamble_length", Wanted[p].preamble)
      /\ PresetCalls(p)[6] = Call("crc", Wanted[p].crc)
  BY DEF PresetCalls
<1>2. /\ Wanted[p].sf \in {7, 8} /\ Wanted[p].power \in {10, 17, 20}
      /\ Wanted[p].preamble \in 0 .. 255
  BY WantedAre
<1>3. CASE k = 1
  BY <1>1, <1>2, <1>3, Dispatch, SpreadingFactor
<1>4. CASE k = 2
  BY <1>1, <1>4, Dispatch, SignalBandwidth
<1>5. CASE k = 3
  BY <1>1, <1>5, Dispatch, CodingRate
<1>6. CASE k = 4
  BY <1>1, <1>2, <1>6, Dispatch, TxPower
<1>7. CASE k = 5
  <2>1. g = lora_set_preamble_length(f, Wanted[p].preamble)
    BY <1>1, <1>7, Dispatch
  <2> HIDE DEF g
  <2>2. g \in RegisterFiles
    BY <1>2, <2>1, PreambleLength
  <2> QED  BY <2>2 DEF g
<1>8. CASE k = 6
  <2>1. g = lora_set_crc(f, Wanted[p].crc)
    BY <1>1, <1>8, Dispatch
  <2> HIDE DEF g
  <2>2. g \in RegisterFiles
    BY <2>1, Crc
  <2> QED  BY <2>2 DEF g
<1> QED  BY <1>3, <1>4, <1>5, <1>6, <1>7, <1>8

\* The registers that a preset leaves are read by the chip as it was meant.
LEMMA PresetIsRead ==
    ASSUME NEW f, NEW p \in {"long", "short"}, NEW k \in Nat, k >= 6, Tuned(f), Written(f, p, k)
    PROVE  ModemAs(f, p) /\ PowerAs(f, p)
<1> USE DEF Written, Tuned
<1>1. Field(f["MODEM_CONFIG_2"], 4, 7) = Wanted[p].sf
  BY SpreadingField
<1>2. Field(f["MODEM_CONFIG_1"], 4, 7) = Wanted[p].bw
  <2>1. CASE p = "long"
    <3>1. f["MODEM_CONFIG_1"] \cap 4 .. 7 = {5, 6}
      BY <2>1, WantedAre, ShiftedAre
    <3>2. LET b == f["MODEM_CONFIG_1"] IN 4 \notin b /\ 5 \in b /\ 6 \in b /\ 7 \notin b
      BY <3>1
    <3> QED  BY <2>1, <3>2, WantedAre, HalfByte DEF Bit
  <2>2. CASE p = "short"
    <3>1. f["MODEM_CONFIG_1"] \cap 4 .. 7 = {4, 5, 6}
      BY <2>2, WantedAre, ShiftedAre
    <3>2. LET b == f["MODEM_CONFIG_1"] IN 4 \in b /\ 5 \in b /\ 6 \in b /\ 7 \notin b
      BY <3>1
    <3> QED  BY <2>2, <3>2, WantedAre, HalfByte DEF Bit
  <2> QED  BY <2>1, <2>2
<1>3. Field(f["PREAMBLE_LSB"], 0, 7) = Wanted[p].preamble
  <2>1. f["PREAMBLE_LSB"] \subseteq 0 .. 3
    OBVIOUS
  <2>2. Bits(10) = {1, 3} /\ Bits(5) = {0, 2}
    BY Constants
  <2> QED  BY <2>1, <2>2, WantedAre, Field8 DEF Bit
<1>4. ModemAs(f, p)
  <2>1. \hc3 = 195 /\ \h0a = 10 /\ \hd9 = 217
    OBVIOUS
  <2> QED  BY <1>1, <1>2, <1>3, <2>1 DEF ModemAs
<1>5. /\ Bits(135) # Bits(132) /\ \h87 = 135
      /\ Bits(17) = {0, 4} /\ Bits(10) = {1, 3} /\ Bits(15) = {0, 1, 2, 3} /\ Bits(8) = {3}
  BY Constants
<1>6. CASE p = "long"
  <2>1. Field(f["PA_CONFIG"], 0, 3) = 15 /\ Field(f["OCP"], 0, 4) = 17
    BY <1>5, <1>6, HalfByte, Field5 DEF Bit
  <2>2. OutputPower(f) = 20 /\ CurrentLimit(f) = 140
    BY <1>5, <1>6, <2>1 DEF OutputPower, CurrentLimit
  <2> QED  BY <1>4, <1>6, <2>2, WantedAre DEF PowerAs
<1>7. CASE p = "short"
  <2>1. Field(f["PA_CONFIG"], 0, 3) = 8 /\ Field(f["OCP"], 0, 4) = 10
    BY <1>5, <1>7, HalfByte, Field5 DEF Bit
  <2>2. OutputPower(f) = 10 /\ CurrentLimit(f) = 95
    BY <1>5, <1>7, <2>1 DEF OutputPower, CurrentLimit
  <2> QED  BY <1>4, <1>7, <2>2, WantedAre DEF PowerAs
<1> QED  BY <1>6, <1>7

\* LoRa::set_long_range and LoRa::set_short_range (lora.cpp), over whatever the
\* registers held after an init, another preset included: the six calls leave a
\* modem and a power stage that are what the preset asks for.
THEOREM PresetSetsModem ==
    ASSUME NEW p \in {"long", "short"}, NEW f \in [0 .. 6 -> RegisterFiles], Tuned(f[0]),
           \A k \in 0 .. 5 : f[k + 1] = Apply(f[k], PresetCalls(p)[k + 1])
    PROVE  ModemAs(f[6], p) /\ PowerAs(f[6], p)
<1> DEFINE Reached(k) == Tuned(f[k]) /\ Written(f[k], p, k)
<1>1. Reached(0)
  BY DEF Written
<1>2. ASSUME NEW k \in 0 .. 5, Reached(k) PROVE Reached(k + 1)
  BY <1>2, PresetCall
<1> HIDE DEF Reached
<1>3. Reached(6)
  <2>1. Reached(1) /\ Reached(2)
    BY <1>1, <1>2
  <2>2. Reached(3) /\ Reached(4)
    BY <1>2, <2>1
  <2> QED  BY <1>2, <2>2
<1> QED  BY <1>3, PresetIsRead DEF Reached
=============================================================================
