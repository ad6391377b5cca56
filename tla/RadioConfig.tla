---------------------------- MODULE RadioConfig ----------------------------
(***************************************************************************)
(* The configuration registers of the SX1276 and the driver routines that  *)
(* write them (lib/lora_sx1276.cpp).  A register is the set of its bits    *)
(* that are 1, so that `|' is union, `& ~' set difference and `<<' a shift *)
(* of the elements; a register file is a function from names to bytes.     *)
(* A routine is an operator from the registers before to the registers     *)
(* after the call.  The operating mode, the IRQ flags and the DIO mapping  *)
(* are state of LoraLink.                                                  *)
(***************************************************************************)
EXTENDS Integers, Sequences

Byte == SUBSET (0 .. 7)

\* The bits of n, truncated to eight as an assignment to uint8_t does.
Bits(n) == {i \in 0 .. 7 : (n \div 2^i) % 2 = 1}

\* b << k in a byte.
Shl(b, k) == {i \in 0 .. 7 : i - k \in b}

\* The number held by the bits first .. last of b.
Field(b, first, last) ==
    LET w[i \in first .. last + 1] ==
          IF i > last THEN 0 ELSE (IF i \in b THEN 1 ELSE 0) + 2 * w[i + 1]
    IN  w[first]

Registers ==
    {"FRF_MSB", "FRF_MID", "FRF_LSB", "PA_CONFIG", "OCP", "LNA", "MODEM_CONFIG_1",
     "MODEM_CONFIG_2", "PREAMBLE_MSB", "PREAMBLE_LSB", "MODEM_CONFIG_3",
     "DETECTION_OPTIMIZE", "DETECTION_THRESHOLD", "PA_DAC"}

RegisterFiles == [Registers -> Byte]

\* What the chip holds after power-on.
ResetValues ==
    [r \in Registers |->
        CASE r = "FRF_MSB" -> Bits(\h6c)             [] r = "FRF_MID" -> Bits(\h80)
          [] r = "PA_CONFIG" -> Bits(\h4f)           [] r = "OCP" -> Bits(\h2b)
          [] r = "LNA" -> Bits(\h20)                 [] r = "MODEM_CONFIG_1" -> Bits(\h72)
          [] r = "MODEM_CONFIG_2" -> Bits(\h70)      [] r = "PREAMBLE_LSB" -> Bits(\h08)
          [] r = "DETECTION_OPTIMIZE" -> Bits(\hc3)  [] r = "DETECTION_THRESHOLD" -> Bits(\h0a)
          [] r = "PA_DAC" -> Bits(\h84)              [] OTHER -> {}]

\* These addresses mean something else while the chip is in FSK mode.
LoraPage == Registers \ {"FRF_MSB", "FRF_MID", "FRF_LSB", "PA_CONFIG", "OCP", "LNA", "PA_DAC"}

write_register(reg, r, byte) == [reg EXCEPT ![r] = byte]

-----------------------------------------------------------------------------
(* The setters *)

set_OCP(reg, imax) ==
    LET limit == IF imax < 45 THEN 45 ELSE IF imax > 240 THEN 240 ELSE imax
        value == IF limit < 130 THEN (limit - 45) \div 5 ELSE (limit + 30) \div 10
    IN  write_register(reg, "OCP", {5} \cup Bits(value))

LORA_BANDWIDTH_62_5_KHZ == 6
LORA_BANDWIDTH_125_KHZ == 7

set_low_data_rate_optimization(reg) ==
    LET bandwidth == Field(reg["MODEM_CONFIG_1"], 4, 7)
        sf == Field(reg["MODEM_CONFIG_2"], 4, 7)
    IN  write_register(reg, "MODEM_CONFIG_3",
            {2} \cup IF sf >= 11 /\ bandwidth = LORA_BANDWIDTH_125_KHZ THEN {3} ELSE {})

lora_set_explicit_header_mode(reg) ==
    write_register(reg, "MODEM_CONFIG_1", reg["MODEM_CONFIG_1"] \ {0})

\* A bug to rule out: PA_DAC stays in its high power mode.
lora_set_tx_powerSticky(reg, level) ==
    IF level > 17
    THEN write_register(set_OCP(write_register(reg, "PA_DAC", Bits(\h87)), 140),
                        "PA_CONFIG", {7} \cup Bits(level - 5))
    ELSE write_register(set_OCP(reg, 97), "PA_CONFIG", {7} \cup Bits(level - 2))

\* The PA_BOOST pin, the only one lora_init selects; callers stay in 2 .. 20.
lora_set_tx_power(reg, level) ==
    IF level > 17
    THEN write_register(set_OCP(write_register(reg, "PA_DAC", Bits(\h87)), 140),
                        "PA_CONFIG", {7} \cup Bits(level - 3 - 2))
    ELSE write_register(set_OCP(write_register(reg, "PA_DAC", Bits(\h84)), 97),
                        "PA_CONFIG", {7} \cup Bits(level - 2))

\* (f MHz << 19) / 32 MHz is f << 14.
lora_set_frequency(reg, mhz) ==
    LET frf == mhz * 2^14
    IN  [reg EXCEPT !["FRF_MSB"] = Bits(frf \div 2^16),
                    !["FRF_MID"] = Bits(frf \div 2^8),
                    !["FRF_LSB"] = Bits(frf)]

lora_set_signal_bandwidth(reg, bw) ==
    set_low_data_rate_optimization(
        write_register(reg, "MODEM_CONFIG_1",
            (reg["MODEM_CONFIG_1"] \cap 0 .. 3) \cup Shl(Bits(bw), 4)))

lora_set_spreading_factor(reg, sf) ==
    LET clamped == IF sf < 6 THEN 6 ELSE IF sf > 12 THEN 12 ELSE sf
        tuned == [reg EXCEPT
                    !["DETECTION_OPTIMIZE"] = Bits(IF clamped = 6 THEN \hc5 ELSE \hc3),
                    !["DETECTION_THRESHOLD"] = Bits(IF clamped = 6 THEN \h0c ELSE \h0a)]
    IN  set_low_data_rate_optimization(
            write_register(tuned, "MODEM_CONFIG_2",
                (reg["MODEM_CONFIG_2"] \cap 0 .. 3) \cup Shl(Bits(clamped), 4)))

lora_set_crc(reg, enable) ==
    write_register(reg, "MODEM_CONFIG_2",
        IF enable # 0 THEN reg["MODEM_CONFIG_2"] \cup {2} ELSE reg["MODEM_CONFIG_2"] \ {2})

\* The old rate is not cleared.
lora_set_coding_rate(reg, rate) ==
    write_register(reg, "MODEM_CONFIG_1", reg["MODEM_CONFIG_1"] \cup Shl(Bits(rate), 1))

\* The low byte keeps four bits only.
lora_set_preamble_length(reg, len) ==
    [reg EXCEPT !["PREAMBLE_MSB"] = Bits(len \div 2^8),
                !["PREAMBLE_LSB"] = Bits(len) \cap 0 .. 3]

\* lora_init: current_lna | 0x03.
set_lna_boost(reg) == write_register(reg, "LNA", reg["LNA"] \cup {0, 1})

\* lora_init: MODEM_CONFIG_3 = 0x04.
set_auto_agc(reg) == write_register(reg, "MODEM_CONFIG_3", {2})

-----------------------------------------------------------------------------
(* Sequences of calls *)

Call(routine, arg) == [do |-> routine, arg |-> arg]

Apply(reg, call) ==
    CASE call.do = "frequency" -> lora_set_frequency(reg, call.arg)
      [] call.do = "spreading_factor" -> lora_set_spreading_factor(reg, call.arg)
      [] call.do = "signal_bandwidth" -> lora_set_signal_bandwidth(reg, call.arg)
      [] call.do = "coding_rate" -> lora_set_coding_rate(reg, call.arg)
      [] call.do = "tx_power" -> lora_set_tx_power(reg, call.arg)
      [] call.do = "preamble_length" -> lora_set_preamble_length(reg, call.arg)
      [] call.do = "crc" -> lora_set_crc(reg, call.arg)
      [] call.do = "explicit_header" -> lora_set_explicit_header_mode(reg)
      [] call.do = "lna_boost" -> set_lna_boost(reg)
      [] call.do = "auto_agc" -> set_auto_agc(reg)

Setters == {"frequency", "spreading_factor", "signal_bandwidth", "coding_rate", "tx_power",
            "preamble_length", "crc", "explicit_header", "lna_boost", "auto_agc"}

\* The calls of lora_init between its sleep and its standby.
InitCalls ==
    << Call("frequency", 868), Call("spreading_factor", 7), Call("preamble_length", 10),
       Call("explicit_header", 0), Call("lna_boost", 3), Call("auto_agc", 4),
       Call("tx_power", 17) >>

\* What LoRa::set_long_range and LoRa::set_short_range ask of the modem.
Wanted ==
    [long |-> [sf |-> 8, bw |-> LORA_BANDWIDTH_62_5_KHZ, cr |-> \h20, power |-> 20,
               preamble |-> 10, crc |-> 1],
     short |-> [sf |-> 7, bw |-> LORA_BANDWIDTH_125_KHZ, cr |-> \h08, power |-> 10,
                preamble |-> 5, crc |-> 0]]

PresetCalls(p) ==
    << Call("spreading_factor", Wanted[p].sf), Call("signal_bandwidth", Wanted[p].bw),
       Call("coding_rate", Wanted[p].cr), Call("tx_power", Wanted[p].power),
       Call("preamble_length", Wanted[p].preamble), Call("crc", Wanted[p].crc) >>

-----------------------------------------------------------------------------
(* How the chip reads its registers, for the properties *)

\* The comments of lora_set_tx_power: 17 - (15 - OutputPower) dBm, 3 dB more in
\* high power mode.
OutputPower(reg) ==
    2 + Field(reg["PA_CONFIG"], 0, 3) + IF reg["PA_DAC"] = Bits(\h87) THEN 3 ELSE 0

\* The trimming range of the overcurrent protection, in mA.
CurrentLimit(reg) ==
    LET trim == Field(reg["OCP"], 0, 4)
    IN  IF trim <= 15 THEN 45 + 5 * trim ELSE 10 * trim - 30

\* The modem does what preset p asks for, but for the coding rate.
ModemAs(reg, p) ==
    /\ Field(reg["MODEM_CONFIG_2"], 4, 7) = Wanted[p].sf
    /\ Field(reg["MODEM_CONFIG_1"], 4, 7) = Wanted[p].bw
    /\ (2 \in reg["MODEM_CONFIG_2"]) = (Wanted[p].crc # 0)
    /\ 0 \notin reg["MODEM_CONFIG_1"]
    /\ Field(reg["PREAMBLE_LSB"], 0, 7) = Wanted[p].preamble /\ reg["PREAMBLE_MSB"] = {}
    /\ reg["DETECTION_OPTIMIZE"] = Bits(\hc3) /\ reg["DETECTION_THRESHOLD"] = Bits(\h0a)
    /\ 3 \notin reg["MODEM_CONFIG_3"]
    /\ <<reg["FRF_MSB"], reg["FRF_MID"], reg["FRF_LSB"]>> = <<Bits(\hd9), {}, {}>>

\* The power stage as well: the output wanted, and a current limit above what
\* the comments of lora_set_tx_power say this output draws.
PowerAs(reg, p) ==
    /\ OutputPower(reg) = Wanted[p].power
    /\ 7 \in reg["PA_CONFIG"]
    /\ 5 \in reg["OCP"]
    /\ CurrentLimit(reg) \in IF Wanted[p].power > 17 THEN 120 .. 140 ELSE 87 .. 97
=============================================================================
