----------------------------- MODULE SerialPorts -----------------------------
(***************************************************************************)
(* The serial configuration ports of the fabric, one clock per step: the   *)
(* UART receiver (config_UART.v), the bitbang receiver (bitbang.v) and the *)
(* reset they give to ConfigFSM (eFPGA_Config.v).                          *)
(*                                                                         *)
(* A byte on the line is a value; its start bit and data bits are a number *)
(* of clocks that ends in the stop bit.  The checksum and the LED of the   *)
(* UART influence nothing and are left out, and so are the first two       *)
(* stages of the bitbang synchroniser, which only delay.                   *)
(***************************************************************************)
EXTENDS Integers, Sequences, SequencesExt

CONSTANTS
  Bytes,          \* bytes on the line, among them 0x00, 0xAA, 0xFF and commands
  Bin, Hex,       \* a command with bit 7 clear, and with bit 7 set
  Nibbles,        \* the bytes that are ASCII hex digits
  WordBytes,      \* bytes of a word, 4 in the code
  BitClocks, StopClocks,  \* clocks of the bits of a byte, of its stop bit
  TimeToSendValue,        \* 16776 in the code
  On, Off,        \* control patterns 0xFAB1 and 0xFAB0, as bits
  BitWords,       \* words sent over bitbang, as bits
  Hold,           \* clocks a bitbang sender holds a level, at least
  Links           \* which port the outside uses: "uart", "bitbang"

Header == <<"00", "AA", "FF">>
NoByte == "none"

(* A bitbang word, and the control bits that accompany it: zeros, then a   *)
(* pattern.                                                                *)
WordLength == Len(CHOOSE w \in BitWords : TRUE)
Silent == [k \in 1 .. Len(On) |-> 0]
ControlBit(c, k) ==
  IF k <= WordLength - Len(On) THEN 0 ELSE c[k - (WordLength - Len(On))]

(* What a register as long as a pattern holds j control bits after the     *)
(* pattern a, when b is the next one.                                      *)
Window(a, b, j) ==
  [k \in 1 .. Len(On) |-> IF k + j <= Len(On) THEN a[k + j]
                          ELSE ControlBit(b, k + j - Len(On))]

ASSUME SerialAssumption ==
  /\ Range(Header) \cup {Bin, Hex} \cup Nibbles \subseteq Bytes
  /\ NoByte \notin Bytes /\ Bin # Hex
  /\ {WordBytes, BitClocks, StopClocks, TimeToSendValue, Hold} \subseteq Nat \ {0}
  /\ WordLength \in Nat \ {0, 1} /\ Len(On) \in 1 .. WordLength /\ Len(Off) = Len(On)
  /\ {On, Off} \subseteq Seq({0, 1}) /\ On # Off
  /\ BitWords \subseteq [1 .. WordLength -> {0, 1}] /\ BitWords # {}
  /\ Links \subseteq {"uart", "bitbang"}

(* The on pattern is seen nowhere but at the end of a word; 0xFAB1 is not, *)
(* as it begins and ends with a one and is preceded by sixteen zeros.      *)
ASSUME PatternAssumption ==
  /\ On # Silent
  /\ \A a \in {On, Off, Silent}, b \in {On, Off}, j \in 1 .. WordLength - 1 :
       Window(a, b, j) # On

VARIABLES
  clk,                        \* the clock's level: a clock is a step even if
                              \* nothing else changes
  link,                       \* the port in use, chosen once
  ComState, left, ReceivedWord,   \* byte receiver: "wait", "bits", "stop"
  PresentState, id_ok, Command_Reg, Data_Reg,
  LocalWriteStrobe, ByteWriteStrobe,
  ReceiveState, HighReg, HexData, HexWriteStrobe,
  GetWordState, WriteData, WriteStrobe,
  timer, TimeToSend,
  line, hold, sending, pos,   \* bitbang sender: levels, clocks held, word, half bit
  sample2, sample3,           \* last two stages of the synchroniser
  serial_data, serial_control, local_strobe, old_local_strobe, strobe, data, active,
  old_reset,                  \* ConfigFSM
  silence, heard,             \* history: clocks of silence, bytes of a header
                              \* heard since a pause (-1: something else)
  fed, digits,                \* history: data bytes, or hex digits in a row,
                              \* that are not yet in a word
  owed                        \* history: bitbang words sent and not yet strobed

byteVars == <<ComState, left, ReceivedWord>>
frameVars == <<PresentState, id_ok, Command_Reg, Data_Reg, timer, TimeToSend>>
wordVars == <<LocalWriteStrobe, ByteWriteStrobe, ReceiveState, HighReg, HexData,
              HexWriteStrobe, GetWordState, WriteData, WriteStrobe>>
uartVars == <<byteVars, frameVars, wordVars, silence, heard, fed, digits>>
bitVars == <<line, hold, sending, pos, sample2, sample3, serial_data, serial_control,
             local_strobe, old_local_strobe, strobe, data, active, owed>>
vars == <<clk, link, uartVars, bitVars, old_reset>>

-----------------------------------------------------------------------------
(* UART                                                                    *)

StopTick == ComState = "stop" /\ left = 0
ComActive == PresentState = "data"
HexMode == Command_Reg = Hex

(* A start bit is seen while the receiver waits; the sender may start a    *)
(* byte in any clock.                                                      *)
Starts == ComState = "wait" /\ ComState' = "bits"

P_COM ==
  CASE ComState = "wait" ->
         \/ UNCHANGED byteVars
         \/ /\ link = "uart"
            /\ ComState' = "bits" /\ left' = BitClocks /\ ReceivedWord' = NoByte
    [] ComState = "bits" /\ left = 0 ->
         ComState' = "stop" /\ left' = StopClocks /\ ReceivedWord' \in Bytes
    [] StopTick ->
         ComState' = "wait" /\ UNCHANGED <<left, ReceivedWord>>
    [] OTHER ->
         left' = left - 1 /\ UNCHANGED <<ComState, ReceivedWord>>

Successor == [id00 |-> "idAA", idAA |-> "idFF", idFF |-> "command", command |-> "eval"]

P_FSMWithoutTimeout ==  \* fault: a header that stops half-way is waited for
  PresentState' =
    CASE PresentState = "idle" -> IF Starts THEN "id00" ELSE "idle"
      [] PresentState = "eval" ->
           IF id_ok /\ Command_Reg \in {Bin, Hex} THEN "data" ELSE "idle"
      [] PresentState = "data" -> IF TimeToSend THEN "idle" ELSE "data"
      [] OTHER -> IF StopTick THEN Successor[PresentState] ELSE PresentState
(* The bytes are counted first and looked at after the fourth. *)
P_FSM ==
  PresentState' =
    CASE PresentState = "idle" -> IF Starts THEN "id00" ELSE "idle"
      [] PresentState = "eval" ->
           IF id_ok /\ Command_Reg \in {Bin, Hex} THEN "data" ELSE "idle"
      [] PresentState = "data" -> IF TimeToSend THEN "idle" ELSE "data"
      [] OTHER -> IF TimeToSend THEN "idle"
                  ELSE IF StopTick THEN Successor[PresentState] ELSE PresentState

Registers ==
  IF StopTick
  THEN /\ id_ok' = CASE PresentState = "id00" -> ReceivedWord = Header[1]
                     [] PresentState = "idAA" -> id_ok /\ ReceivedWord = Header[2]
                     [] PresentState = "idFF" -> id_ok /\ ReceivedWord = Header[3]
                     [] OTHER -> id_ok
       /\ Command_Reg' = IF PresentState = "command" THEN ReceivedWord ELSE Command_Reg
       /\ Data_Reg' = IF PresentState = "data" THEN ReceivedWord ELSE Data_Reg
  ELSE UNCHANGED <<id_ok, Command_Reg, Data_Reg>>

(* Reloaded by idleness and by every stop bit, and a register behind it. *)
P_TimeOutRunsOn ==  \* fault: the counter does not stop at zero
  LET reload == PresentState = "idle" \/ ComState = "stop"
  IN /\ timer' = IF reload THEN TimeToSendValue ELSE timer - 1
     /\ TimeToSend' = (~reload /\ timer = 0)
P_TimeOutInSilence ==  \* fault: the waiting receiver reloads it
  LET reload == PresentState = "idle" \/ ComState # "bits"
  IN /\ timer' = IF reload THEN TimeToSendValue
                 ELSE IF timer > 0 THEN timer - 1 ELSE timer
     /\ TimeToSend' = (~reload /\ timer = 0)
P_TimeOut ==
  LET reload == PresentState = "idle" \/ ComState = "stop"
  IN /\ timer' = IF reload THEN TimeToSendValue
                 ELSE IF timer > 0 THEN timer - 1 ELSE timer
     /\ TimeToSend' = (~reload /\ timer = 0)

(* The two digits of a byte in hex mode: any clock that does not bring a   *)
(* valid digit puts the receiver back to the first one.                    *)
Digit == StopTick /\ ReceivedWord \in Nibbles
HexDigits ==
  /\ ReceiveState' = IF PresentState = "data" /\ Digit THEN "low" ELSE "high"
  /\ HexWriteStrobe' = (Digit /\ ReceiveState = "low")
  /\ HighReg' = IF Digit /\ ReceiveState = "high" THEN ReceivedWord ELSE HighReg
  /\ HexData' = IF Digit /\ ReceiveState = "low" THEN <<HighReg, ReceivedWord>>
                ELSE HexData

P_bus ==
  /\ LocalWriteStrobe' = (ComActive /\ StopTick)
  /\ ByteWriteStrobe' = IF HexMode THEN HexWriteStrobe ELSE LocalWriteStrobe

ReceivedByte == IF HexMode THEN HexData ELSE Data_Reg
P_WordModeKeeps ==  \* fault: a header does not restart the word
  /\ IF ByteWriteStrobe
     THEN /\ WriteData' = [WriteData EXCEPT ![GetWordState + 1] = ReceivedByte]
          /\ GetWordState' = (GetWordState + 1) % WordBytes
     ELSE UNCHANGED <<WriteData, GetWordState>>
  /\ WriteStrobe' = (ByteWriteStrobe /\ GetWordState = WordBytes - 1)
P_WordMode ==
  /\ CASE PresentState = "eval" ->
            /\ WriteData' = [k \in 1 .. WordBytes |-> NoByte] /\ GetWordState' = 0
       [] PresentState # "eval" /\ ByteWriteStrobe ->
            /\ WriteData' = [WriteData EXCEPT ![GetWordState + 1] = ReceivedByte]
            /\ GetWordState' = (GetWordState + 1) % WordBytes
       [] OTHER -> UNCHANGED <<WriteData, GetWordState>>
  /\ WriteStrobe' = (ByteWriteStrobe /\ GetWordState = WordBytes - 1)

(* After Pause clocks of silence the receiver is idle; a byte that follows *)
(* within Prompt clocks arrives in time.                                   *)
Pause == TimeToSendValue + 2
Prompt == TimeToSendValue - BitClocks - 2
UartHistory ==
  /\ silence' = IF ComState # "wait" \/ Starts THEN 0
                ELSE IF silence < Pause THEN silence + 1 ELSE silence
  /\ heard' = CASE Starts -> IF silence = Pause THEN 0
                             ELSE IF silence > Prompt THEN -1 ELSE heard
                [] StopTick /\ heard \in 0 .. 2 ->
                     IF ReceivedWord = Header[heard + 1] THEN heard + 1 ELSE -1
                [] StopTick /\ heard = 3 ->
                     IF ReceivedWord \in {Bin, Hex} THEN 4 ELSE -1
                [] StopTick /\ heard = 4 -> -1
                [] OTHER -> heard
  /\ fed' = CASE WriteStrobe \/ PresentState = "eval" -> <<>>
              [] ComActive /\ StopTick /\ ~HexMode -> Append(fed, ReceivedWord)
              [] OTHER -> fed
  /\ digits' = CASE WriteStrobe \/ PresentState = "eval" -> 0
                 [] ComActive /\ Digit /\ HexMode /\ digits < 2 * WordBytes ->
                      digits + 1
                 [] ComActive /\ StopTick /\ ~Digit -> 0
                 [] OTHER -> digits

Uart ==
  /\ P_COM /\ P_FSM /\ Registers /\ P_TimeOut
  /\ HexDigits /\ P_bus /\ P_WordMode /\ UartHistory

-----------------------------------------------------------------------------
(* Bitbang                                                                 *)

(* The sender: a data bit while the clock line is low, a control bit while *)
(* it is high, each level held; a word ends with the clock line low again. *)
LineAt(k) ==
  IF k = 2 * WordLength THEN [s_clk |-> 0, s_data |-> 0]
  ELSE IF k % 2 = 0 THEN [s_clk |-> 0, s_data |-> sending.word[k \div 2 + 1]]
  ELSE [s_clk |-> 1, s_data |-> ControlBit(sending.control, k \div 2 + 1)]

NextWord ==
  /\ link = "bitbang" /\ pos = 2 * WordLength /\ hold >= Hold
  /\ sending' \in [word : BitWords, control : {On, Off}]
  /\ pos' = 0 /\ line' = [s_clk |-> 0, s_data |-> sending'.word[1]] /\ hold' = 1
NextHalfBit ==
  /\ pos < 2 * WordLength /\ hold >= Hold
  /\ pos' = pos + 1 /\ line' = LineAt(pos + 1) /\ hold' = 1 /\ UNCHANGED sending
HoldLevel ==
  /\ hold' = IF hold < Hold THEN hold + 1 ELSE hold
  /\ UNCHANGED <<line, sending, pos>>
Sender == NextWord \/ NextHalfBit \/ HoldLevel

ShiftIn(reg, bit) == Append(Tail(reg), bit)
Rising == sample3.s_clk = 0 /\ sample2.s_clk = 1
Falling == sample3.s_clk = 1 /\ sample2.s_clk = 0
p_in_shift ==
  /\ sample2' = line /\ sample3' = sample2
  /\ serial_data' = IF Rising THEN ShiftIn(serial_data, sample3.s_data) ELSE serial_data
  /\ serial_control' = IF Falling THEN ShiftIn(serial_control, sample3.s_data)
                       ELSE serial_control

p_parallel_loadLevel ==  \* fault: the strobe is the level itself
  /\ local_strobe' = (serial_control = On)
  /\ data' = IF serial_control = On THEN serial_data ELSE data
  /\ old_local_strobe' = local_strobe
  /\ strobe' = local_strobe
p_parallel_loadAtOnce ==  \* fault: the strobe does not wait for its register
  /\ local_strobe' = (serial_control = On)
  /\ data' = IF serial_control = On THEN serial_data ELSE data
  /\ old_local_strobe' = local_strobe
  /\ strobe' = (serial_control = On /\ ~local_strobe)
(* The pattern stays in the register for a whole bit: only its first clock *)
(* strobes.                                                                *)
p_parallel_load ==
  /\ local_strobe' = (serial_control = On)
  /\ data' = IF serial_control = On THEN serial_data ELSE data
  /\ old_local_strobe' = local_strobe
  /\ strobe' = (local_strobe /\ ~old_local_strobe)

active_FSM ==
  active' = CASE serial_control = On -> TRUE
              [] serial_control = Off -> FALSE
              [] OTHER -> active

Completes == pos < 2 * WordLength /\ pos' = 2 * WordLength
BitHistory ==
  owed' = LET unstrobed == IF strobe THEN <<>> ELSE owed
          IN IF Completes /\ sending.control = On
             THEN Append(unstrobed, sending.word) ELSE unstrobed

Bitbang == Sender /\ p_in_shift /\ p_parallel_load /\ active_FSM /\ BitHistory

-----------------------------------------------------------------------------
(* The port that is active feeds ConfigFSM, UART first, and its becoming   *)
(* active resets it; a word strobed in the clock of the reset is lost.     *)
ConfigWriteStrobe == IF ComActive THEN WriteStrobe ELSE active /\ strobe
FSM_Reset == ComActive \/ active
ResetClock == FSM_Reset /\ ~old_reset

Init ==
  /\ clk = 0
  /\ link \in Links
  /\ ComState = "wait" /\ left = 0 /\ ReceivedWord = NoByte
  /\ PresentState = "idle" /\ id_ok = FALSE
  /\ Command_Reg = NoByte /\ Data_Reg = NoByte
  /\ LocalWriteStrobe = FALSE /\ ByteWriteStrobe = FALSE
  /\ ReceiveState = "high" /\ HighReg = NoByte /\ HexWriteStrobe = FALSE
  /\ HexData = <<NoByte, NoByte>>
  /\ GetWordState = 0 /\ WriteData = [k \in 1 .. WordBytes |-> NoByte]
  /\ WriteStrobe = FALSE
  /\ timer = 0 /\ TimeToSend \in BOOLEAN
  /\ sending \in [word : {CHOOSE w \in BitWords : TRUE}, control : {Off}]
  /\ pos = 2 * WordLength /\ line = [s_clk |-> 0, s_data |-> 0] /\ hold = Hold
  /\ sample2 = line /\ sample3 = line
  /\ serial_data = [k \in 1 .. WordLength |-> 0]
  /\ serial_control = Silent
  /\ local_strobe = FALSE /\ old_local_strobe = FALSE /\ strobe = FALSE
  /\ data = serial_data /\ active = FALSE /\ old_reset = FALSE
  /\ silence = Pause /\ heard = -1 /\ fed = <<>> /\ digits = 0 /\ owed = <<>>

Clock ==
  /\ clk' = 1 - clk
  /\ Uart /\ Bitbang
  /\ old_reset' = FSM_Reset /\ UNCHANGED link

Next == Clock
Spec == Init /\ [][Next]_vars
FairSpec == Spec /\ WF_vars(Next)  \* the clock runs

-----------------------------------------------------------------------------
(* Properties                                                              *)

TypeOK ==
  /\ clk \in {0, 1}
  /\ ComState \in {"wait", "bits", "stop"} /\ left \in 0 .. BitClocks + StopClocks
  /\ PresentState \in {"idle", "id00", "idAA", "idFF", "command", "eval", "data"}
  /\ GetWordState \in 0 .. WordBytes - 1
  /\ WriteData \in [1 .. WordBytes -> Bytes \cup {NoByte} \cup (Bytes \X Bytes)]
  /\ ReceiveState \in {"high", "low"} /\ timer \in 0 .. TimeToSendValue
  /\ TimeToSend \in BOOLEAN /\ Len(serial_control) = Len(On)
  /\ pos \in 0 .. 2 * WordLength /\ hold \in 1 .. Hold
  /\ heard \in -1 .. 4 /\ Len(owed) <= 1

(* A word the UART writes is the next bytes that followed the header, in   *)
(* order: a stream cut off by a timeout in the middle of a word leaves     *)
(* nothing behind for the next one.                                        *)
WordsAreBytes == WriteStrobe /\ ~HexMode => WriteData = fed

(* After a pause, a header sent without gaps opens the port, whatever was  *)
(* received before: garbage, half a header or a stream that broke off.     *)
HeaderOpensPort ==
  heard = 4 /\ silence <= Prompt /\ PresentState # "eval" => ComActive

(* Neither port loses a word to its own reset of the FSM or to its own     *)
(* timeout: the clocks from the last byte to the strobe fit in between.    *)
WordsReachFsm == WriteStrobe \/ strobe => ConfigWriteStrobe /\ ~ResetClock

(* Over bitbang each word with the on pattern is strobed exactly once and  *)
(* as it was sent, before the next one is complete.                        *)
BitbangWordsOnce == strobe => owed = <<data>>

(* A line that falls silent gives the port back.                           *)
SilenceReleases == <>[](ComState = "wait") => <>[]~ComActive

(* In hex mode, which the command selects (config_UART.v:2-5), the digits  *)
(* of a whole word write it.                                               *)
HexModeWrites == digits = 2 * WordBytes /\ ComState = "wait" => silence <= 3
=============================================================================
