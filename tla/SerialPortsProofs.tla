-------------------------- MODULE SerialPortsProofs --------------------------
(***************************************************************************)
(* Proofs about the serial configuration ports: the words of the UART, the *)
(* header that opens it, the words of the bitbang port and the reset both  *)
(* give to ConfigFSM.                                                      *)
(***************************************************************************)
EXTENDS SerialPorts, SequenceTheorems, TLAPS

LEMMA Sizes ==
  /\ WordBytes \in Nat \ {0} /\ BitClocks \in Nat \ {0} /\ StopClocks \in Nat \ {0}
  /\ TimeToSendValue \in Nat \ {0} /\ Hold \in Nat \ {0}
  BY SerialAssumption

LEMMA Commands ==
  /\ Bin \in Bytes /\ Hex \in Bytes /\ Bin # Hex /\ NoByte \notin Bytes
  BY SerialAssumption

-----------------------------------------------------------------------------
(* The inductive invariant of the UART, layer by layer.                    *)

UartTypes ==
  /\ clk \in {0, 1} /\ link \in Links
  /\ ComState \in {"wait", "bits", "stop"} /\ ReceivedWord \in Bytes \cup {NoByte}
  /\ left \in Nat
  /\ ComState = "bits" => left <= BitClocks
  /\ ComState = "stop" => left <= StopClocks /\ ReceivedWord \in Bytes
  /\ ComState = "wait" => left = 0
  /\ PresentState \in {"idle", "id00", "idAA", "idFF", "command", "eval", "data"}
  /\ id_ok \in BOOLEAN
  /\ Command_Reg \in Bytes \cup {NoByte} /\ Data_Reg \in Bytes \cup {NoByte}
  /\ timer \in 0 .. TimeToSendValue /\ TimeToSend \in BOOLEAN
  /\ ReceiveState \in {"high", "low"}
  /\ link # "uart" => ComState = "wait" /\ PresentState = "idle"

(* A byte on its way to WriteData.                                         *)
OnItsWay == (LocalWriteStrobe /\ ~HexMode) \/ ByteWriteStrobe
StrobePipe ==
  /\ LocalWriteStrobe \in BOOLEAN /\ ByteWriteStrobe \in BOOLEAN
  /\ WriteStrobe \in BOOLEAN /\ HexWriteStrobe = FALSE
  /\ ReceiveState = "low" => ComState = "wait"
  /\ ComState = "stop" /\ left = 0 => ~TimeToSend
  /\ LocalWriteStrobe => /\ ComActive /\ ComState = "wait"
                         /\ ~TimeToSend /\ timer = TimeToSendValue
  /\ ByteWriteStrobe => /\ ComActive /\ ComState # "stop" /\ ~TimeToSend
                        /\ ComState = "bits" => left = BitClocks
                        /\ ~HexMode /\ ~LocalWriteStrobe
  /\ WriteStrobe => /\ ComActive /\ ComState # "stop"
                    /\ ~LocalWriteStrobe /\ ~ByteWriteStrobe

WordInv ==
  /\ GetWordState \in 0 .. WordBytes - 1
  /\ WriteData \in [1 .. WordBytes -> Bytes \cup {NoByte}]
  /\ fed \in Seq(Bytes \cup {NoByte})
  /\ WriteStrobe => GetWordState = 0 /\ fed = WriteData
  /\ ~WriteStrobe =>
       /\ Len(fed) = IF OnItsWay THEN GetWordState + 1 ELSE GetWordState
       /\ \A k \in 1 .. GetWordState : fed[k] = WriteData[k]
       /\ OnItsWay => fed[GetWordState + 1] = Data_Reg

(* The silence the timer has counted.                                      *)
SilenceInv ==
  /\ silence \in 0 .. Pause /\ heard \in -1 .. 4
  /\ ComState # "wait" => silence = 0
  /\ PresentState = "eval" => ComState = "wait" /\ silence = 0
  /\ ComState = "wait" /\ PresentState # "idle" =>
       /\ silence <= TimeToSendValue => timer = TimeToSendValue - silence
       /\ silence > TimeToSendValue => timer = 0
       /\ TimeToSend <=> silence = TimeToSendValue + 1
       /\ silence <= TimeToSendValue + 1

InTime == Prompt >= 0 /\ heard >= 0 /\ silence <= Prompt
HeardInv ==
  /\ heard = 0 => ComState # "wait"
  /\ InTime => /\ ~TimeToSend
               /\ ComState = "bits" => timer > left
               /\ heard = 0 => PresentState = "id00"
               /\ heard = 1 => PresentState = "idAA" /\ id_ok
               /\ heard = 2 => PresentState = "idFF" /\ id_ok
               /\ heard = 3 => PresentState = "command" /\ id_ok
               /\ heard = 4 => \/ PresentState = "eval" /\ id_ok /\ Command_Reg \in {Bin, Hex}
                               \/ PresentState = "data"

UartInv == UartTypes /\ StrobePipe /\ WordInv /\ SilenceInv /\ HeardInv

-----------------------------------------------------------------------------
(* What each process does in a clock, case by case.                        *)

LEMMA ComCases ==
  ASSUME P_COM, ComState \in {"wait", "bits", "stop"}
  PROVE  \/ ComState = "wait" /\ UNCHANGED byteVars
         \/ /\ ComState = "wait" /\ link = "uart" /\ ComState' = "bits"
            /\ left' = BitClocks /\ ReceivedWord' = NoByte
         \/ /\ ComState = "bits" /\ left = 0 /\ ComState' = "stop"
            /\ left' = StopClocks /\ ReceivedWord' \in Bytes
         \/ /\ ComState = "stop" /\ left = 0 /\ ComState' = "wait"
            /\ UNCHANGED <<left, ReceivedWord>>
         \/ /\ ComState \in {"bits", "stop"} /\ left # 0
            /\ left' = left - 1 /\ UNCHANGED <<ComState, ReceivedWord>>
<1>1. CASE ComState = "wait"
  <2>1. ComState # "bits" /\ ~StopTick
    BY <1>1 DEF StopTick
  <2> QED
    BY <1>1, <2>1, Zenon DEF P_COM
<1>2. CASE ComState = "bits" /\ left = 0
  <2>1. ComState # "wait" /\ ~StopTick
    BY <1>2 DEF StopTick
  <2> QED
    BY <1>2, <2>1, Zenon DEF P_COM
<1>3. CASE ComState = "stop" /\ left = 0
  <2>1. ComState # "wait" /\ ComState # "bits" /\ StopTick
    BY <1>3 DEF StopTick
  <2> QED
    BY <1>3, <2>1, Zenon DEF P_COM
<1>4. CASE ComState \in {"bits", "stop"} /\ left # 0
  <2>1. ComState # "wait" /\ ~StopTick
    BY <1>4 DEF StopTick
  <2> QED
    BY <1>4, <2>1, Zenon DEF P_COM
<1> QED
  BY <1>1, <1>2, <1>3, <1>4

States == {"idle", "id00", "idAA", "idFF", "command", "eval", "data"}
LEMMA FsmCases ==
  ASSUME P_FSM, PresentState \in States
  PROVE  /\ PresentState = "idle" => PresentState' = IF Starts THEN "id00" ELSE "idle"
         /\ PresentState = "eval" =>
              PresentState' = IF id_ok /\ Command_Reg \in {Bin, Hex} THEN "data" ELSE "idle"
         /\ PresentState = "data" => PresentState' = IF TimeToSend THEN "idle" ELSE "data"
         /\ PresentState = "id00" =>
              PresentState' = IF TimeToSend THEN "idle" ELSE IF StopTick THEN "idAA" ELSE "id00"
         /\ PresentState = "idAA" =>
              PresentState' = IF TimeToSend THEN "idle" ELSE IF StopTick THEN "idFF" ELSE "idAA"
         /\ PresentState = "idFF" =>
              PresentState' = IF TimeToSend THEN "idle"
                              ELSE IF StopTick THEN "command" ELSE "idFF"
         /\ PresentState = "command" =>
              PresentState' = IF TimeToSend THEN "idle"
                              ELSE IF StopTick THEN "eval" ELSE "command"
<1>1. CASE PresentState = "idle"
  <2>1. /\ PresentState # "eval" /\ PresentState # "data"
        /\ PresentState \notin {"id00", "idAA", "idFF", "command"}
    BY <1>1
  <2> QED
    BY <1>1, <2>1, Zenon DEF P_FSM
<1>2. CASE PresentState = "eval"
  <2>1. PresentState # "idle" /\ PresentState # "data"
    BY <1>2
  <2>2. PresentState' = IF id_ok /\ Command_Reg \in {Bin, Hex} THEN "data" ELSE "idle"
    BY <1>2, <2>1, Zenon DEF P_FSM
  <2> QED
    BY <1>2, <2>2
<1>3. CASE PresentState = "data"
  <2>1. PresentState # "idle" /\ PresentState # "eval"
    BY <1>3
  <2>2. PresentState' = IF TimeToSend THEN "idle" ELSE "data"
    BY <1>3, <2>1, Zenon DEF P_FSM
  <2> QED
    BY <1>3, <2>2
<1>4. CASE PresentState \notin {"idle", "eval", "data"}
  <2>1. PresentState # "idle" /\ PresentState # "eval" /\ PresentState # "data"
    BY <1>4
  <2>2. PresentState' = IF TimeToSend THEN "idle"
                        ELSE IF StopTick THEN Successor[PresentState] ELSE PresentState
    BY <2>1, Zenon DEF P_FSM
  <2>3. /\ Successor["id00"] = "idAA" /\ Successor["idAA"] = "idFF"
        /\ Successor["idFF"] = "command" /\ Successor["command"] = "eval"
    BY DEF Successor
  <2> QED
    BY <1>4, <2>2, <2>3 DEF States
<1> QED
  BY <1>1, <1>2, <1>3, <1>4

LEMMA TimerCases ==
  ASSUME P_TimeOut
  PROVE  /\ PresentState = "idle" \/ ComState = "stop" =>
              timer' = TimeToSendValue /\ ~TimeToSend'
         /\ ~(PresentState = "idle" \/ ComState = "stop") =>
              /\ timer' = IF timer > 0 THEN timer - 1 ELSE timer
              /\ TimeToSend' <=> timer = 0
  BY DEF P_TimeOut

LEMMA RegisterCases ==
  ASSUME Registers, id_ok \in BOOLEAN
  PROVE  /\ id_ok' \in BOOLEAN
         /\ ~StopTick => UNCHANGED <<id_ok, Command_Reg, Data_Reg>>
         /\ StopTick =>
              /\ PresentState = "id00" => (id_ok' <=> ReceivedWord = Header[1])
              /\ PresentState = "idAA" => (id_ok' <=> id_ok /\ ReceivedWord = Header[2])
              /\ PresentState = "idFF" => (id_ok' <=> id_ok /\ ReceivedWord = Header[3])
              /\ PresentState \notin {"id00", "idAA", "idFF"} => id_ok' = id_ok
              /\ Command_Reg' = IF PresentState = "command" THEN ReceivedWord ELSE Command_Reg
              /\ Data_Reg' = IF PresentState = "data" THEN ReceivedWord ELSE Data_Reg
<1>3. id_ok' \in BOOLEAN
  <2>1. StopTick => \/ id_ok' = id_ok
                    \/ id_ok' = (ReceivedWord = Header[1])
                    \/ id_ok' = (id_ok /\ ReceivedWord = Header[2])
                    \/ id_ok' = (id_ok /\ ReceivedWord = Header[3])
    <3>1. CASE PresentState = "id00"
      <4>1. PresentState # "idAA" /\ PresentState # "idFF"
        BY <3>1
      <4> QED
        BY <3>1, <4>1, Zenon DEF Registers
    <3>2. CASE PresentState = "idAA"
      <4>1. PresentState # "id00" /\ PresentState # "idFF"
        BY <3>2
      <4> QED
        BY <3>2, <4>1, Zenon DEF Registers
    <3>3. CASE PresentState = "idFF"
      <4>1. PresentState # "id00" /\ PresentState # "idAA"
        BY <3>3
      <4> QED
        BY <3>3, <4>1, Zenon DEF Registers
    <3>4. CASE PresentState # "id00" /\ PresentState # "idAA" /\ PresentState # "idFF"
      BY <3>4, Zenon DEF Registers
    <3> QED
      BY <3>1, <3>2, <3>3, <3>4
  <2>2. ~StopTick => id_ok' = id_ok
    BY DEF Registers
  <2> QED
    BY <2>1, <2>2
<1>1. CASE ~StopTick
  BY <1>1 DEF Registers
<1>2. CASE StopTick
  <2>1. /\ Command_Reg' = IF PresentState = "command" THEN ReceivedWord ELSE Command_Reg
        /\ Data_Reg' = IF PresentState = "data" THEN ReceivedWord ELSE Data_Reg
    BY <1>2 DEF Registers
  <2>2. ASSUME PresentState = "id00"
        PROVE  (id_ok' <=> ReceivedWord = Header[1])
    <3>1. PresentState # "idAA" /\ PresentState # "idFF"
      BY <2>2
    <3> QED
      BY <1>2, <2>2, <3>1, Zenon DEF Registers
  <2>3. ASSUME PresentState = "idAA"
        PROVE  (id_ok' <=> id_ok /\ ReceivedWord = Header[2])
    <3>1. PresentState # "id00" /\ PresentState # "idFF"
      BY <2>3
    <3> QED
      BY <1>2, <2>3, <3>1, Zenon DEF Registers
  <2>4. ASSUME PresentState = "idFF"
        PROVE  (id_ok' <=> id_ok /\ ReceivedWord = Header[3])
    <3>1. PresentState # "id00" /\ PresentState # "idAA"
      BY <2>4
    <3> QED
      BY <1>2, <2>4, <3>1, Zenon DEF Registers
  <2>5. ASSUME PresentState # "id00", PresentState # "idAA", PresentState # "idFF"
        PROVE  id_ok' = id_ok
    BY <1>2, <2>5, Zenon DEF Registers
  <2> QED
    BY <1>3, <1>2, <2>1, <2>2, <2>3, <2>4, <2>5
<1> QED
  BY <1>1, <1>2, <1>3

LEMMA WordCases ==
  ASSUME P_WordMode
  PROVE  /\ PresentState = "eval" =>
              WriteData' = [k \in 1 .. WordBytes |-> NoByte] /\ GetWordState' = 0
         /\ PresentState # "eval" /\ ByteWriteStrobe =>
              /\ WriteData' = [WriteData EXCEPT ![GetWordState + 1] = ReceivedByte]
              /\ GetWordState' = (GetWordState + 1) % WordBytes
         /\ PresentState # "eval" /\ ~ByteWriteStrobe =>
              WriteData' = WriteData /\ GetWordState' = GetWordState
         /\ WriteStrobe' = (ByteWriteStrobe /\ GetWordState = WordBytes - 1)
  BY Zenon DEF P_WordMode

LEMMA HistoryCases ==
  ASSUME UartHistory, StrobePipe
  PROVE  /\ WriteStrobe \/ PresentState = "eval" => fed' = <<>>
         /\ ~WriteStrobe /\ PresentState # "eval" =>
              fed' = IF ComActive /\ StopTick /\ ~HexMode THEN Append(fed, ReceivedWord) ELSE fed
<1>1. WriteStrobe \/ PresentState = "eval" => ~(ComActive /\ StopTick)
  BY DEF StrobePipe, ComActive, StopTick
<1>2. ASSUME WriteStrobe \/ PresentState = "eval"
      PROVE  fed' = <<>>
  BY <1>1, <1>2, Zenon DEF UartHistory
<1>3. ASSUME ~(WriteStrobe \/ PresentState = "eval"), ComActive /\ StopTick /\ ~HexMode
      PROVE  fed' = Append(fed, ReceivedWord)
  BY <1>3, Zenon DEF UartHistory
<1>4. ASSUME ~(WriteStrobe \/ PresentState = "eval"), ~(ComActive /\ StopTick /\ ~HexMode)
      PROVE  fed' = fed
  BY <1>4, Zenon DEF UartHistory
<1> QED
  BY <1>2, <1>3, <1>4

LEMMA HeardCases ==
  ASSUME UartHistory, UartTypes, SilenceInv
  PROVE  /\ silence' = IF ComState # "wait" \/ Starts THEN 0
                       ELSE IF silence < Pause THEN silence + 1 ELSE silence
         /\ Starts => heard' = IF silence = Pause THEN 0
                               ELSE IF silence > Prompt THEN -1 ELSE heard
         /\ StopTick /\ heard \in 0 .. 2 =>
              heard' = IF ReceivedWord = Header[heard + 1] THEN heard + 1 ELSE -1
         /\ StopTick /\ heard = 3 => heard' = IF ReceivedWord \in {Bin, Hex} THEN 4 ELSE -1
         /\ StopTick /\ heard = 4 => heard' = -1
         /\ ~Starts /\ ~(StopTick /\ heard \in 0 .. 4) => heard' = heard
<1>1. StopTick => ~Starts
  BY DEF StopTick, Starts
<1>2. /\ heard = 3 => heard \notin 0 .. 2
      /\ heard = 4 => heard \notin 0 .. 2 /\ heard # 3
      /\ heard \notin 0 .. 4 => heard \notin 0 .. 2 /\ heard # 3 /\ heard # 4
  BY DEF SilenceInv
<1>3. silence' = IF ComState # "wait" \/ Starts THEN 0
                 ELSE IF silence < Pause THEN silence + 1 ELSE silence
  BY DEF UartHistory
<1>4. CASE Starts
  <2>1. heard' = IF silence = Pause THEN 0 ELSE IF silence > Prompt THEN -1 ELSE heard
    BY <1>1, <1>4, Zenon DEF UartHistory
  <2> QED
    BY <1>1, <1>3, <1>4, <2>1
<1>5. CASE StopTick /\ heard \in 0 .. 2
  <2>1. heard' = IF ReceivedWord = Header[heard + 1] THEN heard + 1 ELSE -1
    BY <1>1, <1>5, <1>2, Zenon DEF UartHistory
  <2> QED
    BY <1>1, <1>2, <1>3, <1>5, <2>1
<1>6. CASE StopTick /\ heard = 3
  <2>1. heard' = IF ReceivedWord \in {Bin, Hex} THEN 4 ELSE -1
    BY <1>1, <1>6, <1>2, Zenon DEF UartHistory
  <2> QED
    BY <1>1, <1>2, <1>3, <1>6, <2>1
<1>7. CASE StopTick /\ heard = 4
  <2>1. heard' = -1
    BY <1>1, <1>7, <1>2, Zenon DEF UartHistory
  <2> QED
    BY <1>1, <1>2, <1>3, <1>7, <2>1
<1>8. CASE ~Starts /\ ~(StopTick /\ heard \in 0 .. 4)
  <2>1. ~(StopTick /\ heard \in 0 .. 2) /\ ~(StopTick /\ heard = 3) /\ ~(StopTick /\ heard = 4)
    BY <1>8
  <2>2. heard' = heard
    BY <1>8, <2>1, Zenon DEF UartHistory
  <2> QED
    BY <1>3, <1>8, <2>1, <2>2
<1> QED
  BY <1>4, <1>5, <1>6, <1>7, <1>8 DEF SilenceInv

-----------------------------------------------------------------------------
LEMMA UartInit == Init => UartInv
<1> SUFFICES ASSUME Init PROVE UartInv
  OBVIOUS
<1> USE Sizes, Commands
<1>1. UartTypes
  <2>1. /\ ComState = "wait" /\ left = 0 /\ PresentState = "idle" /\ timer = 0
        /\ ReceivedWord = NoByte /\ Command_Reg = NoByte /\ Data_Reg = NoByte
        /\ TimeToSend \in BOOLEAN /\ ReceiveState = "high" /\ clk = 0 /\ link \in Links
    BY DEF Init
  <2>2. id_ok \in BOOLEAN
    BY DEF Init
  <2> QED
    BY <2>1, <2>2 DEF UartTypes
<1>2. StrobePipe
  BY DEF Init, StrobePipe
<1>3. WordInv
  <2>1. WriteData \in [1 .. WordBytes -> Bytes \cup {NoByte}]
    BY DEF Init
  <2>2. fed \in Seq(Bytes \cup {NoByte}) /\ Len(fed) = 0
    BY DEF Init
  <2> QED
    BY <2>1, <2>2 DEF Init, WordInv, OnItsWay
<1>4. SilenceInv
  BY DEF Init, SilenceInv, Pause
<1>5. HeardInv
  BY DEF Init, HeardInv, InTime
<1> QED
  BY <1>1, <1>2, <1>3, <1>4, <1>5 DEF UartInv

LEMMA UartTypesNext == UartInv /\ Clock => UartTypes'
<1> SUFFICES ASSUME UartInv, Clock PROVE UartTypes'
  OBVIOUS
<1> USE Sizes, Commands
<1>1. UartTypes /\ Uart
  BY DEF UartInv, Clock
<1>2. clk' \in {0, 1} /\ link' = link
  BY <1>1 DEF Clock, UartTypes
<1>3. /\ ComState' \in {"wait", "bits", "stop"} /\ ReceivedWord' \in Bytes \cup {NoByte}
      /\ left' \in Nat
      /\ ComState' = "bits" => left' <= BitClocks
      /\ ComState' = "stop" => left' <= StopClocks /\ ReceivedWord' \in Bytes
      /\ ComState' = "wait" => left' = 0
  BY <1>1, ComCases DEF Uart, UartTypes, byteVars
<1>4. PresentState' \in States
  BY <1>1, FsmCases DEF Uart, UartTypes, States
<1>5. /\ id_ok' \in BOOLEAN
      /\ Command_Reg' \in Bytes \cup {NoByte} /\ Data_Reg' \in Bytes \cup {NoByte}
  BY <1>1, RegisterCases DEF Uart, UartTypes
<1>6. timer' \in 0 .. TimeToSendValue /\ TimeToSend' \in BOOLEAN
  BY <1>1 DEF Uart, UartTypes, P_TimeOut
<1>7. ReceiveState' \in {"high", "low"}
  BY <1>1 DEF Uart, HexDigits
<1>8. link # "uart" => ComState' = "wait" /\ PresentState' = "idle"
  BY <1>1, ComCases, FsmCases DEF Uart, UartTypes, byteVars, States, Starts
<1> QED
  BY <1>1, <1>2, <1>3, <1>4, <1>5, <1>6, <1>7, <1>8 DEF UartTypes, States

(* A byte that has been received reaches the word two clocks later, long   *)
(* before the next one and before the timeout.                             *)
LEMMA StrobePipeNext == UartInv /\ Clock => StrobePipe'
<1> SUFFICES ASSUME UartInv, Clock PROVE StrobePipe'
  OBVIOUS
<1> USE Sizes, Commands
<1>1. UartTypes /\ StrobePipe /\ Uart
  BY DEF UartInv, Clock
<1>2. /\ P_COM /\ P_FSM /\ Registers /\ P_TimeOut /\ HexDigits /\ P_bus /\ P_WordMode
  BY <1>1 DEF Uart
<1>3. StopTick => ComState' = "wait" /\ ~TimeToSend
  BY <1>1, <1>2, ComCases DEF UartTypes, StrobePipe, StopTick, byteVars
<1>4. ComState' = "stop" /\ left' = 0 => ~TimeToSend'
  BY <1>1, <1>2, ComCases DEF UartTypes, byteVars, P_TimeOut
<1>5. HexWriteStrobe' = FALSE /\ (ReceiveState' = "low" => ComState' = "wait")
  BY <1>1, <1>2, <1>3 DEF HexDigits, Digit, StrobePipe, StopTick
<1>6. LocalWriteStrobe' <=> ComActive /\ StopTick
  BY <1>2 DEF P_bus
<1>7. LocalWriteStrobe' \in BOOLEAN
  BY <1>2 DEF P_bus, ComActive, StopTick
<1>8. ASSUME LocalWriteStrobe'
      PROVE  ComActive' /\ ComState' = "wait" /\ ~TimeToSend' /\ timer' = TimeToSendValue
  BY <1>1, <1>2, <1>3, <1>6, <1>8, FsmCases
     DEF UartTypes, States, ComActive, StopTick, P_TimeOut
<1>9. ByteWriteStrobe' = IF HexMode THEN FALSE ELSE LocalWriteStrobe
  BY <1>1, <1>2 DEF P_bus, StrobePipe
<1>10. ASSUME ByteWriteStrobe'
       PROVE  /\ ComActive' /\ ComState' # "stop" /\ ~TimeToSend'
              /\ ComState' = "bits" => left' = BitClocks
              /\ ~HexMode' /\ ~LocalWriteStrobe'
  <2>1. LocalWriteStrobe /\ ~HexMode
    BY <1>9, <1>10
  <2>2. ComActive /\ ComState = "wait" /\ ~TimeToSend /\ timer = TimeToSendValue /\ ~StopTick
    BY <1>1, <2>1 DEF StrobePipe, StopTick
  <2>3. ComActive' /\ ~TimeToSend'
    BY <1>1, <1>2, <2>2, FsmCases DEF UartTypes, States, ComActive, P_TimeOut
  <2>4. ComState' # "stop" /\ (ComState' = "bits" => left' = BitClocks)
    BY <1>1, <1>2, <2>2, ComCases DEF UartTypes, byteVars
  <2>5. ~HexMode'
    BY <1>1, <1>2, <2>1, <2>2, RegisterCases DEF UartTypes, HexMode
  <2> QED
    BY <1>6, <2>2, <2>3, <2>4, <2>5
<1>11. WriteStrobe' \in BOOLEAN /\ (WriteStrobe' => ByteWriteStrobe)
  BY <1>1, <1>2, WordCases DEF StrobePipe
<1>12. ASSUME WriteStrobe'
       PROVE  ComActive' /\ ComState' # "stop" /\ ~LocalWriteStrobe' /\ ~ByteWriteStrobe'
  <2>1. /\ ComActive /\ ComState # "stop" /\ ~TimeToSend
        /\ ComState = "bits" => left = BitClocks
        /\ ~LocalWriteStrobe
    BY <1>1, <1>11, <1>12 DEF StrobePipe
  <2>2. ComActive'
    BY <1>1, <1>2, <2>1, FsmCases DEF UartTypes, States, ComActive
  <2>3. ComState' # "stop"
    BY <1>1, <1>2, <2>1, ComCases DEF UartTypes, byteVars
  <2> QED
    BY <1>6, <1>9, <2>1, <2>2, <2>3 DEF StopTick
<1>13. ByteWriteStrobe' \in BOOLEAN
  BY <1>1, <1>9 DEF StrobePipe
<1> QED
  BY <1>4, <1>5, <1>7, <1>8, <1>10, <1>11, <1>12, <1>13 DEF StrobePipe

LEMMA WordInvNext == UartInv /\ Clock => WordInv'
<1> SUFFICES ASSUME UartInv, Clock PROVE WordInv'
  OBVIOUS
<1> USE Sizes, Commands
<1> DEFINE Byte == Bytes \cup {NoByte}
<1>1. UartTypes /\ StrobePipe /\ WordInv /\ Uart /\ StrobePipe' /\ UartTypes'
  BY StrobePipeNext, UartTypesNext DEF UartInv, Clock
<1>2. /\ P_COM /\ P_FSM /\ Registers /\ P_bus /\ P_WordMode /\ UartHistory
  BY <1>1 DEF Uart
<1>3. /\ GetWordState \in 0 .. WordBytes - 1 /\ WriteData \in [1 .. WordBytes -> Byte]
      /\ fed \in Seq(Byte) /\ Len(fed) \in Nat /\ Data_Reg \in Byte
  BY <1>1, LenProperties DEF WordInv, UartTypes
<1>4. LocalWriteStrobe' <=> ComActive /\ StopTick
  BY <1>2 DEF P_bus
<1>5. ByteWriteStrobe' = IF HexMode THEN FALSE ELSE LocalWriteStrobe
  BY <1>1, <1>2 DEF P_bus, StrobePipe
<1>6. ASSUME ~ComActive
      PROVE  ~OnItsWay /\ ~OnItsWay' /\ ~WriteStrobe /\ ~WriteStrobe' /\ ~ByteWriteStrobe
  BY <1>1, <1>2, <1>4, <1>5, <1>6, WordCases DEF OnItsWay, StrobePipe
<1>7. CASE PresentState = "eval"
  <2>1. ~ComActive
    BY <1>7 DEF ComActive
  <2>2. /\ GetWordState' = 0 /\ fed' = <<>>
        /\ WriteData' = [k \in 1 .. WordBytes |-> NoByte]
    BY <1>1, <1>2, <1>7, WordCases, HistoryCases
  <2>3. WriteData' \in [1 .. WordBytes -> Byte] /\ fed' \in Seq(Byte) /\ Len(fed') = 0
    BY <2>2
  <2> QED
    BY <1>6, <2>1, <2>2, <2>3 DEF WordInv
<1>8. CASE WriteStrobe
  <2>1. /\ PresentState # "eval" /\ ~ByteWriteStrobe /\ ~LocalWriteStrobe /\ ~StopTick
        /\ GetWordState = 0
    BY <1>1, <1>8 DEF StrobePipe, ComActive, StopTick, WordInv
  <2>2. /\ GetWordState' = 0 /\ fed' = <<>> /\ WriteData' = WriteData /\ ~WriteStrobe'
    BY <1>1, <1>2, <1>8, <2>1, WordCases, HistoryCases
  <2>3. ~OnItsWay'
    BY <1>4, <1>5, <2>1 DEF OnItsWay
  <2>4. fed' \in Seq(Byte) /\ Len(fed') = 0
    BY <2>2
  <2> QED
    BY <1>3, <2>2, <2>3, <2>4 DEF WordInv
<1>9. CASE PresentState # "eval" /\ ~WriteStrobe /\ ByteWriteStrobe
  <2> DEFINE g == GetWordState
  <2>1. /\ ~HexMode /\ ~StopTick /\ ~LocalWriteStrobe
    BY <1>1, <1>9 DEF StrobePipe, StopTick
  <2>2. /\ WriteData' = [WriteData EXCEPT ![g + 1] = Data_Reg]
        /\ GetWordState' = (g + 1) % WordBytes /\ fed' = fed
        /\ WriteStrobe' <=> g = WordBytes - 1
    BY <1>1, <1>2, <1>9, <2>1, WordCases, HistoryCases DEF ReceivedByte
  <2>3. /\ Len(fed) = g + 1 /\ fed[g + 1] = Data_Reg
        /\ \A k \in 1 .. g : fed[k] = WriteData[k]
    BY <1>1, <1>9 DEF WordInv, OnItsWay
  <2>4. ~OnItsWay'
    BY <1>4, <1>5, <2>1 DEF OnItsWay
  <2>5. WriteData' \in [1 .. WordBytes -> Byte] /\ \A k \in 1 .. g + 1 : fed[k] = WriteData'[k]
    BY <1>3, <2>2, <2>3
  <2>6. CASE g = WordBytes - 1
    <3>1. (g + 1) % WordBytes = 0
      BY <2>6
    <3>2. fed' \in [1 .. WordBytes -> Byte]
      BY <1>3, <2>2, <2>3, <2>6, LenProperties
    <3>3. fed' = WriteData'
      BY <2>2, <2>5, <2>6, <3>2
    <3>4. WriteStrobe' /\ GetWordState' = 0 /\ fed' \in Seq(Byte)
      BY <1>3, <2>2, <2>6, <3>1
    <3> QED
      BY <2>5, <3>3, <3>4 DEF WordInv
  <2>7. CASE g # WordBytes - 1
    <3>1. (g + 1) % WordBytes = g + 1 /\ g + 1 \in 0 .. WordBytes - 1
      BY <1>3, <2>7
    <3> QED
      BY <1>3, <2>2, <2>3, <2>4, <2>5, <2>7, <3>1 DEF WordInv
  <2> QED
    BY <2>6, <2>7
<1>10. CASE PresentState # "eval" /\ ~WriteStrobe /\ ~ByteWriteStrobe
  <2>1. /\ WriteData' = WriteData /\ GetWordState' = GetWordState /\ ~WriteStrobe'
        /\ fed' = IF ComActive /\ StopTick /\ ~HexMode THEN Append(fed, ReceivedWord) ELSE fed
    BY <1>1, <1>2, <1>10, WordCases, HistoryCases
  <2>2. \A k \in 1 .. GetWordState : fed[k] = WriteData[k]
    BY <1>1, <1>10 DEF WordInv
  <2>3. CASE ComActive /\ StopTick /\ ~HexMode
    <3>1. ~OnItsWay
      BY <1>1, <1>10, <2>3 DEF OnItsWay, StrobePipe, StopTick
    <3>2. Data_Reg' = ReceivedWord /\ HexMode' = HexMode /\ ReceivedWord \in Byte
      BY <1>1, <1>2, <2>3, RegisterCases DEF UartTypes, HexMode, ComActive
    <3>3. OnItsWay'
      BY <1>4, <2>3, <3>2 DEF OnItsWay
    <3>4. /\ fed' \in Seq(Byte) /\ Len(fed') = GetWordState + 1
          /\ \A k \in 1 .. GetWordState : fed'[k] = fed[k]
          /\ fed'[GetWordState + 1] = ReceivedWord
      <4>1. Len(fed) = GetWordState
        BY <1>1, <1>10, <3>1 DEF WordInv
      <4> QED
        BY <1>3, <2>1, <2>3, <3>2, <4>1, AppendProperties
    <3> QED
      BY <1>3, <2>1, <2>2, <3>2, <3>3, <3>4 DEF WordInv
  <2>4. CASE ~(ComActive /\ StopTick /\ ~HexMode)
    <3>1. OnItsWay' <=> OnItsWay
      <4>1. CASE LocalWriteStrobe
        <5>1. ~StopTick
          BY <1>1, <4>1 DEF StrobePipe, StopTick
        <5>2. HexMode' = HexMode
          BY <1>1, <1>2, <5>1, RegisterCases DEF UartTypes, HexMode
        <5> QED
          BY <1>4, <1>5, <1>10, <4>1, <5>1, <5>2 DEF OnItsWay
      <4>2. CASE ~LocalWriteStrobe
        <5>1. ASSUME ComActive, StopTick
              PROVE  HexMode'
          BY <1>1, <1>2, <2>4, <5>1, RegisterCases DEF UartTypes, HexMode, ComActive
        <5> QED
          BY <1>4, <1>5, <1>10, <4>2, <5>1 DEF OnItsWay
      <4> QED
        BY <4>1, <4>2
    <3>2. OnItsWay => Data_Reg' = Data_Reg
      BY <1>1, <1>2, <1>10, RegisterCases DEF OnItsWay, StrobePipe, StopTick, UartTypes
    <3> QED
      BY <1>1, <1>3, <1>10, <2>1, <2>4, <3>1, <3>2 DEF WordInv
  <2> QED
    BY <2>3, <2>4
<1> QED
  BY <1>1, <1>7, <1>8, <1>9, <1>10 DEF StrobePipe

(* The timer counts the clocks of silence.                                 *)
LEMMA SilenceInvNext == UartInv /\ Clock => SilenceInv'
<1> SUFFICES ASSUME UartInv, Clock PROVE SilenceInv'
  OBVIOUS
<1> USE Sizes, Commands
<1>1. UartTypes /\ SilenceInv /\ StrobePipe /\ Uart /\ UartTypes'
  BY UartTypesNext DEF UartInv, Clock
<1>2. /\ P_COM /\ P_FSM /\ P_TimeOut /\ UartHistory
  BY <1>1 DEF Uart
<1>3. /\ silence' = IF ComState # "wait" \/ Starts THEN 0
                    ELSE IF silence < Pause THEN silence + 1 ELSE silence
      /\ heard' \in -1 .. 4
  BY <1>1, <1>2, HeardCases DEF SilenceInv, StopTick
<1>4. silence' \in 0 .. Pause
  BY <1>1, <1>3 DEF SilenceInv, Pause
<1>5. ComState' # "wait" => silence' = 0
  BY <1>1, <1>2, <1>3, ComCases DEF UartTypes, byteVars, Starts
<1>6. ASSUME ComState' = "wait", PresentState' # "idle"
      PROVE  /\ silence' <= TimeToSendValue => timer' = TimeToSendValue - silence'
             /\ silence' > TimeToSendValue => timer' = 0
             /\ TimeToSend' <=> silence' = TimeToSendValue + 1
             /\ silence' <= TimeToSendValue + 1
  <2>1. CASE ComState # "wait"
    <3>1. ComState = "stop"
      BY <1>1, <1>2, <1>6, <2>1, ComCases DEF UartTypes, byteVars
    <3> QED
      BY <1>2, <1>3, <2>1, <3>1, TimerCases
  <2>2. CASE ComState = "wait"
    <3>1. ~Starts /\ ~StopTick
      BY <1>6, <2>2 DEF Starts, StopTick
    <3>2. PresentState # "idle" /\ (PresentState # "eval" => ~TimeToSend)
      BY <1>1, <1>2, <1>6, <3>1, FsmCases DEF UartTypes, States
    <3>3. PresentState = "eval" => silence = 0
      BY <1>1 DEF SilenceInv
    <3>4. /\ silence <= TimeToSendValue => timer = TimeToSendValue - silence
          /\ silence > TimeToSendValue => timer = 0
          /\ TimeToSend <=> silence = TimeToSendValue + 1
          /\ silence <= TimeToSendValue + 1 /\ silence \in Nat
      BY <1>1, <2>2, <3>2 DEF SilenceInv
    <3>5. silence' = silence + 1
      BY <1>3, <2>2, <3>1, <3>4 DEF Pause
    <3> QED
      BY <1>1, <1>2, <2>2, <3>2, <3>3, <3>4, <3>5, TimerCases DEF UartTypes
  <2> QED
    BY <2>1, <2>2
<1>7. PresentState' = "eval" => ComState' = "wait" /\ silence' = 0
  <2>1. PresentState' = "eval" => StopTick
    BY <1>1, <1>2, FsmCases DEF UartTypes, States
  <2> QED
    BY <1>1, <1>2, <1>3, <2>1, ComCases DEF UartTypes, StopTick, byteVars
<1> QED
  BY <1>3, <1>4, <1>5, <1>6, <1>7 DEF SilenceInv

(* A header without gaps takes the receiver from state to state in step    *)
(* with its bytes.                                                         *)
LEMMA HeardInvNext == UartInv /\ Clock => HeardInv'
<1> SUFFICES ASSUME UartInv, Clock PROVE HeardInv'
  OBVIOUS
<1> USE Sizes, Commands
<1>1. UartTypes /\ SilenceInv /\ HeardInv /\ Uart /\ UartTypes' /\ SilenceInv'
  BY UartTypesNext, SilenceInvNext DEF UartInv, Clock
<1>2. /\ P_COM /\ P_FSM /\ Registers /\ P_TimeOut /\ UartHistory
  BY <1>1 DEF Uart
<1>3. /\ Prompt \in Int /\ Pause \in Nat /\ Prompt < Pause
      /\ Prompt + BitClocks + 2 = TimeToSendValue
  BY DEF Prompt, Pause
<1>4. CASE Starts
  <2>1. /\ ComState = "wait" /\ ComState' = "bits" /\ left' = BitClocks /\ ~StopTick
        /\ UNCHANGED <<id_ok, Command_Reg>> /\ silence' = 0
        /\ heard' = IF silence = Pause THEN 0 ELSE IF silence > Prompt THEN -1 ELSE heard
    BY <1>1, <1>2, <1>4, ComCases, RegisterCases, HeardCases
       DEF UartTypes, byteVars, Starts, StopTick
  <2>2. CASE silence = Pause
    <3>1. PresentState = "idle"
      BY <1>1, <1>3, <2>1, <2>2 DEF SilenceInv, Pause
    <3>2. PresentState' = "id00" /\ timer' = TimeToSendValue /\ ~TimeToSend'
      BY <1>1, <1>2, <1>4, <3>1, FsmCases, TimerCases DEF UartTypes, States
    <3> QED
      BY <1>3, <2>1, <2>2, <3>2 DEF HeardInv, InTime
  <2>3. CASE silence # Pause /\ silence > Prompt
    BY <2>1, <2>3 DEF HeardInv, InTime
  <2>4. CASE silence <= Prompt /\ heard < 0
    BY <1>1, <1>3, <2>1, <2>4 DEF HeardInv, InTime, SilenceInv
  <2>5. CASE silence <= Prompt /\ heard >= 0
    <3>1. silence \in Nat /\ Prompt >= 0 /\ silence # Pause /\ heard' = heard
      BY <1>1, <1>3, <2>1, <2>5 DEF SilenceInv
    <3>2. InTime
      BY <2>5, <3>1 DEF InTime
    <3>3. heard \in 1 .. 4 /\ ~TimeToSend /\ PresentState # "idle"
      <4>1. heard = 1 \/ heard = 2 \/ heard = 3 \/ heard = 4
        BY <1>1, <2>1, <2>5 DEF HeardInv, SilenceInv
      <4> QED
        BY <1>1, <3>2, <4>1 DEF HeardInv
    <3>4. timer = TimeToSendValue - silence
      BY <1>1, <1>3, <2>1, <2>5, <3>1, <3>3 DEF SilenceInv
    <3>5. timer' > left' /\ ~TimeToSend'
      BY <1>2, <1>3, <2>1, <2>5, <3>1, <3>3, <3>4, TimerCases
    <3>6. /\ heard = 1 => PresentState' = "idAA" /\ id_ok'
          /\ heard = 2 => PresentState' = "idFF" /\ id_ok'
          /\ heard = 3 => PresentState' = "command" /\ id_ok'
          /\ heard = 4 => PresentState' = "data"
      BY <1>1, <1>2, <2>1, <3>2, <3>3, FsmCases DEF HeardInv, UartTypes, States
    <3> QED
      BY <2>1, <3>1, <3>3, <3>5, <3>6 DEF HeardInv, InTime
  <2> QED
    BY <1>1, <1>3, <2>2, <2>3, <2>4, <2>5 DEF SilenceInv
<1>5. CASE StopTick
  <2>1. /\ ComState = "stop" /\ ComState' = "wait" /\ ~Starts /\ silence = 0 /\ silence' = 0
        /\ timer' = TimeToSendValue /\ ~TimeToSend'
    BY <1>1, <1>2, <1>5, ComCases, TimerCases, HeardCases
       DEF UartTypes, byteVars, Starts, StopTick, SilenceInv
  <2>2. heard' = 0 => FALSE
    BY <1>1, <1>2, <1>5, <2>1, HeardCases DEF SilenceInv
  <2>3. ASSUME InTime'
        PROVE  /\ heard' = 1 => PresentState' = "idAA" /\ id_ok'
               /\ heard' = 2 => PresentState' = "idFF" /\ id_ok'
               /\ heard' = 3 => PresentState' = "command" /\ id_ok'
               /\ heard' = 4 => PresentState' = "eval" /\ id_ok' /\ Command_Reg' \in {Bin, Hex}
    <3>1. heard' >= 0 /\ Prompt >= 0
      BY <2>3 DEF InTime, Prompt
    <3>2. heard \in 0 .. 3
      BY <1>1, <1>2, <1>5, <2>1, <3>1, HeardCases DEF SilenceInv
    <3>3. InTime
      BY <2>1, <3>1, <3>2 DEF InTime
    <3>4. CASE heard = 0
      <4>1. heard' = 1 /\ ReceivedWord = Header[1]
        BY <1>1, <1>2, <1>5, <3>1, <3>4, HeardCases
      <4>2. PresentState = "id00" /\ ~TimeToSend
        BY <1>1, <3>3, <3>4 DEF HeardInv
      <4> QED
        BY <1>1, <1>2, <1>5, <4>1, <4>2, FsmCases, RegisterCases DEF UartTypes, States
    <3>5. CASE heard = 1
      <4>1. heard' = 2 /\ ReceivedWord = Header[2]
        BY <1>1, <1>2, <1>5, <3>1, <3>5, HeardCases
      <4>2. PresentState = "idAA" /\ id_ok /\ ~TimeToSend
        BY <1>1, <3>3, <3>5 DEF HeardInv
      <4> QED
        BY <1>1, <1>2, <1>5, <4>1, <4>2, FsmCases, RegisterCases DEF UartTypes, States
    <3>6. CASE heard = 2
      <4>1. heard' = 3 /\ ReceivedWord = Header[3]
        BY <1>1, <1>2, <1>5, <3>1, <3>6, HeardCases
      <4>2. PresentState = "idFF" /\ id_ok /\ ~TimeToSend
        BY <1>1, <3>3, <3>6 DEF HeardInv
      <4> QED
        BY <1>1, <1>2, <1>5, <4>1, <4>2, FsmCases, RegisterCases DEF UartTypes, States
    <3>7. CASE heard = 3
      <4>1. heard' = 4 /\ ReceivedWord \in {Bin, Hex}
        BY <1>1, <1>2, <1>5, <3>1, <3>7, HeardCases
      <4>2. PresentState = "command" /\ id_ok /\ ~TimeToSend
        BY <1>1, <3>3, <3>7 DEF HeardInv
      <4> QED
        BY <1>1, <1>2, <1>5, <4>1, <4>2, FsmCases, RegisterCases DEF UartTypes, States
    <3> QED
      BY <3>2, <3>4, <3>5, <3>6, <3>7
  <2> QED
    BY <2>1, <2>2, <2>3 DEF HeardInv
<1>6. CASE ~Starts /\ ~StopTick
  <2>1. /\ heard' = heard /\ UNCHANGED <<id_ok, Command_Reg>>
        /\ silence <= silence'
    BY <1>1, <1>2, <1>6, HeardCases, RegisterCases DEF UartTypes, SilenceInv
  <2>2. heard' = 0 => ComState' # "wait"
    BY <1>1, <1>2, <1>6, <2>1, ComCases DEF UartTypes, byteVars, HeardInv, StopTick
  <2>3. ASSUME InTime'
        PROVE  /\ ~TimeToSend'
               /\ ComState' = "bits" => timer' > left'
               /\ heard = 0 => PresentState' = "id00"
               /\ heard = 1 => PresentState' = "idAA" /\ id_ok
               /\ heard = 2 => PresentState' = "idFF" /\ id_ok
               /\ heard = 3 => PresentState' = "command" /\ id_ok
               /\ heard = 4 => PresentState' = "data"
    <3>1. InTime
      BY <1>1, <1>3, <2>1, <2>3 DEF InTime, SilenceInv, Prompt
    <3>2. /\ heard = 0 => PresentState' = "id00"
          /\ heard = 1 => PresentState' = "idAA" /\ id_ok
          /\ heard = 2 => PresentState' = "idFF" /\ id_ok
          /\ heard = 3 => PresentState' = "command" /\ id_ok
          /\ heard = 4 => PresentState' = "data"
      BY <1>1, <1>2, <1>6, <3>1, FsmCases DEF HeardInv, UartTypes, States
    <3>3. heard \in 0 .. 4 /\ PresentState # "idle" /\ PresentState' # "idle"
      BY <1>1, <3>1, <3>2 DEF HeardInv, InTime, SilenceInv
    <3>4. CASE ComState = "wait"
      <4>1. ComState' = "wait"
        BY <1>1, <1>2, <1>6, <3>4, ComCases DEF UartTypes, byteVars, Starts
      <4>2. silence' <= Prompt /\ silence' \in Nat
        BY <1>1, <2>3 DEF InTime, SilenceInv, Prompt
      <4> QED
        BY <1>1, <1>3, <3>2, <3>3, <4>1, <4>2 DEF SilenceInv
    <3>5. CASE ComState = "bits"
      <4>1. timer > left /\ left \in Nat /\ timer \in Nat
        BY <1>1, <3>1, <3>5 DEF HeardInv, UartTypes
      <4>2. ~TimeToSend' /\ timer' = timer - 1
        BY <1>2, <3>3, <3>5, <4>1, TimerCases
      <4>3. ComState' = "bits" => left' = left - 1
        BY <1>1, <1>2, <3>5, ComCases DEF UartTypes, byteVars
      <4> QED
        BY <3>2, <4>1, <4>2, <4>3
    <3>6. CASE ComState = "stop"
      <4>1. ComState' = "stop" /\ ~TimeToSend'
        BY <1>1, <1>2, <1>6, <3>6, ComCases, TimerCases DEF UartTypes, byteVars, StopTick
      <4> QED
        BY <3>2, <4>1
    <3> QED
      BY <1>1, <3>4, <3>5, <3>6 DEF UartTypes
  <2> QED
    BY <2>1, <2>2, <2>3 DEF HeardInv
<1> QED
  BY <1>4, <1>5, <1>6

LEMMA UartStutter == UartInv /\ UNCHANGED vars => UartInv'
<1> SUFFICES ASSUME UartInv, UNCHANGED vars PROVE UartInv'
  OBVIOUS
<1> USE DEF vars, uartVars, byteVars, frameVars, wordVars
<1>1. UartTypes' /\ SilenceInv' /\ HeardInv'
  BY DEF UartInv, UartTypes, SilenceInv, HeardInv, InTime, Prompt, Pause
<1>2. StrobePipe' /\ WordInv'
  BY DEF UartInv, StrobePipe, ComActive, HexMode, WordInv, OnItsWay
<1> QED
  BY <1>1, <1>2 DEF UartInv

LEMMA UartStep == UartInv /\ [Next]_vars => UartInv'
  BY UartTypesNext, StrobePipeNext, WordInvNext, SilenceInvNext, HeardInvNext, UartStutter
     DEF UartInv, Next

LEMMA UartLayer == Spec => []UartInv
  BY UartInit, UartStep, PTL DEF Spec

(* A word the UART writes is the bytes that followed the header, in order, *)
(* whatever streams were cut off before (config_UART.v:393-431).           *)
THEOREM UartWordsAreBytes == Spec => []WordsAreBytes
<1>1. UartInv => WordsAreBytes
  BY DEF UartInv, WordInv, WordsAreBytes
<1> QED
  BY <1>1, UartLayer, PTL

(* After a pause a header without gaps opens the port, whatever was        *)
(* received before (config_UART.v:229-288, 439-457).                       *)
THEOREM HeaderAfterPauseOpens == Spec => []HeaderOpensPort
<1>1. ASSUME UartInv PROVE HeaderOpensPort
  <2> SUFFICES ASSUME heard = 4, silence <= Prompt, PresentState # "eval" PROVE ComActive
    BY DEF HeaderOpensPort
  <2>1. silence \in Nat /\ Prompt \in Int
    BY <1>1, Sizes DEF UartInv, SilenceInv, Prompt, Pause
  <2>2. InTime
    BY <2>1 DEF InTime
  <2> QED
    BY <1>1, <2>2 DEF UartInv, HeardInv, ComActive
<1> QED
  BY <1>1, UartLayer, PTL

-----------------------------------------------------------------------------
(* Bitbang: what the sender has put on the line, one and two clocks ago,   *)
(* and what the shift registers hold of it.                                *)

Words == [1 .. WordLength -> {0, 1}]
End == 2 * WordLength
Stages == [pos : 0 .. End, word : Words, control : {On, Off, Silent},
           last : Words, lastc : {On, Off, Silent}]
Stage(s) == s \in Stages /\ (s.pos < End => s.control \in {On, Off})

(* A later point of the sender, at most one level further.                 *)
Advances(s, t) ==
  \/ t = s
  \/ s.pos < End /\ t = [s EXCEPT !.pos = s.pos + 1]
  \/ s.pos = End /\ t.pos = 0 /\ t.last = s.word /\ t.lastc = s.control

LevelOf(s) ==
  IF s.pos = End THEN [s_clk |-> 0, s_data |-> 0]
  ELSE IF s.pos % 2 = 0 THEN [s_clk |-> 0, s_data |-> s.word[s.pos \div 2 + 1]]
  ELSE [s_clk |-> 1, s_data |-> ControlBit(s.control, s.pos \div 2 + 1)]

Shifted(a, w, d) == [k \in 1 .. WordLength |-> IF k + d <= WordLength THEN a[k + d]
                                               ELSE w[k + d - WordLength]]
DataOf(s) == Shifted(s.last, s.word, (s.pos + 1) \div 2)
ControlOf(s) == Window(s.lastc, s.control, s.pos \div 2)

HoldsOn(s) == \/ s.pos = End /\ s.control = On
              \/ s.pos \in {0, 1} /\ s.lastc = On
HeldWord(s) == IF s.pos = End THEN s.word ELSE s.last

LEMMA Patterns ==
  /\ WordLength \in Nat /\ WordLength >= 2 /\ End \in Nat /\ End >= 4
  /\ Len(On) \in Nat \ {0} /\ Len(On) <= WordLength
  /\ {On, Off, Silent} \subseteq [1 .. Len(On) -> {0, 1}]
  /\ On # Off /\ On # Silent /\ BitWords \subseteq Words /\ BitWords # {}
<1>1. Len(On) \in Nat /\ Len(Off) = Len(On) /\ On \in Seq({0, 1}) /\ Off \in Seq({0, 1})
  BY SerialAssumption, LenProperties
<1>2. WordLength \in Nat /\ WordLength >= 2
  BY SerialAssumption
<1>3. Silent \in [1 .. Len(On) -> {0, 1}]
  BY DEF Silent
<1>4. On \in [1 .. Len(On) -> {0, 1}] /\ Off \in [1 .. Len(On) -> {0, 1}]
  BY <1>1, LenProperties
<1> QED
  BY <1>1, <1>2, <1>3, <1>4, SerialAssumption, PatternAssumption DEF Words, End

LEMMA LengthOf ==
  ASSUME NEW n \in Nat, NEW S, NEW reg \in [1 .. n -> S]
  PROVE  reg \in Seq(S) /\ Len(reg) = n
<1>1. reg \in Seq(S)
  BY SeqDef
<1>2. Len(reg) \in Nat /\ 1 .. n = 1 .. Len(reg)
  BY <1>1, LenProperties
<1>3. n = 0 => Len(reg) = 0
  <2>1. SUFFICES ASSUME n = 0, Len(reg) # 0 PROVE FALSE
    BY <1>2
  <2>2. 1 \in 1 .. Len(reg)
    BY <1>2, <2>1
  <2> QED
    BY <1>2, <2>1, <2>2
<1>4. n # 0 => n \in 1 .. Len(reg) /\ Len(reg) \in 1 .. n
  <2>1. n # 0 => n \in 1 .. n
    OBVIOUS
  <2>2. n # 0 => n \in 1 .. Len(reg)
    BY <1>2, <2>1
  <2>3. n # 0 => Len(reg) \in 1 .. Len(reg)
    BY <1>2, <2>2
  <2> QED
    BY <1>2, <2>2, <2>3
<1> QED
  BY <1>1, <1>2, <1>3, <1>4

LEMMA ShiftInValue ==
  ASSUME NEW n \in Nat \ {0}, NEW reg \in [1 .. n -> {0, 1}], NEW bit \in {0, 1}
  PROVE  ShiftIn(reg, bit) = [k \in 1 .. n |-> IF k < n THEN reg[k + 1] ELSE bit]
<1> DEFINE r == ShiftIn(reg, bit)
<1>1. reg \in Seq({0, 1}) /\ Len(reg) = n /\ reg # <<>>
  <2>1. reg \in Seq({0, 1}) /\ Len(reg) = n
    BY LengthOf
  <2> QED
    BY <2>1, EmptySeq
<1>2. /\ Tail(reg) \in Seq({0, 1}) /\ Len(Tail(reg)) = n - 1
      /\ \A k \in 1 .. n - 1 : Tail(reg)[k] = reg[k + 1]
  BY <1>1, HeadTailProperties
<1>3. /\ r \in Seq({0, 1}) /\ Len(r) = n
      /\ \A k \in 1 .. n - 1 : r[k] = Tail(reg)[k]
      /\ r[n] = bit
  BY <1>1, <1>2, AppendProperties DEF ShiftIn
<1>4. r \in [1 .. n -> {0, 1}]
  BY <1>3, LenProperties
<1> QED
  BY <1>2, <1>3, <1>4

LEMMA ControlBits ==
  ASSUME NEW c \in {On, Off, Silent}, NEW k \in 1 .. WordLength
  PROVE  ControlBit(c, k) \in {0, 1}
  BY Patterns DEF ControlBit

(* A stage is at the start, before a rising level or before a falling one. *)
LEMMA HalfValues ==
  \A n \in Nat : (2 * n) \div 2 = n /\ (2 * n + 1) \div 2 = n
OBVIOUS

LEMMA HalfOfEnds ==
  /\ End \div 2 = WordLength /\ (End + 1) \div 2 = WordLength
  /\ 0 \div 2 = 0 /\ (0 + 1) \div 2 = 0
<1>1. WordLength \in Nat
  BY Patterns
<1> QED
  BY <1>1, HalfValues DEF End

LEMMA Halves ==
  ASSUME NEW s, Stage(s)
  PROVE  \/ s.pos = End
         \/ \E k \in 0 .. WordLength - 1 : s.pos = 2 * k
         \/ \E k \in 0 .. WordLength - 1 : s.pos = 2 * k + 1
<1>1. s.pos \in 0 .. 2 * WordLength /\ WordLength \in Nat
  BY Patterns DEF Stage, Stages, End
<1> DEFINE k == s.pos \div 2
<1>2. k \in Nat /\ (s.pos = 2 * k \/ s.pos = 2 * k + 1)
  BY <1>1
<1> QED
  BY <1>1, <1>2 DEF End

LEMMA LevelValues ==
  ASSUME NEW s, Stage(s)
  PROVE  /\ s.pos = End => LevelOf(s).s_clk = 0
         /\ \A k \in 0 .. WordLength - 1 :
              /\ s.pos = 2 * k => /\ LevelOf(s).s_clk = 0 /\ LevelOf(s).s_data = s.word[k + 1]
              /\ s.pos = 2 * k + 1 => /\ LevelOf(s).s_clk = 1
                                      /\ LevelOf(s).s_data = ControlBit(s.control, k + 1)
<1>1. s.pos = End => LevelOf(s).s_clk = 0
  BY DEF LevelOf
<1>2. ASSUME NEW k \in 0 .. WordLength - 1, s.pos = 2 * k
      PROVE  LevelOf(s).s_clk = 0 /\ LevelOf(s).s_data = s.word[k + 1]
  <2>1. s.pos # End /\ s.pos % 2 = 0 /\ s.pos \div 2 = k
    BY <1>2, Patterns DEF End
  <2> QED
    BY <2>1 DEF LevelOf
<1>3. ASSUME NEW k \in 0 .. WordLength - 1, s.pos = 2 * k + 1
      PROVE  LevelOf(s).s_clk = 1 /\ LevelOf(s).s_data = ControlBit(s.control, k + 1)
  <2>1. s.pos # End /\ s.pos % 2 # 0 /\ s.pos \div 2 = k
    BY <1>3, Patterns DEF End
  <2> QED
    BY <2>1 DEF LevelOf
<1> QED
  BY <1>1, <1>2, <1>3

LEMMA ShiftedValues ==
  ASSUME NEW a \in Words, NEW w \in Words
  PROVE  /\ Shifted(a, w, 0) = a /\ Shifted(a, w, WordLength) = w
         /\ \A d \in 0 .. WordLength : Shifted(a, w, d) \in Words
         /\ \A d \in 0 .. WordLength - 1 : ShiftIn(Shifted(a, w, d), w[d + 1]) = Shifted(a, w, d + 1)
<1> USE Patterns
<1>1. Shifted(a, w, 0) = a /\ Shifted(a, w, WordLength) = w
  BY DEF Shifted, Words
<1>2. \A d \in 0 .. WordLength : Shifted(a, w, d) \in Words
  BY DEF Shifted, Words
<1>3. ASSUME NEW d \in 0 .. WordLength - 1
      PROVE  ShiftIn(Shifted(a, w, d), w[d + 1]) = Shifted(a, w, d + 1)
  <2>1. ShiftIn(Shifted(a, w, d), w[d + 1])
          = [k \in 1 .. WordLength |-> IF k < WordLength THEN Shifted(a, w, d)[k + 1] ELSE w[d + 1]]
    <3>1. /\ Shifted(a, w, d) \in [1 .. WordLength -> {0, 1}] /\ w[d + 1] \in {0, 1}
          /\ WordLength \in Nat \ {0}
      BY <1>2 DEF Words
    <3>2. \A reg \in [1 .. WordLength -> {0, 1}], bit \in {0, 1} :
            ShiftIn(reg, bit) = [k \in 1 .. WordLength |-> IF k < WordLength THEN reg[k + 1] ELSE bit]
      BY <3>1, ShiftInValue
    <3> QED
      BY <3>1, <3>2
  <2>2. \A k \in 1 .. WordLength :
          (IF k < WordLength THEN Shifted(a, w, d)[k + 1] ELSE w[d + 1])
            = IF k + (d + 1) <= WordLength THEN a[k + (d + 1)] ELSE w[k + (d + 1) - WordLength]
    BY DEF Shifted
  <2> QED
    BY <2>1, <2>2 DEF Shifted
<1> QED
  BY <1>1, <1>2, <1>3

LEMMA WindowValues ==
  ASSUME NEW a \in {On, Off, Silent}, NEW b \in {On, Off, Silent}
  PROVE  /\ Window(a, b, 0) = a /\ Window(a, b, WordLength) = b
         /\ \A j \in 0 .. WordLength : Window(a, b, j) \in [1 .. Len(On) -> {0, 1}]
         /\ \A j \in 0 .. WordLength - 1 :
              ShiftIn(Window(a, b, j), ControlBit(b, j + 1)) = Window(a, b, j + 1)
<1> USE Patterns
<1>1. Window(a, b, 0) = a
  BY DEF Window
<1>2. Window(a, b, WordLength) = b
  BY DEF Window, ControlBit
<1>3. ASSUME NEW j \in 0 .. WordLength
      PROVE  Window(a, b, j) \in [1 .. Len(On) -> {0, 1}]
  <2>1. \A k \in 1 .. Len(On) : k + j <= Len(On) => a[k + j] \in {0, 1}
    OBVIOUS
  <2>2. ASSUME NEW k \in 1 .. Len(On), ~(k + j <= Len(On))
        PROVE  ControlBit(b, k + j - Len(On)) \in {0, 1}
    <3>1. k + j - Len(On) \in 1 .. WordLength
      BY <2>2
    <3> QED
      BY <3>1, ControlBits
  <2> QED
    BY <2>1, <2>2 DEF Window
<1>4. ASSUME NEW j \in 0 .. WordLength - 1
      PROVE  ShiftIn(Window(a, b, j), ControlBit(b, j + 1)) = Window(a, b, j + 1)
  <2>1. ShiftIn(Window(a, b, j), ControlBit(b, j + 1))
          = [k \in 1 .. Len(On) |-> IF k < Len(On) THEN Window(a, b, j)[k + 1]
                                    ELSE ControlBit(b, j + 1)]
    <3>1. j + 1 \in 1 .. WordLength /\ j \in 0 .. WordLength
      OBVIOUS
    <3>2. ControlBit(b, j + 1) \in {0, 1} /\ Window(a, b, j) \in [1 .. Len(On) -> {0, 1}]
      BY <1>3, <3>1, ControlBits
    <3>3. \A reg \in [1 .. Len(On) -> {0, 1}], bit \in {0, 1} :
            ShiftIn(reg, bit) = [k \in 1 .. Len(On) |-> IF k < Len(On) THEN reg[k + 1] ELSE bit]
      BY Patterns, ShiftInValue
    <3> QED
      BY <3>2, <3>3
  <2>2. \A k \in 1 .. Len(On) :
          (IF k < Len(On) THEN Window(a, b, j)[k + 1] ELSE ControlBit(b, j + 1))
            = IF k + (j + 1) <= Len(On) THEN a[k + (j + 1)]
              ELSE ControlBit(b, k + (j + 1) - Len(On))
    BY DEF Window
  <2> QED
    BY <2>1, <2>2 DEF Window
<1> QED
  BY <1>1, <1>2, <1>3, <1>4

(* The shift registers follow the levels.                                  *)
LEMMA RegistersFollow ==
  ASSUME NEW s, NEW t, Stage(s), Stage(t), Advances(s, t)
  PROVE  /\ DataOf(t) = IF LevelOf(s).s_clk = 0 /\ LevelOf(t).s_clk = 1
                        THEN ShiftIn(DataOf(s), LevelOf(s).s_data) ELSE DataOf(s)
         /\ ControlOf(t) = IF LevelOf(s).s_clk = 1 /\ LevelOf(t).s_clk = 0
                           THEN ShiftIn(ControlOf(s), LevelOf(s).s_data) ELSE ControlOf(s)
<1> USE Patterns DEF End
<1>1. /\ s.pos \in 0 .. End /\ s.word \in Words /\ s.last \in Words
      /\ s.control \in {On, Off, Silent} /\ s.lastc \in {On, Off, Silent}
  BY DEF Stage, Stages
<1>2. CASE t = s
  BY <1>2, Halves, LevelValues
<1>3. CASE s.pos = End /\ t.pos = 0 /\ t.last = s.word /\ t.lastc = s.control
  <2>1. /\ t.word \in Words /\ t.control \in {On, Off, Silent}
        /\ t.last \in Words /\ t.lastc \in {On, Off, Silent}
    BY DEF Stage, Stages
  <2>2. LevelOf(s).s_clk = 0 /\ LevelOf(t).s_clk = 0
    BY <1>3, LevelValues
  <2>3. (s.pos + 1) \div 2 = WordLength /\ s.pos \div 2 = WordLength
        /\ (t.pos + 1) \div 2 = 0 /\ t.pos \div 2 = 0
    BY <1>3, HalfOfEnds, Zenon
  <2>4. DataOf(s) = s.word /\ DataOf(t) = t.last
    <3>1. Shifted(s.last, s.word, WordLength) = s.word /\ Shifted(t.last, t.word, 0) = t.last
      BY <1>1, <2>1, ShiftedValues, Zenon
    <3> QED
      BY <2>3, <3>1 DEF DataOf
  <2>5. ControlOf(s) = s.control /\ ControlOf(t) = t.lastc
    BY <1>1, <2>1, <2>3, WindowValues DEF ControlOf
  <2> QED
    BY <1>3, <2>2, <2>4, <2>5
<1>4. CASE s.pos < End /\ t = [s EXCEPT !.pos = s.pos + 1]
  <2>1. /\ t.pos = s.pos + 1 /\ t.word = s.word /\ t.last = s.last
        /\ t.control = s.control /\ t.lastc = s.lastc
    BY <1>4 DEF Stage, Stages
  <2>2. CASE \E k \in 0 .. WordLength - 1 : s.pos = 2 * k
    <3>1. PICK k \in 0 .. WordLength - 1 : s.pos = 2 * k
      BY <2>2
    <3>2. /\ LevelOf(s).s_clk = 0 /\ LevelOf(s).s_data = s.word[k + 1] /\ LevelOf(t).s_clk = 1
      BY <2>1, <3>1, LevelValues
    <3>3. /\ (s.pos + 1) \div 2 = k /\ s.pos \div 2 = k
          /\ (t.pos + 1) \div 2 = k + 1 /\ t.pos \div 2 = k
      BY <2>1, <3>1
    <3>4. ShiftIn(DataOf(s), s.word[k + 1]) = DataOf(t)
      <4>1. ShiftIn(Shifted(s.last, s.word, k), s.word[k + 1]) = Shifted(s.last, s.word, k + 1)
        <5>1. \A d \in 0 .. WordLength - 1 :
                ShiftIn(Shifted(s.last, s.word, d), s.word[d + 1]) = Shifted(s.last, s.word, d + 1)
          BY <1>1, ShiftedValues, Zenon
        <5> QED
          BY <5>1
      <4> QED
        BY <2>1, <3>3, <4>1 DEF DataOf
    <3>5. ControlOf(t) = ControlOf(s)
      BY <2>1, <3>3 DEF ControlOf
    <3> QED
      BY <3>2, <3>4, <3>5
  <2>3. CASE \E k \in 0 .. WordLength - 1 : s.pos = 2 * k + 1
    <3>1. PICK k \in 0 .. WordLength - 1 : s.pos = 2 * k + 1
      BY <2>3
    <3>2. LevelOf(s).s_clk = 1 /\ LevelOf(s).s_data = ControlBit(s.control, k + 1)
      BY <3>1, LevelValues
    <3>3. LevelOf(t).s_clk = 0
      <4>1. CASE k = WordLength - 1
        BY <2>1, <3>1, <4>1, LevelValues
      <4>2. CASE k # WordLength - 1
        <5>1. k + 1 \in 0 .. WordLength - 1 /\ t.pos = 2 * (k + 1)
          BY <2>1, <3>1, <4>2
        <5> QED
          BY <5>1, LevelValues
      <4> QED
        BY <4>1, <4>2
    <3>4. /\ (s.pos + 1) \div 2 = k + 1 /\ s.pos \div 2 = k
          /\ (t.pos + 1) \div 2 = k + 1 /\ t.pos \div 2 = k + 1
      BY <2>1, <3>1
    <3>5. ShiftIn(ControlOf(s), ControlBit(s.control, k + 1)) = ControlOf(t)
      <4>1. ShiftIn(Window(s.lastc, s.control, k), ControlBit(s.control, k + 1))
              = Window(s.lastc, s.control, k + 1)
        BY <1>1, WindowValues, Zenon
      <4> QED
        BY <2>1, <3>4, <4>1 DEF ControlOf
    <3>6. DataOf(t) = DataOf(s)
      BY <2>1, <3>4 DEF DataOf
    <3> QED
      BY <3>2, <3>3, <3>5, <3>6
  <2> QED
    BY <1>4, <2>2, <2>3, Halves
<1> QED
  BY <1>2, <1>3, <1>4 DEF Advances

(* The on pattern is in the control register from the end of its word to   *)
(* the first control bit of the next, and its word is in the data register *)
(* until the first data bit of the next.                                   *)
LEMMA OnIsSeen ==
  ASSUME NEW s, Stage(s)
  PROVE  /\ ControlOf(s) = On <=> HoldsOn(s)
         /\ s.pos \in {0, End} => DataOf(s) = HeldWord(s)
<1> USE Patterns DEF End
<1>1. /\ s.pos \in 0 .. End /\ s.word \in Words /\ s.last \in Words
      /\ s.control \in {On, Off, Silent} /\ s.lastc \in {On, Off, Silent}
  BY DEF Stage, Stages
<1>2. s.pos \in {0, End} => DataOf(s) = HeldWord(s)
  <2>1. ASSUME s.pos = 0 PROVE DataOf(s) = HeldWord(s)
    <3>1. (s.pos + 1) \div 2 = 0 /\ s.pos # End
      BY <2>1
    <3>2. Shifted(s.last, s.word, 0) = s.last
      BY <1>1, ShiftedValues, Zenon
    <3> QED
      BY <3>1, <3>2 DEF DataOf, HeldWord
  <2>2. ASSUME s.pos = End PROVE DataOf(s) = HeldWord(s)
    <3>1. (s.pos + 1) \div 2 = WordLength
      BY <2>2, HalfOfEnds, Zenon
    <3>2. Shifted(s.last, s.word, WordLength) = s.word
      BY <1>1, ShiftedValues, Zenon
    <3> QED
      BY <2>2, <3>1, <3>2 DEF DataOf, HeldWord
  <2> QED
    BY <2>1, <2>2
<1>3. CASE s.pos = End
  <2>1. s.pos \div 2 = WordLength
    BY <1>3, HalfOfEnds, Zenon
  <2> QED
    BY <1>1, <1>2, <1>3, <2>1, WindowValues DEF ControlOf, HoldsOn
<1>4. CASE s.pos \in {0, 1}
  <2>1. s.pos \div 2 = 0
    BY <1>4
  <2> QED
    BY <1>1, <1>2, <1>4, <2>1, WindowValues DEF ControlOf, HoldsOn
<1>5. CASE s.pos \notin {0, 1, End}
  <2>1. s.pos \div 2 \in 1 .. WordLength - 1
    <3>1. PICK k \in 0 .. WordLength - 1 : s.pos = 2 * k \/ s.pos = 2 * k + 1
      BY <1>5, Halves
    <3>2. s.pos = 2 * k => s.pos \div 2 = k
      OBVIOUS
    <3>3. s.pos = 2 * k + 1 => s.pos \div 2 = k
      OBVIOUS
    <3>4. k # 0 /\ s.pos \div 2 = k
      BY <1>5, <3>1, <3>2, <3>3
    <3> QED
      BY <3>4
  <2>2. s.control \in {On, Off}
    BY <1>1, <1>5 DEF Stage
  <2>3. ControlOf(s) # On
    BY <1>1, <2>1, <2>2, PatternAssumption DEF ControlOf
  <2> QED
    BY <1>2, <1>5, <2>3 DEF HoldsOn
<1> QED
  BY <1>3, <1>4, <1>5

LEMMA HoldingMoves ==
  ASSUME NEW s, NEW t, Stage(s), Stage(t), Advances(s, t)
  PROVE  /\ HoldsOn(s) /\ HoldsOn(t) => HeldWord(t) = HeldWord(s)
         /\ ~HoldsOn(s) /\ HoldsOn(t) => s.pos = End - 1 /\ t.pos = End
         /\ HoldsOn(s) /\ ~HoldsOn(t) => s.pos = 1 /\ t.pos = 2
         /\ HoldsOn(s) => s.pos \in {0, 1, End}
         /\ t.pos = s.pos \/ t.pos = s.pos + 1 \/ (s.pos = End /\ t.pos = 0)
         /\ t.pos \in 0 .. End /\ s.pos \in 0 .. End
<1>1. s.pos \in 0 .. End /\ t.pos \in 0 .. End /\ End \in Nat /\ End >= 4
  BY Patterns DEF Stage, Stages
<1>2. CASE t = s
  BY <1>1, <1>2 DEF HoldsOn
<1>3. CASE s.pos = End /\ t.pos = 0 /\ t.last = s.word /\ t.lastc = s.control
  BY <1>1, <1>3 DEF HoldsOn, HeldWord
<1>4. CASE s.pos < End /\ t = [s EXCEPT !.pos = s.pos + 1]
  <2>1. /\ t.pos = s.pos + 1 /\ t.word = s.word /\ t.last = s.last
        /\ t.control = s.control /\ t.lastc = s.lastc
    BY <1>4 DEF Stage, Stages
  <2> QED
    BY <1>1, <1>4, <2>1 DEF HoldsOn, HeldWord
<1> QED
  BY <1>2, <1>3, <1>4 DEF Advances

-----------------------------------------------------------------------------
(* The inductive invariant of the bitbang port: the sender is at s1, the   *)
(* last two stages of the synchroniser show it one and two clocks ago.     *)

Pipe(s1, s2, s3) ==
  /\ Stage(s1) /\ Stage(s2) /\ Stage(s3) /\ Advances(s3, s2) /\ Advances(s2, s1)
  /\ pos = s1.pos
  /\ pos < End => sending.word = s1.word /\ sending.control = s1.control
  /\ line = LevelOf(s1) /\ sample2 = LevelOf(s2) /\ sample3 = LevelOf(s3)
  /\ serial_data = DataOf(s3) /\ serial_control = ControlOf(s3)
  /\ hold \in 1 .. Hold
  /\ link # "bitbang" => s3 = s1 /\ s2 = s1 /\ pos = End /\ s1.control = Silent

Sent(s) == IF HoldsOn(s) THEN <<HeldWord(s)>> ELSE <<>>

(* The clocks of the strobe, counted from the pattern's arrival.           *)
Strobes(s1, s2, s3) ==
  /\ local_strobe \in BOOLEAN /\ old_local_strobe \in BOOLEAN /\ strobe \in BOOLEAN
  /\ ~HoldsOn(s3) =>
       /\ ~strobe /\ (local_strobe => s3.pos = 2 /\ old_local_strobe)
       /\ owed = IF HoldsOn(s2) THEN Sent(s2) ELSE Sent(s1)
  /\ HoldsOn(s3) /\ ~local_strobe =>
       s3.pos = End /\ ~old_local_strobe /\ ~strobe /\ owed = Sent(s3)
  /\ HoldsOn(s3) /\ local_strobe =>
       /\ active
       /\ ~old_local_strobe => /\ ~strobe /\ s3.pos \in {0, End} /\ owed = Sent(s3)
                               /\ data = HeldWord(s3)
       /\ old_local_strobe => /\ old_reset
                              /\ strobe => owed = Sent(s3) /\ data = HeldWord(s3)
                              /\ ~strobe => owed = <<>>

PortsInv ==
  /\ \E s1, s2, s3 : Pipe(s1, s2, s3) /\ Strobes(s1, s2, s3)
  /\ WriteStrobe => old_reset

LEMMA PortsInit == Init => PortsInv
<1> SUFFICES ASSUME Init PROVE PortsInv
  OBVIOUS
<1> USE Patterns, Sizes DEF End
<1> DEFINE zeros == [k \in 1 .. WordLength |-> 0]
           s == [pos |-> End, word |-> zeros, control |-> Silent, last |-> zeros, lastc |-> Silent]
<1>1. zeros \in Words /\ Stage(s) /\ s.pos = End /\ s.word = zeros /\ s.control = Silent
  BY DEF Words, Stage, Stages
<1> HIDE DEF s
<1>2. LevelOf(s) = [s_clk |-> 0, s_data |-> 0]
  BY <1>1 DEF LevelOf
<1>3. DataOf(s) = zeros
  BY <1>1, OnIsSeen DEF HeldWord
<1>4. ControlOf(s) = Silent
  <2>1. s.pos \div 2 = WordLength /\ s.lastc \in {On, Off, Silent}
    BY <1>1 DEF Stage, Stages
  <2>2. Window(s.lastc, Silent, WordLength) = Silent
    BY <2>1, WindowValues, Zenon
  <2> QED
    BY <1>1, <2>1, <2>2 DEF ControlOf
<1>5. ~HoldsOn(s)
  BY <1>1 DEF HoldsOn
<1>6. Pipe(s, s, s)
  BY <1>1, <1>2, <1>3, <1>4 DEF Pipe, Init, Advances
<1>7. Strobes(s, s, s)
  BY <1>5 DEF Strobes, Init, Sent
<1> QED
  BY <1>6, <1>7 DEF PortsInv, Init

(* The sender keeps its level, goes on to the next, or begins a word.      *)
LEMMA SenderMoves ==
  ASSUME NEW s1, NEW s2, NEW s3, Pipe(s1, s2, s3), Sender
  PROVE  \E t : /\ Stage(t) /\ Advances(s1, t) /\ pos' = t.pos
                /\ pos' < End => sending'.word = t.word /\ sending'.control = t.control
                /\ line' = LevelOf(t) /\ hold' \in 1 .. Hold
                /\ link # "bitbang" => t = s1
<1> USE Patterns, Sizes DEF End
<1>1. Stage(s1) /\ pos = s1.pos /\ pos \in 0 .. End /\ hold \in 1 .. Hold
  BY DEF Pipe, Stage, Stages
<1>2. CASE NextWord
  <2>1. PICK w \in BitWords, c \in {On, Off} : sending' = [word |-> w, control |-> c]
    BY <1>2 DEF NextWord
  <2>2. /\ pos = End /\ pos' = 0 /\ line' = [s_clk |-> 0, s_data |-> sending'.word[1]]
        /\ hold' = 1 /\ link = "bitbang"
    BY <1>2 DEF NextWord
  <2> DEFINE t == [pos |-> 0, word |-> w, control |-> c, last |-> s1.word, lastc |-> s1.control]
  <2>3. Stage(t) /\ t.pos = 0 /\ t.word = w /\ t.control = c
    BY <1>1 DEF Stage, Stages
  <2>4. LevelOf(t) = line'
    BY <2>1, <2>2 DEF LevelOf
  <2>5. Advances(s1, t)
    BY <1>1, <2>2 DEF Advances
  <2> HIDE DEF t
  <2> QED
    BY <2>1, <2>2, <2>3, <2>4, <2>5
<1>3. CASE NextHalfBit
  <2> DEFINE t == [s1 EXCEPT !.pos = s1.pos + 1]
  <2>1. /\ pos < End /\ pos' = pos + 1 /\ line' = LineAt(pos + 1) /\ hold' = 1
        /\ sending' = sending /\ sending.word = s1.word /\ sending.control = s1.control
    BY <1>3 DEF NextHalfBit, Pipe
  <2>2. /\ Stage(t) /\ t.pos = pos + 1 /\ t.word = s1.word /\ t.control = s1.control
    <3>1. s1 \in Stages /\ s1.control \in {On, Off} /\ s1.pos + 1 \in 0 .. End
      BY <1>1, <2>1 DEF Stage
    <3>2. t \in Stages
      BY <3>1 DEF Stages
    <3>3. t.pos = s1.pos + 1 /\ t.word = s1.word /\ t.control = s1.control
      BY <3>1 DEF Stages
    <3> QED
      BY <1>1, <3>1, <3>2, <3>3 DEF Stage
  <2>3. Advances(s1, t)
    BY <1>1, <2>1 DEF Advances
  <2> HIDE DEF t
  <2>4. LevelOf(t) = line'
    BY <2>1, <2>2 DEF LevelOf, LineAt
  <2>5. link = "bitbang"
    BY <2>1 DEF Pipe
  <2> QED
    BY <2>1, <2>2, <2>3, <2>4, <2>5
<1>4. CASE HoldLevel
  <2>1. hold' \in 1 .. Hold /\ UNCHANGED <<line, sending, pos>>
    BY <1>1, <1>4 DEF HoldLevel
  <2>2. /\ pos < End => sending.word = s1.word /\ sending.control = s1.control
        /\ line = LevelOf(s1)
    BY DEF Pipe
  <2> QED
    BY <1>1, <2>1, <2>2 DEF Advances
<1> QED
  BY <1>2, <1>3, <1>4 DEF Sender

LEMMA StrobeCases ==
  ASSUME p_parallel_load, active_FSM, BitHistory
  PROVE  /\ local_strobe' = (serial_control = On)
         /\ data' = IF serial_control = On THEN serial_data ELSE data
         /\ old_local_strobe' = local_strobe
         /\ strobe' = (local_strobe /\ ~old_local_strobe)
         /\ serial_control = On => active' = TRUE
         /\ ~(Completes /\ sending.control = On) => owed' = IF strobe THEN <<>> ELSE owed
         /\ Completes /\ sending.control = On =>
              owed' = Append(IF strobe THEN <<>> ELSE owed, sending.word)
<1>1. serial_control = On => serial_control # Off
  BY Patterns
<1>2. serial_control = On => active' = TRUE
  BY <1>1, Zenon DEF active_FSM
<1> QED
  BY <1>2 DEF p_parallel_load, BitHistory

LEMMA PipeMoves ==
  ASSUME NEW s1, NEW s2, NEW s3, Pipe(s1, s2, s3), Clock
  PROVE  \E t : Pipe(t, s1, s2)' /\ Stage(t) /\ Advances(s1, t)
<1>1. Sender /\ p_in_shift /\ link' = link
  BY DEF Clock, Bitbang
<1>2. PICK t : /\ Stage(t) /\ Advances(s1, t) /\ pos' = t.pos
               /\ pos' < End => sending'.word = t.word /\ sending'.control = t.control
               /\ line' = LevelOf(t) /\ hold' \in 1 .. Hold
               /\ link # "bitbang" => t = s1
  BY <1>1, SenderMoves
<1>3. sample2' = LevelOf(s1) /\ sample3' = LevelOf(s2)
  BY <1>1 DEF p_in_shift, Pipe
<1>4. /\ LevelOf(s2).s_clk \in {0, 1} /\ LevelOf(s3).s_clk \in {0, 1}
  BY DEF LevelOf
<1>5. serial_data' = DataOf(s2) /\ serial_control' = ControlOf(s2)
  <2>1. /\ DataOf(s2) = IF LevelOf(s3).s_clk = 0 /\ LevelOf(s2).s_clk = 1
                        THEN ShiftIn(DataOf(s3), LevelOf(s3).s_data) ELSE DataOf(s3)
        /\ ControlOf(s2) = IF LevelOf(s3).s_clk = 1 /\ LevelOf(s2).s_clk = 0
                           THEN ShiftIn(ControlOf(s3), LevelOf(s3).s_data) ELSE ControlOf(s3)
    BY RegistersFollow DEF Pipe
  <2>2. /\ sample2 = LevelOf(s2) /\ sample3 = LevelOf(s3)
        /\ serial_data = DataOf(s3) /\ serial_control = ControlOf(s3)
    BY DEF Pipe
  <2> QED
    BY <1>1, <2>1, <2>2 DEF p_in_shift, Rising, Falling
<1>6. Pipe(t, s1, s2)'
  BY <1>1, <1>2, <1>3, <1>5 DEF Pipe
<1> QED
  BY <1>2, <1>6

LEMMA StrobesNext ==
  ASSUME NEW s1, NEW s2, NEW s3, NEW t, Pipe(s1, s2, s3), Strobes(s1, s2, s3),
         Pipe(t, s1, s2)', Stage(t), Advances(s1, t), Clock
  PROVE  Strobes(t, s1, s2)'
<1>1. /\ Stage(s1) /\ Stage(s2) /\ Stage(s3) /\ Advances(s3, s2) /\ Advances(s2, s1)
      /\ pos = s1.pos /\ pos' = t.pos /\ serial_data = DataOf(s3)
      /\ pos < End => sending.word = s1.word /\ sending.control = s1.control
      /\ End \in Nat /\ End >= 4
  BY Patterns DEF Pipe
<1>2. serial_control = On <=> HoldsOn(s3)
  BY OnIsSeen DEF Pipe
<1>3. /\ local_strobe' = (serial_control = On)
      /\ data' = IF serial_control = On THEN serial_data ELSE data
      /\ old_local_strobe' = local_strobe
      /\ strobe' = (local_strobe /\ ~old_local_strobe)
      /\ serial_control = On => active' = TRUE
      /\ ~(Completes /\ sending.control = On) => owed' = IF strobe THEN <<>> ELSE owed
      /\ Completes /\ sending.control = On =>
           owed' = Append(IF strobe THEN <<>> ELSE owed, sending.word)
      /\ active => old_reset' = TRUE
  <2>1. p_parallel_load /\ active_FSM /\ BitHistory /\ old_reset' = FSM_Reset
    BY DEF Clock, Bitbang
  <2>2. active => old_reset' = TRUE
    BY <2>1 DEF FSM_Reset
  <2> QED
    BY <2>1, <2>2, StrobeCases
<1>4. /\ s1.pos \in 0 .. End /\ s2.pos \in 0 .. End /\ s3.pos \in 0 .. End /\ t.pos \in 0 .. End
      /\ s2.pos = s3.pos \/ s2.pos = s3.pos + 1 \/ (s3.pos = End /\ s2.pos = 0)
      /\ s1.pos = s2.pos \/ s1.pos = s2.pos + 1 \/ (s2.pos = End /\ s1.pos = 0)
      /\ t.pos = s1.pos \/ t.pos = s1.pos + 1 \/ (s1.pos = End /\ t.pos = 0)
      /\ HoldsOn(s1) => s1.pos \in {0, 1, End}
      /\ HoldsOn(s2) => s2.pos \in {0, 1, End}
      /\ HoldsOn(s3) => s3.pos \in {0, 1, End}
  BY <1>1, HoldingMoves
<1>5. /\ local_strobe' \in BOOLEAN /\ old_local_strobe' \in BOOLEAN /\ strobe' \in BOOLEAN
  BY <1>3 DEF Strobes
(* The end of a word: the sender has just given the last control bit.      *)
<1>6. /\ HoldsOn(t) /\ ~HoldsOn(s1) <=> Completes /\ sending.control = On
      /\ HoldsOn(t) /\ ~HoldsOn(s1) => HeldWord(t) = sending.word /\ s1.pos = End - 1
      /\ HoldsOn(t) /\ HoldsOn(s1) => HeldWord(t) = HeldWord(s1)
  <2>1. Completes <=> s1.pos < End /\ t.pos = End
    BY <1>1 DEF Completes, End
  <2>2. ASSUME s1.pos < End, t.pos = End
        PROVE  /\ s1.pos = End - 1 /\ ~HoldsOn(s1) /\ t.word = s1.word /\ t.control = s1.control
    <3>1. t = [s1 EXCEPT !.pos = s1.pos + 1]
      BY <1>1, <2>2 DEF Advances
    <3> QED
      BY <1>1, <1>4, <2>2, <3>1 DEF Stage, Stages
  <2>3. HoldsOn(t) /\ ~HoldsOn(s1) => s1.pos = End - 1 /\ t.pos = End
    BY <1>1, HoldingMoves
  <2>4. t.pos = End => (HoldsOn(t) <=> t.control = On) /\ HeldWord(t) = t.word
    BY <1>1 DEF HoldsOn, HeldWord
  <2>5. HoldsOn(t) /\ HoldsOn(s1) => HeldWord(t) = HeldWord(s1)
    BY <1>1, HoldingMoves
  <2> QED
    BY <1>1, <2>1, <2>2, <2>3, <2>4, <2>5
<1>7. CASE ~HoldsOn(s3) /\ ~HoldsOn(s2)
  <2>1. ~local_strobe' /\ ~strobe' /\ ~strobe /\ owed = Sent(s1)
    BY <1>2, <1>3, <1>7 DEF Strobes
  <2>2. CASE HoldsOn(s1)
    <3>1. owed' = owed
      BY <1>3, <1>6, <2>1, <2>2
    <3> QED
      BY <1>5, <1>7, <2>1, <2>2, <3>1 DEF Strobes
  <2>3. CASE ~HoldsOn(s1)
    <3>1. owed' = Sent(t)
      BY <1>3, <1>6, <2>1, <2>3 DEF Sent
    <3> QED
      BY <1>5, <1>7, <2>1, <2>3, <3>1 DEF Strobes
  <2> QED
    BY <2>2, <2>3
<1>8. CASE ~HoldsOn(s3) /\ HoldsOn(s2)
  <2>1. s3.pos = End - 1 /\ s2.pos = End
    BY <1>1, <1>8, HoldingMoves
  <2>2. ~local_strobe /\ ~strobe /\ owed = Sent(s2)
    BY <1>1, <1>8, <2>1 DEF Strobes
  <2>3. ~local_strobe' /\ ~old_local_strobe' /\ ~strobe'
    BY <1>2, <1>3, <1>8, <2>2
  <2>4. owed' = owed
    BY <1>1, <1>3, <1>4, <1>6, <2>1, <2>2
  <2> QED
    BY <1>5, <1>8, <2>1, <2>2, <2>3, <2>4 DEF Strobes
<1>9. CASE HoldsOn(s3) /\ HoldsOn(s2)
  <2>1. /\ HeldWord(s2) = HeldWord(s3) /\ Sent(s2) = Sent(s3)
        /\ local_strobe' /\ active' /\ data' = serial_data
    BY <1>1, <1>2, <1>3, <1>9, HoldingMoves DEF Sent
  <2>2. s1.pos # End - 1
    BY <1>1, <1>4, <1>9
  <2>3. owed' = IF strobe THEN <<>> ELSE owed
    BY <1>3, <1>6, <2>2
  <2>4. CASE ~local_strobe
    <3>1. s3.pos = End /\ ~strobe /\ owed = Sent(s3)
      BY <1>9, <2>4 DEF Strobes
    <3>2. data' = HeldWord(s2)
      BY <1>1, <2>1, <3>1, OnIsSeen
    <3>3. ~old_local_strobe' /\ ~strobe' /\ s2.pos \in {0, End}
      <4>1. ~old_local_strobe' /\ ~strobe'
        BY <1>3, <2>4
      <4>2. s2.pos \in {0, End}
        BY <1>1, <1>4, <3>1
      <4> QED
        BY <4>1, <4>2
    <3> QED
      BY <1>5, <1>9, <2>1, <2>3, <3>1, <3>2, <3>3 DEF Strobes
  <2>5. CASE local_strobe /\ ~old_local_strobe
    <3>1. s3.pos \in {0, End} /\ ~strobe /\ owed = Sent(s3) /\ active
      BY <1>9, <2>5 DEF Strobes
    <3>2. data' = HeldWord(s2)
      BY <1>1, <2>1, <3>1, OnIsSeen
    <3>3. old_local_strobe' /\ strobe' /\ old_reset'
      BY <1>3, <2>5, <3>1
    <3> QED
      BY <1>5, <1>9, <2>1, <2>3, <3>1, <3>2, <3>3 DEF Strobes
  <2>6. CASE local_strobe /\ old_local_strobe
    <3>1. active /\ (~strobe => owed = <<>>)
      BY <1>9, <2>6 DEF Strobes
    <3>2. old_local_strobe' /\ ~strobe' /\ old_reset' /\ owed' = <<>>
      BY <1>3, <2>3, <2>6, <3>1
    <3> QED
      BY <1>5, <1>9, <2>1, <3>2 DEF Strobes
  <2> QED
    BY <2>4, <2>5, <2>6 DEF Strobes
<1>10. CASE HoldsOn(s3) /\ ~HoldsOn(s2)
  <2>1. s3.pos = 1 /\ s2.pos = 2
    BY <1>1, <1>10, HoldingMoves
  <2>2. local_strobe /\ old_local_strobe /\ (~strobe => owed = <<>>)
    BY <1>1, <1>10, <2>1 DEF Strobes
  <2>3. local_strobe' /\ old_local_strobe' /\ ~strobe'
    BY <1>2, <1>3, <1>10, <2>2
  <2>4. ~HoldsOn(s1)
    BY <1>1, <1>4, <2>1
  <2>5. owed' = Sent(t)
    <3>1. (IF strobe THEN <<>> ELSE owed) = <<>>
      BY <2>2
    <3>2. Append(<<>>, sending.word) = <<sending.word>>
      OBVIOUS
    <3>3. CASE Completes /\ sending.control = On
      BY <1>3, <1>6, <2>4, <3>1, <3>2, <3>3 DEF Sent
    <3>4. CASE ~(Completes /\ sending.control = On)
      BY <1>3, <1>6, <2>4, <3>1, <3>4 DEF Sent
    <3> QED
      BY <3>3, <3>4
  <2> QED
    BY <1>5, <1>10, <2>1, <2>3, <2>4, <2>5 DEF Strobes
<1> QED
  BY <1>7, <1>8, <1>9, <1>10

LEMMA PortsNext == UartInv /\ PortsInv /\ Clock => PortsInv'
<1> SUFFICES ASSUME UartInv, PortsInv, Clock PROVE PortsInv'
  OBVIOUS
<1>1. PICK s1, s2, s3 : Pipe(s1, s2, s3) /\ Strobes(s1, s2, s3)
  BY DEF PortsInv
<1>2. PICK t : Pipe(t, s1, s2)' /\ Stage(t) /\ Advances(s1, t)
  BY <1>1, PipeMoves
<1>3. Strobes(t, s1, s2)'
  BY <1>1, <1>2, StrobesNext
<1>4. WriteStrobe' => old_reset'
  <2>1. P_WordMode /\ old_reset' = FSM_Reset
    BY DEF Clock, Uart
  <2>2. WriteStrobe' => ComActive
    BY <2>1, WordCases DEF UartInv, StrobePipe
  <2> QED
    BY <2>1, <2>2 DEF FSM_Reset
<1>5. \E u1, u2, u3 : (Pipe(u1, u2, u3) /\ Strobes(u1, u2, u3))'
  BY <1>2, <1>3
<1> QED
  BY <1>4, <1>5 DEF PortsInv

LEMMA PortsStutter == PortsInv /\ UNCHANGED vars => PortsInv'
  BY DEF PortsInv, Pipe, Strobes, vars, uartVars, wordVars, bitVars

LEMMA PortsStep == UartInv /\ PortsInv /\ [Next]_vars => PortsInv'
  BY PortsNext, PortsStutter DEF Next

LEMMA PortsLayer == Spec => [](UartInv /\ PortsInv)
<1>1. UartInv /\ PortsInv /\ [Next]_vars => (UartInv /\ PortsInv)'
  BY UartStep, PortsStep
<1> QED
  BY <1>1, UartInit, PortsInit, PTL DEF Spec

(* The registers of both ports stay within their ranges.                   *)
THEOREM PortTypes == Spec => []TypeOK
<1>1. ASSUME UartInv, PortsInv PROVE TypeOK
  <2> USE Sizes, Patterns
  <2>1. PICK s1, s2, s3 : Pipe(s1, s2, s3) /\ Strobes(s1, s2, s3)
    BY <1>1 DEF PortsInv
  <2>2. /\ clk \in {0, 1} /\ ComState \in {"wait", "bits", "stop"}
        /\ left \in 0 .. BitClocks + StopClocks /\ PresentState \in States
        /\ ReceiveState \in {"high", "low"} /\ timer \in 0 .. TimeToSendValue
        /\ TimeToSend \in BOOLEAN
    BY <1>1 DEF UartInv, UartTypes, States
  <2>3. /\ GetWordState \in 0 .. WordBytes - 1
        /\ WriteData \in [1 .. WordBytes -> Bytes \cup {NoByte} \cup (Bytes \X Bytes)]
        /\ heard \in -1 .. 4
    BY <1>1 DEF UartInv, WordInv, SilenceInv
  <2>4. pos \in 0 .. 2 * WordLength /\ hold \in 1 .. Hold
    BY <2>1 DEF Pipe, Stage, Stages, End
  <2>5. Len(serial_control) = Len(On)
    <3>1. /\ s3.lastc \in {On, Off, Silent} /\ s3.control \in {On, Off, Silent}
          /\ s3.pos \div 2 \in 0 .. WordLength
      <4>1. /\ s3.pos \in 0 .. 2 * WordLength
            /\ s3.lastc \in {On, Off, Silent} /\ s3.control \in {On, Off, Silent}
        BY <2>1 DEF Pipe, Stage, Stages, End
      <4>2. s3.pos \div 2 \in 0 .. WordLength
        BY <4>1
      <4> QED
        BY <4>1, <4>2
    <3>2. ControlOf(s3) \in [1 .. Len(On) -> {0, 1}]
      BY <3>1, WindowValues DEF ControlOf
    <3>3. serial_control = ControlOf(s3)
      BY <2>1 DEF Pipe
    <3> QED
      BY <3>2, <3>3, LengthOf
  <2>6. Len(owed) <= 1
    <3>1. owed = <<>> \/ \E w : owed = <<w>>
      BY <2>1 DEF Strobes, Sent
    <3>2. owed = <<>> => Len(owed) <= 1
      OBVIOUS
    <3>3. ASSUME NEW w, owed = <<w>> PROVE Len(owed) <= 1
      <4>1. Len(owed) = 1
        BY <3>3
      <4> QED
        BY <4>1
    <3> QED
      BY <3>1, <3>2, <3>3
  <2> QED
    BY <2>2, <2>3, <2>4, <2>5, <2>6 DEF TypeOK, States
<1> QED
  BY <1>1, PortsLayer, PTL

(* Over bitbang a word with the on pattern is strobed once, as it was      *)
(* sent, and before the next one is complete (bitbang.v:21-69).            *)
THEOREM BitbangStrobesWordOnce == Spec => []BitbangWordsOnce
<1>1. ASSUME PortsInv PROVE BitbangWordsOnce
  <2>1. PICK s1, s2, s3 : Strobes(s1, s2, s3)
    BY <1>1 DEF PortsInv
  <2> QED
    BY <2>1 DEF Strobes, Sent, BitbangWordsOnce
<1> QED
  BY <1>1, PortsLayer, PTL

(* No port loses a word to its own reset of ConfigFSM or to its timeout    *)
(* (eFPGA_Config.v:65-75, ConfigFSM.v:33-40).                              *)
THEOREM NoWordLostToReset == Spec => []WordsReachFsm
<1>1. ASSUME UartInv, PortsInv PROVE WordsReachFsm
  <2>1. PICK s1, s2, s3 : Pipe(s1, s2, s3) /\ Strobes(s1, s2, s3)
    BY <1>1 DEF PortsInv
  <2>2. CASE WriteStrobe
    <3>1. ComActive /\ old_reset
      BY <1>1, <2>2 DEF UartInv, StrobePipe, PortsInv
    <3> QED
      BY <2>2, <3>1 DEF WordsReachFsm, ConfigWriteStrobe, ResetClock
  <2>3. CASE strobe
    <3>1. HoldsOn(s3) /\ local_strobe /\ old_local_strobe /\ active /\ old_reset
      BY <2>1, <2>3 DEF Strobes
    <3>2. link = "bitbang"
      BY <2>1, <3>1, Patterns DEF Pipe, HoldsOn, End
    <3>3. ~ComActive
      BY <1>1, <3>2 DEF UartInv, UartTypes, ComActive
    <3> QED
      BY <2>3, <3>1, <3>3 DEF WordsReachFsm, ConfigWriteStrobe, ResetClock
  <2> QED
    BY <2>2, <2>3 DEF WordsReachFsm
<1> QED
  BY <1>1, PortsLayer, PTL
=============================================================================
