----------------------------- MODULE ConfigPath -----------------------------
(***************************************************************************)
(* The configuration path of the fabric, one clock per step: ConfigFSM.v,  *)
(* the row registers of Frame_Data_Reg.v, Frame_Select.v and the           *)
(* configuration latches, fed with the words the manager strobes (CPU      *)
(* port).  The UART and the bitbang port of eFPGA_Config.v are tied off in *)
(* this SoC, so FSM_Reset stays 0.                                         *)
(*                                                                         *)
(* The sender is the driver's load: it writes the words of one bitstream,  *)
(* at least MinGap clocks apart, and compares the manager's count with the *)
(* number it sent.                                                         *)
(***************************************************************************)
EXTENDS Integers, Sequences

CONSTANTS
  NumberOfRows, Cols, FrameIdx,
  Words, ColOf, FramesOf,
  SyncWord, DesyncWord,  \* 0xFAB0_FAB1 and the word that ends a bitstream
  ZeroWord,              \* 0, the reset value of the address register
  DesyncFlag,            \* the words with bit 20 set
  Images, NoImage,
  MinGap,                \* clocks between two strobes, at least
  MaxFaults              \* bound on words lost between CPU and manager

ASSUME PathAssumption ==
  /\ NumberOfRows \in 1 .. 31
  /\ {SyncWord, DesyncWord, ZeroWord} \subseteq Words
  /\ DesyncFlag \subseteq Words
  /\ {SyncWord, DesyncWord} \subseteq DesyncFlag
  /\ NoImage \notin Images
  /\ MinGap \in Nat \ {0} /\ MaxFaults \in Nat

VARIABLES
  state, FrameShiftState, FrameAddressRegister, FrameStrobe,  \* ConfigFSM
  oldFrameStrobe, LongFrameStrobe,
  FrameRegister,  \* the row registers
  latches,        \* the configuration latches of the fabric
  image, sent, counted, gap,  \* the load: bitstream, words written, words
                              \* counted by the manager, clocks since a strobe
  faults,         \* words lost so far
  applied,        \* frames of the image strobed so far (history)
  before,         \* the latches when the load began (history)
  clean           \* no load failed since the last reset (history)

fsmVars    == <<state, FrameShiftState, FrameAddressRegister, FrameStrobe>>
strobeVars == <<oldFrameStrobe, LongFrameStrobe>>
dataVars   == <<FrameRegister, latches>>
loadVars   == <<image, sent, counted, gap, faults>>
histVars   == <<applied, before, clean>>
vars == <<fsmVars, strobeVars, dataVars, loadVars, histVars>>

Memory ==
  INSTANCE FrameMemory WITH mem <- latches, image <- image, pos <- applied,
                            intact <- clean /\ counted = sent

(* Metadata, sync word, the frames one after the other, desync word.       *)
FrameWords == NumberOfRows + 1
WordOfFrames(i, n) ==
  LET frame == i.frames[n \div FrameWords + 1]
      row   == n % FrameWords
  IN IF row = 0 THEN frame.header ELSE frame.data[row]
ImageWords(i) ==
  i.meta \o <<SyncWord>>
    \o [n \in 1 .. Len(i.frames) * FrameWords |-> WordOfFrames(i, n - 1)]
    \o <<DesyncWord>>

(* The metadata hold no sync word, and a header addresses frames: its      *)
(* desync bit is 0.  Data words are any words.                             *)
ASSUME BitstreamAssumption ==
  \A i \in Images :
    /\ i.meta \in Seq(Words \ {SyncWord})
    /\ i.frames \in Seq([header : Words \ DesyncFlag,
                         data : [1 .. NumberOfRows -> Words]])

Init ==
  /\ state = "unsynced" /\ FrameShiftState = 0
  /\ FrameAddressRegister = ZeroWord /\ FrameStrobe = FALSE
  /\ oldFrameStrobe = FALSE /\ LongFrameStrobe = FALSE
  /\ FrameRegister = [r \in 1 .. NumberOfRows |-> ZeroWord]
  /\ latches = [c \in Cols |-> [f \in FrameIdx |-> FrameRegister]]
  /\ image = NoImage /\ sent = 0 /\ counted = 0 /\ gap = MinGap /\ faults = 0
  /\ applied = 0 /\ before = latches /\ clean = TRUE

-----------------------------------------------------------------------------
(* One clock of the fabric, with or without a word                         *)

Unsynced(word) ==
  /\ state = "unsynced"
  /\ state' = IF word = SyncWord THEN "synced" ELSE "unsynced"
  /\ FrameStrobe' = FALSE
  /\ UNCHANGED <<FrameShiftState, FrameAddressRegister>>

Desync(word) ==
  /\ state = "synced" /\ word \in DesyncFlag
  /\ state' = "unsynced" /\ FrameStrobe' = FALSE
  /\ UNCHANGED <<FrameShiftState, FrameAddressRegister>>

HeaderOneRowShort(word) ==  \* fault: one row of the frame not counted
  /\ state = "synced" /\ word \notin DesyncFlag
  /\ state' = "frame" /\ FrameStrobe' = FALSE
  /\ FrameAddressRegister' = word /\ FrameShiftState' = NumberOfRows - 1
Header(word) ==
  /\ state = "synced" /\ word \notin DesyncFlag
  /\ state' = "frame" /\ FrameStrobe' = FALSE
  /\ FrameAddressRegister' = word /\ FrameShiftState' = NumberOfRows

FrameWord(word) ==
  /\ state = "frame"
  /\ FrameShiftState' = (FrameShiftState - 1) % 32
  /\ FrameStrobe' = (FrameShiftState = 1)
  /\ state' = IF FrameShiftState = 1 THEN "synced" ELSE "frame"
  /\ UNCHANGED FrameAddressRegister

StoreRowLate(word) ==  \* fault: RowSelect taken after the decrement
  FrameRegister' = IF FrameShiftState' \in 1 .. NumberOfRows
                   THEN [FrameRegister EXCEPT ![FrameShiftState'] = word]
                   ELSE FrameRegister

(* RowSelect is FrameShiftState while a word is strobed: the row registers *)
(* that exist are rows 1 to NumberOfRows.                                  *)
StoreRow(word) ==
  FrameRegister' = IF FrameShiftState \in 1 .. NumberOfRows
                   THEN [FrameRegister EXCEPT ![FrameShiftState] = word]
                   ELSE FrameRegister

(* LongFrameStrobe follows FrameStrobe for two clocks, and while it is up  *)
(* the addressed latches are transparent.                                  *)
StrobeAndLatch ==
  /\ oldFrameStrobe' = FrameStrobe
  /\ LongFrameStrobe' = (FrameStrobe \/ oldFrameStrobe)
  /\ latches' = IF LongFrameStrobe'
                THEN Memory!Overlay(latches, FrameAddressRegister', FrameRegister')
                ELSE latches
  /\ applied' = IF LongFrameStrobe' /\ ~LongFrameStrobe THEN applied + 1 ELSE applied

ClockWith(word) ==
  /\ Unsynced(word) \/ Desync(word) \/ Header(word) \/ FrameWord(word)
  /\ StoreRow(word)
  /\ StrobeAndLatch

ClockWithout ==
  /\ FrameStrobe' = FALSE
  /\ UNCHANGED <<state, FrameShiftState, FrameAddressRegister, FrameRegister>>
  /\ StrobeAndLatch

-----------------------------------------------------------------------------
(* The load                                                                *)

ReadyEarly == gap >= 1  \* fault: words back to back
Ready == gap >= MinGap

(* The FPGA load call, its count read before the stream. *)
BeginLoad ==
  /\ image = NoImage /\ Ready
  /\ image' \in Images /\ sent' = 0 /\ counted' = 0
  /\ before' = latches /\ applied' = 0
  /\ UNCHANGED <<fsmVars, strobeVars, dataVars, gap, faults, clean>>

MoreWords == image # NoImage /\ sent < Len(ImageWords(image))

SendWord ==
  /\ MoreWords /\ Ready
  /\ ClockWith(ImageWords(image)[sent + 1])
  /\ sent' = sent + 1 /\ counted' = counted + 1 /\ gap' = 1
  /\ UNCHANGED <<image, faults, before, clean>>

LoseWord ==
  /\ MoreWords /\ Ready /\ faults < MaxFaults
  /\ ClockWithout
  /\ sent' = sent + 1 /\ gap' = 1 /\ faults' = faults + 1
  /\ UNCHANGED <<image, counted, before, clean>>

Wait ==
  /\ ClockWithout
  /\ gap' = IF gap < MinGap THEN gap + 1 ELSE gap
  /\ UNCHANGED <<image, sent, counted, faults, before, clean>>

AllSent == image # NoImage /\ sent = Len(ImageWords(image)) /\ Ready
Verified == AllSent /\ counted = sent

(* The count read after the stream: 0 or -EIO. *)
EndLoad ==
  /\ AllSent
  /\ image' = NoImage /\ sent' = 0 /\ counted' = 0 /\ applied' = 0
  /\ clean' = (clean /\ counted = sent)
  /\ UNCHANGED <<fsmVars, strobeVars, dataVars, gap, faults, before>>

(* fpga_reset between two loads: the latches and row registers have none.  *)
ResetKeepsState ==  \* fault: the state register is not reset
  /\ image = NoImage
  /\ FrameShiftState' = 0
  /\ FrameAddressRegister' = ZeroWord /\ FrameStrobe' = FALSE
  /\ oldFrameStrobe' = FALSE /\ LongFrameStrobe' = FALSE
  /\ clean' = TRUE
  /\ UNCHANGED <<state, dataVars, loadVars, applied, before>>
Reset ==
  /\ image = NoImage
  /\ state' = "unsynced" /\ FrameShiftState' = 0
  /\ FrameAddressRegister' = ZeroWord /\ FrameStrobe' = FALSE
  /\ oldFrameStrobe' = FALSE /\ LongFrameStrobe' = FALSE
  /\ clean' = TRUE
  /\ UNCHANGED <<dataVars, loadVars, applied, before>>

Next == BeginLoad \/ SendWord \/ LoseWord \/ Wait \/ EndLoad \/ Reset

(* The clock runs, and a load under way goes on writing and ends. *)
Spec == Init /\ [][Next]_vars
FairSpec ==
  Spec /\ WF_vars(Wait) /\ WF_vars(SendWord) /\ WF_vars(EndLoad)

-----------------------------------------------------------------------------
(* Properties                                                              *)

Frames == [1 .. NumberOfRows -> Words]

TypeOK ==
  /\ state \in {"unsynced", "synced", "frame"}
  /\ FrameShiftState \in 0 .. NumberOfRows
  /\ state = "frame" <=> FrameShiftState > 0
  /\ FrameAddressRegister \in Words
  /\ FrameStrobe \in BOOLEAN
  /\ oldFrameStrobe \in BOOLEAN /\ LongFrameStrobe \in BOOLEAN
  /\ FrameRegister \in Frames
  /\ latches \in [Cols -> [FrameIdx -> Frames]]
  /\ image \in Images \cup {NoImage}
  /\ sent \in Nat /\ counted \in 0 .. sent /\ gap \in 1 .. MinGap
  /\ faults \in 0 .. MaxFaults /\ applied \in Nat
  /\ before \in [Cols -> [FrameIdx -> Frames]] /\ clean \in BOOLEAN

(* While the latches are transparent neither the address nor a row changes *)
(* under them, though the FSM already waits for the next word.             *)
FrameIsStable ==
  [][LongFrameStrobe /\ LongFrameStrobe' =>
       UNCHANGED <<FrameAddressRegister, FrameRegister>>]_vars

(* A load whose count agrees leaves the fabric holding its bitstream over  *)
(* what was there before, and the FSM out of sync, as long as no load      *)
(* failed since the last reset.                                            *)
Configured ==
  /\ latches = Memory!WithImage(before, image)
  /\ state = "unsynced"
CleanLoadConfigures == Verified /\ clean => Configured

(* The driver's own claim: a load whose count agrees configured the        *)
(* fabric, whatever failed before it.                                      *)
VerifiedLoadConfigures == Verified => Configured

(* The path implements the frame memory: frames appear whole, in order,    *)
(* and a load under way ends with all of them written; a lost word voids   *)
(* that for its load and the ones after it, and a reset restores it.       *)
IsFrameMemory == Memory!LiveSpec
=============================================================================
