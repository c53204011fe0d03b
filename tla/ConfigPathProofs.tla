-------------------------- MODULE ConfigPathProofs --------------------------
(***************************************************************************)
(* Proofs about ConfigPath, for any number of rows, columns, frames and    *)
(* bitstreams: its types, that a frame is stable while it is latched, that *)
(* a clean load leaves its bitstream in the latches, and that the path     *)
(* implements FrameMemory.                                                 *)
(***************************************************************************)
EXTENDS ConfigPath, SequenceTheorems, TLAPS

(* The strobe is up in the two clocks after the one that follows the last  *)
(* word of a frame, when the next word cannot have come yet.               *)
StrobeWindow ==
  /\ gap \in 1 .. MinGap
  /\ FrameStrobe => gap = 1
  /\ oldFrameStrobe => gap = 2
  /\ LongFrameStrobe => gap \in {2, 3}

(* What a clock does to the strobe registers. *)
LEMMA StrobeClock ==
  ASSUME StrobeAndLatch
  PROVE  /\ oldFrameStrobe' => FrameStrobe
         /\ LongFrameStrobe' => FrameStrobe \/ oldFrameStrobe
BY DEF StrobeAndLatch

(* The constants are small numbers. *)
LEMMA Widths ==
  /\ MinGap \in Nat \ {0} /\ MaxFaults \in Nat
  /\ NumberOfRows \in Nat /\ NumberOfRows > 0 /\ NumberOfRows < 32
  /\ ZeroWord \in Words
BY PathAssumption

(* The window holds initially. *)
LEMMA WindowInit == Init => StrobeWindow
BY PathAssumption DEF Init, StrobeWindow

(* Every step keeps the window, if strobes are at least three clocks apart. *)
LEMMA WindowStep ==
  ASSUME MinGap >= 3, StrobeWindow, [Next]_vars PROVE StrobeWindow'
<1> USE Widths DEF StrobeWindow
<1>1. CASE BeginLoad
  BY <1>1 DEF BeginLoad, fsmVars, strobeVars
<1>2. CASE SendWord
  <2>1. gap >= 3 /\ gap' = 1 /\ StrobeAndLatch
    BY <1>2 DEF SendWord, Ready, ClockWith
  <2>2. ~FrameStrobe /\ ~oldFrameStrobe
    BY <2>1
  <2> QED
    BY <2>1, <2>2, StrobeClock
<1>3. CASE LoseWord
  <2>1. gap >= 3 /\ gap' = 1 /\ StrobeAndLatch
    BY <1>3 DEF LoseWord, Ready, ClockWithout
  <2>2. ~FrameStrobe /\ ~oldFrameStrobe
    BY <2>1
  <2> QED
    BY <2>1, <2>2, StrobeClock
<1>4. CASE Wait
  <2>1. StrobeAndLatch /\ FrameStrobe' = FALSE
    BY <1>4 DEF Wait, ClockWithout
  <2>2. gap' = IF gap < MinGap THEN gap + 1 ELSE gap
    BY <1>4 DEF Wait
  <2> QED
    BY <2>1, <2>2, StrobeClock
<1>5. CASE EndLoad
  BY <1>5 DEF EndLoad, fsmVars, strobeVars
<1>6. CASE Reset
  BY <1>6 DEF Reset, loadVars
<1>7. CASE UNCHANGED vars
  BY <1>7 DEF vars, fsmVars, strobeVars, loadVars
<1> QED
  BY <1>1, <1>2, <1>3, <1>4, <1>5, <1>6, <1>7 DEF Next

(* Within the window nothing moves under the latches. *)
LEMMA StableStep ==
  ASSUME MinGap >= 3, StrobeWindow, [Next]_vars, LongFrameStrobe, LongFrameStrobe'
  PROVE  UNCHANGED <<FrameAddressRegister, FrameRegister>>
<1> USE PathAssumption DEF StrobeWindow
<1>1. CASE BeginLoad
  BY <1>1 DEF BeginLoad, fsmVars, dataVars
<1>2. CASE SendWord
  <2>1. gap >= 3 /\ StrobeAndLatch
    BY <1>2 DEF SendWord, Ready, ClockWith
  <2> QED
    BY <2>1, Widths, StrobeClock
<1>3. CASE LoseWord
  BY <1>3 DEF LoseWord, ClockWithout
<1>4. CASE Wait
  BY <1>4 DEF Wait, ClockWithout
<1>5. CASE EndLoad
  BY <1>5 DEF EndLoad, fsmVars, dataVars
<1>6. CASE Reset
  BY <1>6 DEF Reset
<1>7. CASE UNCHANGED vars
  BY <1>7 DEF vars, fsmVars, dataVars
<1> QED
  BY <1>1, <1>2, <1>3, <1>4, <1>5, <1>6, <1>7 DEF Next

(* While the latches of a frame are transparent, its address and its rows  *)
(* stay, whatever the FSM does with the words around it.                   *)
THEOREM LatchedFrameIsStable == MinGap >= 3 => (Spec => FrameIsStable)
<1> SUFFICES ASSUME MinGap >= 3 PROVE Spec => FrameIsStable
  OBVIOUS
<1>1. Init => StrobeWindow
  BY WindowInit
<1>2. StrobeWindow /\ [Next]_vars => StrobeWindow'
  BY WindowStep
<1>3. StrobeWindow /\ [Next]_vars =>
        [LongFrameStrobe /\ LongFrameStrobe' =>
           UNCHANGED <<FrameAddressRegister, FrameRegister>>]_vars
  BY StableStep
<1> QED
  BY <1>1, <1>2, <1>3, PTL DEF Spec, FrameIsStable

-----------------------------------------------------------------------------
(* Types                                                                   *)

FsmTypes ==
  /\ state \in {"unsynced", "synced", "frame"}
  /\ FrameShiftState \in 0 .. NumberOfRows
  /\ state = "frame" <=> FrameShiftState > 0
  /\ FrameAddressRegister \in Words
  /\ FrameStrobe \in BOOLEAN

LoadTypes ==
  /\ image \in Images \cup {NoImage}
  /\ sent \in Nat /\ counted \in 0 .. sent /\ gap \in 1 .. MinGap
  /\ faults \in 0 .. MaxFaults /\ applied \in Nat
  /\ clean \in BOOLEAN

FabricTypes ==
  /\ oldFrameStrobe \in BOOLEAN /\ LongFrameStrobe \in BOOLEAN
  /\ FrameRegister \in Frames
  /\ latches \in [Cols -> [FrameIdx -> Frames]]
  /\ before \in [Cols -> [FrameIdx -> Frames]]

LEMMA TypeOKParts == TypeOK <=> FsmTypes /\ LoadTypes /\ FabricTypes
BY DEF TypeOK, FsmTypes, LoadTypes, FabricTypes

(* A position among the frames is that of one word of one frame. *)
LEMMA Division ==
  ASSUME NEW m \in Nat \ {0}, NEW q \in Int, NEW r \in 0 .. m - 1
  PROVE  (q * m + r) \div m = q /\ (q * m + r) % m = r
OBVIOUS

LEMMA Position ==
  ASSUME NEW m \in Nat \ {0}, NEW count \in Nat, NEW n \in 0 .. count * m - 1
  PROVE  n \div m \in 0 .. count - 1 /\ n % m \in 0 .. m - 1
OBVIOUS

LEMMA Inside ==
  ASSUME NEW m \in Nat \ {0}, NEW count \in Nat, NEW k \in 0 .. count - 1, NEW r \in 0 .. m - 1
  PROVE  k * m + r \in 0 .. count * m - 1 /\ (k + 1) * m = k * m + m
OBVIOUS

FramesOfImage(i) ==
  [n \in 1 .. Len(i.frames) * FrameWords |-> WordOfFrames(i, n - 1)]

LEMMA ImageShape ==
  ASSUME NEW i \in Images
  PROVE  /\ i.meta \in Seq(Words) /\ Len(i.meta) \in Nat
         /\ \A n \in 1 .. Len(i.meta) : i.meta[n] \in Words \ {SyncWord}
         /\ Len(i.frames) \in Nat
         /\ \A k \in 1 .. Len(i.frames) :
              /\ i.frames[k].header \in Words \ DesyncFlag
              /\ i.frames[k].data \in [1 .. NumberOfRows -> Words]
<1>1. i.meta \in Seq(Words \ {SyncWord})
  BY BitstreamAssumption
<1>2. i.frames \in Seq([header : Words \ DesyncFlag, data : [1 .. NumberOfRows -> Words]])
  BY BitstreamAssumption
<1>3. i.meta \in Seq(Words)
  BY <1>1, SeqMonotonic
<1>4. \A n \in 1 .. Len(i.meta) : i.meta[n] \in Words \ {SyncWord}
  BY <1>1, ElementOfSeq
<1>5. \A k \in 1 .. Len(i.frames) :
        i.frames[k] \in [header : Words \ DesyncFlag, data : [1 .. NumberOfRows -> Words]]
  BY <1>2, ElementOfSeq
<1> QED
  BY <1>1, <1>2, <1>3, <1>4, <1>5, LenProperties

LEMMA FramesAreWords ==
  ASSUME NEW i \in Images
  PROVE  /\ FramesOfImage(i) \in Seq(Words)
         /\ Len(FramesOfImage(i)) = Len(i.frames) * FrameWords
         /\ Len(i.frames) * FrameWords \in Nat
<1>1. FrameWords \in Nat \ {0}
  BY Widths DEF FrameWords
<1>2. Len(i.frames) * FrameWords \in Nat
  BY <1>1, ImageShape
<1>3. ASSUME NEW n \in 1 .. Len(i.frames) * FrameWords
      PROVE  WordOfFrames(i, n - 1) \in Words
  <2>1. n - 1 \in 0 .. Len(i.frames) * FrameWords - 1
    BY <1>2
  <2>2. /\ (n - 1) \div FrameWords \in 0 .. Len(i.frames) - 1
        /\ (n - 1) % FrameWords \in 0 .. FrameWords - 1
    BY <1>1, <2>1, ImageShape, Position
  <2>3. (n - 1) \div FrameWords + 1 \in 1 .. Len(i.frames)
    BY <2>2, ImageShape
  <2>4. (n - 1) % FrameWords # 0 => (n - 1) % FrameWords \in 1 .. NumberOfRows
    BY <2>2, Widths DEF FrameWords
  <2> QED
    BY <2>3, <2>4, ImageShape DEF WordOfFrames
<1>4. FramesOfImage(i) \in [1 .. Len(i.frames) * FrameWords -> Words]
  BY <1>3 DEF FramesOfImage
<1>5. FramesOfImage(i) \in Seq(Words)
  BY <1>2, <1>4, SeqDef
<1>6. Len(FramesOfImage(i)) = Len(i.frames) * FrameWords
  BY <1>2, <1>4, <1>5, LenProperties
<1> QED
  BY <1>2, <1>5, <1>6

(* Where the words of a bitstream are. *)
LEMMA WordsInPlace ==
  ASSUME NEW i \in Images
  PROVE  LET m == Len(i.meta)
             f == Len(i.frames) * FrameWords
             w == ImageWords(i)
         IN /\ w \in Seq(Words) /\ Len(w) = m + f + 2
            /\ \A n \in 1 .. m : w[n] = i.meta[n]
            /\ w[m + 1] = SyncWord
            /\ \A n \in 1 .. f : w[m + 1 + n] = FramesOfImage(i)[n]
            /\ w[m + f + 2] = DesyncWord
<1> DEFINE m == Len(i.meta)
           f == Len(i.frames) * FrameWords
           a == i.meta \o <<SyncWord>>
           b == a \o FramesOfImage(i)
<1>1. SyncWord \in Words /\ DesyncWord \in Words
  BY PathAssumption
<1>2. /\ <<SyncWord>> \in Seq(Words) /\ Len(<<SyncWord>>) = 1 /\ <<SyncWord>>[1] = SyncWord
      /\ <<DesyncWord>> \in Seq(Words) /\ Len(<<DesyncWord>>) = 1
      /\ <<DesyncWord>>[1] = DesyncWord
  BY <1>1
<1>3. m \in Nat /\ i.meta \in Seq(Words) /\ f \in Nat
  BY ImageShape, FramesAreWords
<1>4. /\ a \in Seq(Words) /\ Len(a) = m + 1
      /\ \A n \in 1 .. m + 1 : a[n] = IF n <= m THEN i.meta[n] ELSE <<SyncWord>>[n - m]
  BY <1>2, <1>3, ConcatProperties
<1>5. /\ b \in Seq(Words) /\ Len(b) = m + 1 + f
      /\ \A n \in 1 .. m + 1 + f :
           b[n] = IF n <= m + 1 THEN a[n] ELSE FramesOfImage(i)[n - (m + 1)]
  <2>1. FramesOfImage(i) \in Seq(Words) /\ Len(FramesOfImage(i)) = f
    BY FramesAreWords
  <2>2. a \in Seq(Words) /\ Len(a) = m + 1
    BY <1>4
  <2> HIDE DEF a, f, m
  <2>3. /\ b \in Seq(Words) /\ Len(b) = Len(a) + Len(FramesOfImage(i))
        /\ \A n \in 1 .. Len(a) + Len(FramesOfImage(i)) :
             b[n] = IF n <= Len(a) THEN a[n] ELSE FramesOfImage(i)[n - Len(a)]
    BY <2>1, <2>2, ConcatProperties
  <2> QED
    BY <2>1, <2>2, <2>3
<1>6. ImageWords(i) = b \o <<DesyncWord>>
  BY DEF ImageWords, FramesOfImage
<1>7. /\ ImageWords(i) \in Seq(Words) /\ Len(ImageWords(i)) = m + 1 + f + 1
      /\ \A n \in 1 .. m + 1 + f + 1 :
           ImageWords(i)[n] = IF n <= m + 1 + f THEN b[n] ELSE <<DesyncWord>>[n - (m + 1 + f)]
  BY <1>2, <1>5, <1>6, ConcatProperties
<1> HIDE DEF m, f, a, b
<1>8. \A n \in 1 .. m : ImageWords(i)[n] = i.meta[n]
  BY <1>3, <1>4, <1>5, <1>7
<1>9. ImageWords(i)[m + 1] = SyncWord
  <2>1. m + 1 \in 1 .. m + 1 /\ m + 1 \in 1 .. m + 1 + f /\ m + 1 \in 1 .. m + 1 + f + 1
    BY <1>3
  <2>2. (m + 1) - m = 1 /\ ~(m + 1 <= m)
    BY <1>3
  <2>3. a[m + 1] = SyncWord
    BY <1>2, <1>4, <2>1, <2>2
  <2>4. b[m + 1] = a[m + 1]
    BY <1>3, <1>5, <2>1
  <2>5. ImageWords(i)[m + 1] = b[m + 1] 
    BY <1>3, <1>7, <2>1
  <2> QED
    BY <2>3, <2>4, <2>5
<1>10. \A n \in 1 .. f : ImageWords(i)[m + 1 + n] = FramesOfImage(i)[n]
  <2> SUFFICES ASSUME NEW n \in 1 .. f PROVE ImageWords(i)[m + 1 + n] = FramesOfImage(i)[n]
    OBVIOUS
  <2>1. /\ m + 1 + n \in 1 .. m + 1 + f /\ m + 1 + n \in 1 .. m + 1 + f + 1
        /\ ~(m + 1 + n <= m + 1) /\ (m + 1 + n) - (m + 1) = n /\ m + 1 + n <= m + 1 + f
    BY <1>3
  <2> QED
    BY <1>5, <1>7, <2>1
<1>11. ImageWords(i)[m + f + 2] = DesyncWord
  <2>1. /\ m + f + 2 \in 1 .. m + 1 + f + 1 /\ ~(m + f + 2 <= m + 1 + f)
        /\ (m + f + 2) - (m + 1 + f) = 1
    BY <1>3
  <2> QED
    BY <1>2, <1>7, <2>1
<1>12. m + 1 + f + 1 = m + f + 2
  BY <1>3
<1> QED
  BY <1>7, <1>8, <1>9, <1>10, <1>11, <1>12 DEF m, f

(* Word r of frame k + 1, the header being word 0. *)
LEMMA FrameWordInPlace ==
  ASSUME NEW i \in Images, NEW k \in 0 .. Len(i.frames) - 1, NEW r \in 0 .. NumberOfRows
  PROVE  ImageWords(i)[Len(i.meta) + 1 + k * FrameWords + r + 1] =
           IF r = 0 THEN i.frames[k + 1].header ELSE i.frames[k + 1].data[r]
<1>1. FrameWords \in Nat \ {0} /\ r \in 0 .. FrameWords - 1
  BY Widths DEF FrameWords
<1>2. /\ Len(i.frames) \in Nat /\ Len(i.meta) \in Nat /\ k \in Int
      /\ Len(i.frames) * FrameWords \in Nat
  BY ImageShape, FramesAreWords
<1>3. PICK n \in 0 .. Len(i.frames) * FrameWords - 1 : n = k * FrameWords + r
  BY <1>1, <1>2, Inside
<1>4. n + 1 \in 1 .. Len(i.frames) * FrameWords /\ n + 1 - 1 = n
  BY <1>2
<1>5. n \div FrameWords = k /\ n % FrameWords = r
  BY <1>1, <1>2, <1>3, Division
<1>6. FramesOfImage(i)[n + 1] =
        IF r = 0 THEN i.frames[k + 1].header ELSE i.frames[k + 1].data[r]
  BY <1>4, <1>5 DEF FramesOfImage, WordOfFrames
<1>7. ImageWords(i)[Len(i.meta) + 1 + (n + 1)] = FramesOfImage(i)[n + 1]
  BY <1>4, WordsInPlace
<1>8. k * FrameWords \in Int
  BY <1>1, <1>2
<1>9. Len(i.meta) + 1 + k * FrameWords + r + 1 = Len(i.meta) + 1 + (n + 1)
  BY <1>2, <1>3, <1>8
<1> QED
  BY <1>6, <1>7, <1>9

(* The word written next is a word. *)
LEMMA NextWord ==
  ASSUME LoadTypes, MoreWords PROVE ImageWords(image)[sent + 1] \in Words
<1>1. image \in Images /\ sent \in Nat
  BY DEF LoadTypes, MoreWords
<1>2. ImageWords(image) \in Seq(Words)
  BY <1>1, WordsInPlace
<1> QED
  BY <1>1, <1>2 DEF MoreWords

(* A frame over a memory is a memory. *)
LEMMA OverlayType ==
  ASSUME NEW m \in [Cols -> [FrameIdx -> Frames]], NEW rows \in Frames, NEW header
  PROVE  Memory!Overlay(m, header, rows) \in [Cols -> [FrameIdx -> Frames]]
BY DEF Memory!Overlay

(* A clock with a word, or without, keeps the types of the fabric. *)
LEMMA StrobeAndLatchTypes ==
  ASSUME FsmTypes, FabricTypes, FrameRegister' \in Frames, StrobeAndLatch,
         applied \in Nat
  PROVE  /\ oldFrameStrobe' \in BOOLEAN /\ LongFrameStrobe' \in BOOLEAN
         /\ latches' \in [Cols -> [FrameIdx -> Frames]]
         /\ applied' \in Nat
<1>1. oldFrameStrobe' \in BOOLEAN /\ LongFrameStrobe' \in BOOLEAN
  BY DEF StrobeAndLatch, FsmTypes
<1>2. latches' \in [Cols -> [FrameIdx -> Frames]]
  BY OverlayType DEF StrobeAndLatch, FabricTypes
<1>3. applied' \in Nat
  BY DEF StrobeAndLatch
<1> QED
  BY <1>1, <1>2, <1>3

LEMMA ClockWithTypes ==
  ASSUME FsmTypes, FabricTypes, applied \in Nat, NEW word \in Words, ClockWith(word),
         before' = before
  PROVE  FsmTypes' /\ FabricTypes' /\ applied' \in Nat
<1>1. FsmTypes'
  <2> USE Widths DEF FsmTypes
  <2>1. CASE Unsynced(word)
    BY <2>1 DEF Unsynced
  <2>2. CASE Desync(word)
    BY <2>2 DEF Desync
  <2>3. CASE Header(word)
    <3>1. FrameShiftState' \in 0 .. NumberOfRows
      BY <2>3 DEF Header
    <3>2. state' = "frame" /\ FrameShiftState' > 0
      BY <2>3 DEF Header
    <3>3. FrameAddressRegister' \in Words /\ FrameStrobe' \in BOOLEAN
      BY <2>3 DEF Header
    <3> QED
      BY <3>1, <3>2, <3>3
  <2>4. CASE FrameWord(word)
    <3>1. (FrameShiftState - 1) % 32 = FrameShiftState - 1
      BY <2>4 DEF FrameWord
    <3>2. FrameStrobe' \in BOOLEAN
      BY <2>4 DEF FrameWord
    <3> QED
      BY <2>4, <3>1, <3>2 DEF FrameWord
  <2> QED
    BY <2>1, <2>2, <2>3, <2>4 DEF ClockWith
<1>2. FrameRegister' \in Frames
  BY DEF ClockWith, StoreRow, FabricTypes, Frames
<1>3. StrobeAndLatch
  BY DEF ClockWith
<1> QED
  BY <1>1, <1>2, <1>3, StrobeAndLatchTypes DEF FabricTypes

LEMMA ClockWithoutTypes ==
  ASSUME FsmTypes, FabricTypes, applied \in Nat, ClockWithout, before' = before
  PROVE  FsmTypes' /\ FabricTypes' /\ applied' \in Nat
<1>1. FsmTypes'
  BY DEF ClockWithout, FsmTypes
<1>2. FrameRegister' \in Frames /\ StrobeAndLatch
  BY DEF ClockWithout, FabricTypes
<1> QED
  BY <1>1, <1>2, StrobeAndLatchTypes DEF FabricTypes

(* The types hold initially. *)
LEMMA TypesInit == Init => TypeOK
<1> SUFFICES ASSUME Init PROVE TypeOK
  OBVIOUS
<1> USE Widths DEF Init
<1>1. FsmTypes
  <2>1. FrameShiftState \in 0 .. NumberOfRows /\ ~(FrameShiftState > 0)
    OBVIOUS
  <2>2. state = "unsynced" /\ FrameAddressRegister \in Words
    OBVIOUS
  <2> QED
    BY <2>1, <2>2 DEF FsmTypes
<1>2. LoadTypes
  BY DEF LoadTypes
<1>3. FabricTypes
  BY DEF FabricTypes, Frames
<1> QED
  BY <1>1, <1>2, <1>3, TypeOKParts

(* Every step keeps the types. *)
LEMMA TypesStep == TypeOK /\ [Next]_vars => TypeOK'
<1> SUFFICES ASSUME FsmTypes, LoadTypes, FabricTypes, [Next]_vars
             PROVE  FsmTypes' /\ LoadTypes' /\ FabricTypes'
  BY TypeOKParts DEF TypeOK, FsmTypes, LoadTypes, FabricTypes
<1> USE Widths
<1>1. CASE BeginLoad
  BY <1>1 DEF BeginLoad, fsmVars, strobeVars, dataVars, FsmTypes, LoadTypes, FabricTypes
<1>2. CASE SendWord
  <2>1. ImageWords(image)[sent + 1] \in Words
    BY <1>2, NextWord DEF SendWord
  <2>2. applied \in Nat /\ before' = before
    BY <1>2 DEF SendWord, LoadTypes
  <2>3. FsmTypes' /\ FabricTypes' /\ applied' \in Nat
    BY <1>2, <2>1, <2>2, ClockWithTypes DEF SendWord
  <2> QED
    BY <1>2, <2>3 DEF SendWord, LoadTypes
<1>3. CASE LoseWord
  <2>1. FsmTypes' /\ FabricTypes' /\ applied' \in Nat
    BY <1>3, ClockWithoutTypes DEF LoseWord, LoadTypes
  <2> QED
    BY <1>3, <2>1 DEF LoseWord, LoadTypes
<1>4. CASE Wait
  <2>1. FsmTypes' /\ FabricTypes' /\ applied' \in Nat
    BY <1>4, ClockWithoutTypes DEF Wait, LoadTypes
  <2> QED
    BY <1>4, <2>1 DEF Wait, LoadTypes
<1>5. CASE EndLoad
  BY <1>5 DEF EndLoad, fsmVars, strobeVars, dataVars, FsmTypes, LoadTypes, FabricTypes
<1>6. CASE Reset
  <2>1. FrameShiftState' \in 0 .. NumberOfRows /\ ~(FrameShiftState' > 0)
    BY <1>6 DEF Reset
  <2>2. FsmTypes'
    BY <1>6, <2>1 DEF Reset, FsmTypes
  <2>3. LoadTypes'
    BY <1>6 DEF Reset, loadVars, LoadTypes
  <2>4. FabricTypes'
    BY <1>6 DEF Reset, dataVars, FabricTypes
  <2> QED
    BY <2>2, <2>3, <2>4
<1>7. CASE UNCHANGED vars
  BY <1>7 DEF vars, fsmVars, strobeVars, dataVars, loadVars, histVars, FsmTypes,
              LoadTypes, FabricTypes
<1> QED
  BY <1>1, <1>2, <1>3, <1>4, <1>5, <1>6, <1>7 DEF Next

(* The row counter never leaves 0..NumberOfRows, it counts exactly in the  *)
(* frame state, and everything else has its type.                          *)
THEOREM ConfigPathTypes == Spec => []TypeOK
<1>1. Init => TypeOK
  BY TypesInit
<1>2. TypeOK /\ [Next]_vars => TypeOK'
  BY TypesStep
<1> QED
  BY <1>1, <1>2, PTL DEF Spec
-----------------------------------------------------------------------------
(* The memory after the first frames of a bitstream                        *)

Writers(i, n, c, f) == {k \in 1 .. n : Memory!Addressed(i.frames[k].header, c, f)}

LEMMA LastOfNext ==
  ASSUME NEW n \in Nat, NEW W, W \subseteq 1 .. n, n \in W
  PROVE  Memory!Max(W) = n
<1>1. \A y \in W : n >= y
  OBVIOUS
<1>2. \A x \in W : (\A y \in W : x >= y) => x = n
  <2> SUFFICES ASSUME NEW x \in W, \A y \in W : x >= y PROVE x = n
    OBVIOUS
  <2>1. x >= n /\ x <= n /\ x \in Int
    OBVIOUS
  <2> QED
    BY <2>1
<1> QED
  BY <1>1, <1>2 DEF Memory!Max

LEMMA FrameAt ==
  ASSUME NEW m, NEW i, NEW n, NEW c \in Cols, NEW f \in FrameIdx
  PROVE  Memory!WithFrames(m, i, n)[c][f] =
           IF Writers(i, n, c, f) = {} THEN m[c][f]
           ELSE Memory!FrameRows(i.frames[Memory!Max(Writers(i, n, c, f))].data)
BY DEF Memory!WithFrames, Writers

LEMMA WithNone ==
  ASSUME NEW m \in [Cols -> [FrameIdx -> Frames]], NEW i
  PROVE  Memory!WithFrames(m, i, 0) = m
<1>1. \A c \in Cols : \A f \in FrameIdx : Writers(i, 0, c, f) = {}
  BY DEF Writers
<1>2. \A c \in Cols : \A f \in FrameIdx : Memory!WithFrames(m, i, 0)[c][f] = m[c][f]
  BY <1>1, FrameAt
<1> QED
  BY <1>2 DEF Memory!WithFrames

(* Overlaying frame n + 1 gives the memory after n + 1 frames. *)
LEMMA WithNext ==
  ASSUME NEW m, NEW i, NEW n \in Nat
  PROVE  Memory!WithFrame(Memory!WithFrames(m, i, n), i.frames[n + 1]) =
           Memory!WithFrames(m, i, n + 1)
<1> DEFINE old == Memory!WithFrames(m, i, n)
           frame == i.frames[n + 1]
           new == Memory!WithFrames(m, i, n + 1)
<1>1. ASSUME NEW c \in Cols, NEW f \in FrameIdx
      PROVE  Memory!WithFrame(old, frame)[c][f] = new[c][f]
  <2>1. CASE Memory!Addressed(frame.header, c, f)
    <3>1. n + 1 \in Writers(i, n + 1, c, f) /\ Writers(i, n + 1, c, f) \subseteq 1 .. n + 1
      BY <2>1 DEF Writers
    <3>2. Memory!Max(Writers(i, n + 1, c, f)) = n + 1
      BY <3>1, LastOfNext
    <3>3. new[c][f] = Memory!FrameRows(frame.data)
      BY <3>1, <3>2, FrameAt
    <3> QED
      BY <2>1, <3>3 DEF Memory!WithFrame, Memory!Overlay
  <2>2. CASE ~Memory!Addressed(frame.header, c, f)
    <3>1. Writers(i, n + 1, c, f) = Writers(i, n, c, f)
      BY <2>2 DEF Writers
    <3>2. new[c][f] = old[c][f]
      BY <3>1, FrameAt
    <3> QED
      BY <2>2, <3>2 DEF Memory!WithFrame, Memory!Overlay
  <2> QED
    BY <2>1, <2>2
<1>2. /\ Memory!WithFrame(old, frame) =
           [c \in Cols |-> [f \in FrameIdx |-> Memory!WithFrame(old, frame)[c][f]]]
      /\ new = [c \in Cols |-> [f \in FrameIdx |-> new[c][f]]]
  BY DEF Memory!WithFrame, Memory!Overlay, Memory!WithFrames
<1> HIDE DEF old, frame, new
<1>3. Memory!WithFrame(old, frame) = new
  BY <1>1, <1>2
<1> QED
  BY <1>3 DEF old, frame, new

(* Overlaying it a second time, in the second clock of the strobe, changes *)
(* nothing.                                                                *)
LEMMA WithAgain ==
  ASSUME NEW m, NEW i, NEW n \in Nat \ {0}
  PROVE  Memory!WithFrame(Memory!WithFrames(m, i, n), i.frames[n]) =
           Memory!WithFrames(m, i, n)
<1> DEFINE old == Memory!WithFrames(m, i, n)
           frame == i.frames[n]
<1>1. ASSUME NEW c \in Cols, NEW f \in FrameIdx
      PROVE  Memory!WithFrame(old, frame)[c][f] = old[c][f]
  <2>1. CASE Memory!Addressed(frame.header, c, f)
    <3>1. n \in Writers(i, n, c, f) /\ Writers(i, n, c, f) \subseteq 1 .. n
      BY <2>1 DEF Writers
    <3>2. Memory!Max(Writers(i, n, c, f)) = n
      BY <3>1, LastOfNext
    <3>3. old[c][f] = Memory!FrameRows(frame.data)
      BY <3>1, <3>2, FrameAt
    <3> QED
      BY <2>1, <3>3 DEF Memory!WithFrame, Memory!Overlay
  <2>2. CASE ~Memory!Addressed(frame.header, c, f)
    BY <2>2 DEF Memory!WithFrame, Memory!Overlay
  <2> QED
    BY <2>1, <2>2
<1>2. /\ Memory!WithFrame(old, frame) =
           [c \in Cols |-> [f \in FrameIdx |-> Memory!WithFrame(old, frame)[c][f]]]
      /\ old = [c \in Cols |-> [f \in FrameIdx |-> old[c][f]]]
  BY DEF Memory!WithFrame, Memory!Overlay, Memory!WithFrames
<1> HIDE DEF old, frame
<1>3. Memory!WithFrame(old, frame) = old
  BY <1>1, <1>2
<1> QED
  BY <1>3 DEF old, frame

-----------------------------------------------------------------------------
(***************************************************************************)
(* What a clean load has done after the words sent so far.                 *)
(***************************************************************************)

(* Between loads nothing is on its way to the latches.                     *)
Idle ==
  image = NoImage =>
    /\ sent = 0 /\ counted = 0 /\ applied = 0
    /\ ~FrameStrobe /\ ~oldFrameStrobe

(* The strobe of the last frame is over, or about to begin: then the frame *)
(* counts as applied only when it has begun.                               *)
Strobed == oldFrameStrobe => LongFrameStrobe

Quiet == ~FrameStrobe /\ ~LongFrameStrobe

Untouched ==
  /\ sent <= Len(image.meta)
  /\ state = "unsynced" /\ applied = 0 /\ Quiet

(* k frames and r words of the next one are sent.                          *)
Within(k, r) ==
  /\ k = Len(image.frames) => r = 0
  /\ sent = Len(image.meta) + 1 + k * FrameWords + r
  /\ state = (IF r = 0 THEN "synced" ELSE "frame")
  /\ r > 0 => FrameShiftState = FrameWords - r
  /\ applied = (IF FrameStrobe THEN k - 1 ELSE k)
  /\ ~Quiet => r = 0 /\ k > 0

(* The address and the rows of the frame that was, or is being, sent.      *)
Registered(k, r) ==
  /\ r = 0 /\ k > 0 =>
       /\ FrameAddressRegister = image.frames[k].header
       /\ FrameRegister = Memory!FrameRows(image.frames[k].data)
  /\ r > 0 =>
       /\ FrameAddressRegister = image.frames[k + 1].header
       /\ \A j \in 1 .. r - 1 :
            FrameRegister[FrameWords - j] = image.frames[k + 1].data[j]

InFrames ==
  \E k \in 0 .. Len(image.frames), r \in 0 .. NumberOfRows :
    Within(k, r) /\ Registered(k, r)

Complete ==
  /\ sent = Len(ImageWords(image))
  /\ state = "unsynced" /\ applied = Len(image.frames) /\ Quiet

Intact == clean /\ counted = sent

(* As long as nothing was lost, the FSM is where the words sent put it, and *)
(* the latches hold the frames strobed so far over what was there before.  *)
Followed ==
  Intact /\ image # NoImage =>
    /\ Untouched \/ InFrames \/ Complete
    /\ latches = Memory!WithFrames(before, image, applied)

Unsynchronised == clean /\ image = NoImage => state = "unsynced" /\ Quiet

PathInv == Idle /\ Strobed /\ Followed /\ Unsynchronised
LEMMA PathInit == Init => PathInv
<1> SUFFICES ASSUME Init PROVE PathInv
  OBVIOUS
<1> USE DEF Init
<1>1. Idle /\ Strobed
  BY DEF Idle, Strobed
<1>2. Followed /\ Unsynchronised
  BY DEF Followed, Unsynchronised, Quiet
<1> QED
  BY <1>1, <1>2 DEF PathInv

(* When the next word may come, the strobe of the last frame is over.      *)
LEMMA ReadyIsQuiet ==
  ASSUME MinGap >= 3, StrobeWindow, Ready
  PROVE  ~FrameStrobe /\ ~oldFrameStrobe
BY Widths DEF StrobeWindow, Ready

LEMMA NoStrobe ==
  ASSUME ~FrameStrobe, ~oldFrameStrobe, StrobeAndLatch
  PROVE  /\ ~oldFrameStrobe' /\ ~LongFrameStrobe'
         /\ latches' = latches /\ applied' = applied
BY DEF StrobeAndLatch

LEMMA IdleStep ==
  ASSUME MinGap >= 3, StrobeWindow, Idle, Strobed, [Next]_vars PROVE Idle' /\ Strobed'
<1> USE DEF Idle, Strobed
<1>1. CASE BeginLoad
  <2>1. image' # NoImage
    BY <1>1, PathAssumption DEF BeginLoad
  <2> QED
    BY <1>1, <2>1 DEF BeginLoad, strobeVars
<1>2. CASE SendWord
  <2>1. StrobeAndLatch /\ image # NoImage /\ image' = image
    BY <1>2 DEF SendWord, ClockWith, MoreWords
  <2> QED
    BY <2>1 DEF StrobeAndLatch
<1>3. CASE LoseWord
  <2>1. StrobeAndLatch /\ image # NoImage /\ image' = image
    BY <1>3 DEF LoseWord, ClockWithout, MoreWords
  <2> QED
    BY <2>1 DEF StrobeAndLatch
<1>4. CASE Wait
  <2>1. /\ StrobeAndLatch /\ FrameStrobe' = FALSE
        /\ UNCHANGED <<image, sent, counted>>
    BY <1>4 DEF Wait, ClockWithout
  <2>2. Strobed'
    BY <2>1 DEF StrobeAndLatch
  <2>3. image = NoImage => ~oldFrameStrobe' /\ applied' = applied
    BY <2>1, NoStrobe
  <2> QED
    BY <2>1, <2>2, <2>3
<1>5. CASE EndLoad
  <2>1. ~FrameStrobe /\ ~oldFrameStrobe
    BY <1>5, ReadyIsQuiet DEF EndLoad, AllSent
  <2> QED
    BY <1>5, <2>1 DEF EndLoad, fsmVars, strobeVars
<1>6. CASE Reset
  BY <1>6 DEF Reset, loadVars
<1>7. CASE UNCHANGED vars
  BY <1>7 DEF vars, fsmVars, strobeVars, loadVars, histVars
<1> QED
  BY <1>1, <1>2, <1>3, <1>4, <1>5, <1>6, <1>7 DEF Next

(* One word of a clean load moves the position by one. *)
LEMMA FollowedBegin ==
  ASSUME TypeOK, PathInv, BeginLoad PROVE Followed'
<1> SUFFICES ASSUME Intact' PROVE Untouched' /\ latches' = Memory!WithFrames(before, image, applied)'
  BY DEF Followed
<1>1. /\ clean /\ image = NoImage /\ image' \in Images
      /\ sent' = 0 /\ applied' = 0 /\ before' = latches /\ latches' = latches
      /\ UNCHANGED <<state, FrameStrobe, LongFrameStrobe>>
  BY DEF BeginLoad, Intact, fsmVars, strobeVars, dataVars
<1>2. state' = "unsynced" /\ Quiet'
  BY <1>1 DEF PathInv, Unsynchronised, Quiet
<1>3. Len(image.meta)' \in Nat
  BY <1>1, ImageShape
<1>4. Untouched'
  BY <1>1, <1>2, <1>3 DEF Untouched
<1>5. latches \in [Cols -> [FrameIdx -> Frames]]
  BY DEF TypeOK
<1>6. Memory!WithFrames(latches, image', 0) = latches
  BY <1>5, WithNone
<1>7. Memory!WithFrames(before, image, applied)' = Memory!WithFrames(latches, image', 0)
  BY <1>1
<1> QED
  BY <1>1, <1>4, <1>6, <1>7

(* Waiting, the position stays and the strobe goes on. *)
LEMMA FollowedWait ==
  ASSUME TypeOK, StrobeWindow, PathInv, Wait PROVE Followed'
<1> SUFFICES ASSUME Intact', image' # NoImage
             PROVE  /\ (Untouched \/ InFrames \/ Complete)'
                    /\ latches' = Memory!WithFrames(before, image, applied)'
  BY DEF Followed
<1>1. /\ FrameStrobe' = FALSE /\ StrobeAndLatch
      /\ UNCHANGED <<state, FrameShiftState, FrameAddressRegister, FrameRegister,
                     image, sent, counted, before, clean>>
  BY DEF Wait, ClockWithout
<1>2. Intact /\ image # NoImage
  BY <1>1 DEF Intact
<1>3. /\ Untouched \/ InFrames \/ Complete
      /\ latches = Memory!WithFrames(before, image, applied)
  BY <1>2 DEF PathInv, Followed
<1>4. CASE Untouched \/ Complete
  <2>1. ~FrameStrobe /\ ~oldFrameStrobe
    BY <1>4 DEF Untouched, Complete, Quiet, PathInv, Strobed
  <2>2. ~LongFrameStrobe' /\ latches' = latches /\ applied' = applied
    BY <1>1, <2>1, NoStrobe
  <2>3. (Untouched \/ Complete)'
    BY <1>1, <1>4, <2>2 DEF Untouched, Complete, Quiet
  <2> QED
    BY <1>1, <1>3, <2>2, <2>3
<1>5. CASE InFrames
  <2>1. PICK k \in 0 .. Len(image.frames), r \in 0 .. NumberOfRows :
               Within(k, r) /\ Registered(k, r)
    BY <1>5 DEF InFrames
  <2>2. Len(image.frames) \in Nat /\ k \in Nat
    BY <1>2, ImageShape DEF TypeOK
  <2>3. Registered(k, r)'
    BY <1>1, <2>1 DEF Registered
  <2>4. applied' = k /\ (LongFrameStrobe' => r = 0 /\ k > 0) => Within(k, r)'
    BY <1>1, <2>1 DEF Within, Quiet
  <2>5. SUFFICES /\ applied' = k /\ (LongFrameStrobe' => r = 0 /\ k > 0)
                 /\ latches' = Memory!WithFrames(before, image, k)
    <3>1. InFrames'
      BY <1>1, <2>3, <2>4, <2>5 DEF InFrames
    <3> QED
      BY <1>1, <2>5, <3>1
  <2>6. CASE ~FrameStrobe /\ ~oldFrameStrobe
    BY <1>1, <1>3, <2>1, <2>6, NoStrobe DEF Within
  <2>7. CASE FrameStrobe \/ oldFrameStrobe
    <3>1. r = 0 /\ k > 0
      BY <2>1, <2>7 DEF Within, Quiet, PathInv, Strobed
    <3>2. /\ FrameAddressRegister = image.frames[k].header
          /\ FrameRegister = Memory!FrameRows(image.frames[k].data)
      BY <2>1, <3>1 DEF Registered
    <3>3. LongFrameStrobe'
      BY <1>1, <2>7 DEF StrobeAndLatch
    <3>4. latches' = Memory!WithFrame(latches, image.frames[k])
      BY <1>1, <3>2, <3>3 DEF StrobeAndLatch, Memory!WithFrame
    <3>5. CASE FrameStrobe
      <4>1. ~LongFrameStrobe
        BY <3>5 DEF StrobeWindow
      <4>2. applied = k - 1
        BY <2>1, <3>5 DEF Within
      <4>3. applied' = k
        BY <1>1, <2>2, <3>3, <4>1, <4>2 DEF StrobeAndLatch
      <4>4. latches = Memory!WithFrames(before, image, k - 1)
        BY <1>3, <4>2
      <4>5. k - 1 \in Nat /\ (k - 1) + 1 = k
        BY <2>2, <3>1
      <4>6. latches' = Memory!WithFrames(before, image, k)
        BY <3>4, <4>4, <4>5, WithNext
      <4> QED
        BY <3>1, <4>3, <4>6
    <3>6. CASE ~FrameStrobe
      <4>1. oldFrameStrobe /\ LongFrameStrobe
        BY <2>7, <3>6 DEF PathInv, Strobed
      <4>2. applied = k
        BY <2>1, <3>6 DEF Within
      <4>3. applied' = k
        BY <1>1, <3>3, <4>1, <4>2 DEF StrobeAndLatch
      <4>4. k \in Nat \ {0}
        BY <2>2, <3>1
      <4>5. latches' = Memory!WithFrames(before, image, k)
        BY <1>3, <3>4, <4>2, <4>4, WithAgain
      <4> QED
        BY <3>1, <4>3, <4>5
    <3> QED
      BY <3>5, <3>6
  <2> QED
    BY <2>6, <2>7
<1> QED
  BY <1>3, <1>4, <1>5

(* The next word, at each position. *)
LEMMA SendUntouched ==
  ASSUME TypeOK, MoreWords, Untouched, ~FrameStrobe, ~oldFrameStrobe,
         ClockWith(ImageWords(image)[sent + 1]), sent' = sent + 1, image' = image
  PROVE  (Untouched \/ InFrames)'
<1> DEFINE word == ImageWords(image)[sent + 1]
<1>1. image \in Images /\ sent \in Nat /\ Len(image.meta) \in Nat /\ Len(image.frames) \in Nat
  BY ImageShape DEF MoreWords, TypeOK
<1>2. state = "unsynced" /\ sent <= Len(image.meta) /\ applied = 0
  BY DEF Untouched
<1>3. /\ ~LongFrameStrobe' /\ applied' = 0
  BY <1>2, NoStrobe DEF ClockWith
<1>4. state' = (IF word = SyncWord THEN "synced" ELSE "unsynced") /\ FrameStrobe' = FALSE
  BY <1>2 DEF ClockWith, Unsynced, Desync, Header, FrameWord
<1>5. CASE sent < Len(image.meta)
  <2>1. sent + 1 \in 1 .. Len(image.meta)
    BY <1>1, <1>5
  <2>2. word = image.meta[sent + 1] /\ word # SyncWord
    BY <1>1, <2>1, ImageShape, WordsInPlace
  <2>3. sent' <= Len(image'.meta)
    BY <1>1, <1>5
  <2>4. Untouched'
    BY <1>3, <1>4, <2>2, <2>3 DEF Untouched, Quiet
  <2> QED
    BY <2>4
<1>6. CASE sent = Len(image.meta)
  <2>1. word = SyncWord
    BY <1>1, <1>6, WordsInPlace
  <2>2. sent' = Len(image.meta) + 1 + 0 * FrameWords + 0
    <3>1. 0 * FrameWords = 0
      BY Widths DEF FrameWords
    <3> QED
      BY <1>1, <1>6, <3>1
  <2>3. 0 \in 0 .. Len(image.frames) /\ 0 \in 0 .. NumberOfRows
    BY <1>1, Widths
  <2>4. Within(0, 0)'
    BY <1>3, <1>4, <2>1, <2>2 DEF Within, Quiet
  <2>5. Registered(0, 0)'
    BY DEF Registered
  <2>6. InFrames'
    BY <2>3, <2>4, <2>5 DEF InFrames
  <2> QED
    BY <2>6
<1> QED
  BY <1>1, <1>2, <1>5, <1>6

LEMMA SendHeader ==
  ASSUME TypeOK, MoreWords, ~FrameStrobe, ~oldFrameStrobe,
         ClockWith(ImageWords(image)[sent + 1]), sent' = sent + 1, image' = image,
         NEW k \in 0 .. Len(image.frames) - 1, Within(k, 0)
  PROVE  InFrames'
<1> DEFINE word == ImageWords(image)[sent + 1]
<1>1. image \in Images /\ sent \in Nat /\ Len(image.meta) \in Nat /\ Len(image.frames) \in Nat
  BY ImageShape DEF MoreWords, TypeOK
<1>2. state = "synced" /\ applied = k /\ sent = Len(image.meta) + 1 + k * FrameWords + 0
  BY DEF Within
<1>3. 0 \in 0 .. NumberOfRows /\ 1 \in 0 .. NumberOfRows /\ k * FrameWords \in Nat
  BY <1>1, Widths DEF FrameWords
<1>4. word = image.frames[k + 1].header
  <2>1. ImageWords(image)[Len(image.meta) + 1 + k * FrameWords + 0 + 1] =
          image.frames[k + 1].header
    BY <1>1, <1>3, FrameWordInPlace
  <2> QED
    BY <1>2, <2>1
<1>5. word \notin DesyncFlag
  <2>1. k + 1 \in 1 .. Len(image.frames)
    BY <1>1
  <2> QED
    BY <1>1, <1>4, <2>1, ImageShape
<1>6. Header(word)
  BY <1>2, <1>5 DEF ClockWith, Unsynced, Desync, Header, FrameWord
<1>7. ~LongFrameStrobe' /\ applied' = k
  BY <1>2, NoStrobe DEF ClockWith
<1>8. Within(k, 1)'
  <2>1. sent' = Len(image.meta) + 1 + k * FrameWords + 1 /\ FrameWords - 1 = NumberOfRows
    BY <1>1, <1>2, <1>3, Widths DEF FrameWords
  <2>2. k # Len(image.frames)
    BY <1>1
  <2> QED
    BY <1>6, <1>7, <2>1, <2>2 DEF Within, Quiet, Header
<1>9. Registered(k, 1)'
  BY <1>4, <1>6 DEF Registered, Header
<1>10. k \in 0 .. Len(image.frames)
  BY <1>1
<1> QED
  BY <1>3, <1>8, <1>9, <1>10 DEF InFrames

LEMMA SendRow ==
  ASSUME TypeOK, MoreWords, ~FrameStrobe, ~oldFrameStrobe,
         ClockWith(ImageWords(image)[sent + 1]), sent' = sent + 1, image' = image,
         NEW k \in 0 .. Len(image.frames) - 1, NEW r \in 1 .. NumberOfRows,
         Within(k, r), Registered(k, r)
  PROVE  InFrames'
<1> DEFINE word == ImageWords(image)[sent + 1]
           frame == image.frames[k + 1]
<1>1. image \in Images /\ sent \in Nat /\ Len(image.meta) \in Nat /\ Len(image.frames) \in Nat
  BY ImageShape DEF MoreWords, TypeOK
<1>2. /\ state = "frame" /\ applied = k /\ FrameShiftState = FrameWords - r
      /\ sent = Len(image.meta) + 1 + k * FrameWords + r
  BY DEF Within
<1>3. r \in 0 .. NumberOfRows /\ r # 0 /\ k * FrameWords \in Nat /\ k \in Nat
  BY <1>1, Widths DEF FrameWords
<1>4. word = frame.data[r]
  <2>1. ImageWords(image)[Len(image.meta) + 1 + k * FrameWords + r + 1] = frame.data[r]
    BY <1>1, <1>3, FrameWordInPlace
  <2> QED
    BY <1>2, <2>1
<1>5. FrameShiftState \in 1 .. NumberOfRows /\ FrameShiftState < 32
  BY <1>2, Widths DEF FrameWords
<1>6. FrameWord(word)
  BY <1>2 DEF ClockWith, Unsynced, Desync, Header, FrameWord
<1>7. ~LongFrameStrobe' /\ applied' = k
  BY <1>2, NoStrobe DEF ClockWith
<1>8. FrameShiftState' = FrameShiftState - 1
  BY <1>5, <1>6 DEF FrameWord
<1>9. FrameRegister' = [FrameRegister EXCEPT ![FrameWords - r] = word]
  BY <1>2, <1>5 DEF ClockWith, StoreRow
<1>10. FrameRegister \in [1 .. NumberOfRows -> Words]
  BY DEF TypeOK, Frames
<1>11. FrameAddressRegister' = frame.header
  BY <1>3, <1>6 DEF FrameWord, Registered
<1>12. \A j \in 1 .. r : FrameRegister'[FrameWords - j] = frame.data[j]
  <2> SUFFICES ASSUME NEW j \in 1 .. r PROVE FrameRegister'[FrameWords - j] = frame.data[j]
    OBVIOUS
  <2>1. FrameWords - j \in 1 .. NumberOfRows /\ FrameWords - r \in 1 .. NumberOfRows
    BY Widths DEF FrameWords
  <2>2. CASE j = r
    BY <1>4, <1>9, <1>10, <2>1, <2>2
  <2>3. CASE j # r
    <3>1. j \in 1 .. r - 1 /\ FrameWords - j # FrameWords - r
      BY <2>3, Widths DEF FrameWords
    <3>2. FrameRegister[FrameWords - j] = frame.data[j]
      BY <1>3, <3>1 DEF Registered
    <3>3. FrameRegister'[FrameWords - j] = FrameRegister[FrameWords - j]
      BY <1>9, <1>10, <2>1, <3>1
    <3> QED
      BY <3>2, <3>3
  <2> QED
    BY <2>2, <2>3
<1>13. CASE r < NumberOfRows
  <2>1. /\ r + 1 \in 0 .. NumberOfRows /\ r + 1 > 0 /\ r + 1 - 1 = r
        /\ sent' = Len(image.meta) + 1 + k * FrameWords + (r + 1)
        /\ FrameShiftState' = FrameWords - (r + 1) /\ FrameShiftState # 1
        /\ k # Len(image.frames) /\ k \in 0 .. Len(image.frames)
    <3>1. r + 1 \in 0 .. NumberOfRows /\ r + 1 > 0 /\ r + 1 - 1 = r
      BY <1>13, Widths
    <3>2. sent' = Len(image.meta) + 1 + k * FrameWords + (r + 1)
      <4> DEFINE m == Len(image.meta)
                 p == k * FrameWords
      <4>1. m \in Int /\ p \in Int /\ r \in Int /\ sent' = (m + 1 + p + r) + 1
        BY <1>1, <1>2, <1>3
      <4> HIDE DEF m, p
      <4>2. sent' = m + 1 + p + (r + 1)
        BY <4>1
      <4> QED
        BY <4>2 DEF m, p
    <3>3. FrameShiftState' = FrameWords - (r + 1) /\ FrameShiftState # 1
      BY <1>2, <1>8, <1>13, Widths DEF FrameWords
    <3>4. k # Len(image.frames) /\ k \in 0 .. Len(image.frames)
      BY <1>1
    <3> QED
      BY <3>1, <3>2, <3>3, <3>4
  <2>2. FrameStrobe' = FALSE /\ state' = "frame"
    BY <1>6, <2>1 DEF FrameWord
  <2>3. Within(k, r + 1)'
    BY <1>7, <2>1, <2>2 DEF Within, Quiet
  <2>4. Registered(k, r + 1)'
    BY <1>11, <1>12, <2>1 DEF Registered
  <2> QED
    BY <2>1, <2>3, <2>4 DEF InFrames
<1>14. CASE r = NumberOfRows
  <2>1. FrameShiftState = 1
    BY <1>2, <1>14, Widths DEF FrameWords
  <2>2. FrameStrobe' = TRUE /\ state' = "synced"
    BY <1>6, <2>1 DEF FrameWord
  <2>3. sent' = Len(image.meta) + 1 + (k + 1) * FrameWords + 0
    <3>1. (k + 1) * FrameWords = k * FrameWords + FrameWords
      BY <1>3, Widths DEF FrameWords
    <3>2. FrameWords = r + 1 /\ FrameWords \in Nat
      BY <1>14, Widths DEF FrameWords
    <3> DEFINE m == Len(image.meta)
               p == k * FrameWords
    <3>3. m \in Int /\ p \in Int /\ r \in Int /\ sent' = (m + 1 + p + r) + 1
      BY <1>1, <1>2, <1>3
    <3>4. (k + 1) * FrameWords = p + (r + 1)
      BY <3>1, <3>2
    <3> HIDE DEF m, p
    <3>5. sent' = m + 1 + (p + (r + 1)) + 0
      BY <3>3
    <3> QED
      BY <3>4, <3>5 DEF m
  <2>4. k + 1 \in 0 .. Len(image.frames) /\ k + 1 > 0 /\ (k + 1) - 1 = k
        /\ 0 \in 0 .. NumberOfRows
    BY <1>1, Widths
  <2>5. Within(k + 1, 0)'
    BY <1>7, <2>2, <2>3, <2>4 DEF Within, Quiet
  <2>6. FrameRegister' = Memory!FrameRows(frame.data)
    <3>1. ASSUME NEW row \in 1 .. NumberOfRows
          PROVE  FrameRegister'[row] = frame.data[NumberOfRows + 1 - row]
      <4>1. /\ NumberOfRows + 1 - row \in 1 .. r
            /\ FrameWords - (NumberOfRows + 1 - row) = row
        BY <1>14, Widths DEF FrameWords
      <4> QED
        BY <1>12, <4>1
    <3>2. FrameRegister' = [row \in 1 .. NumberOfRows |-> FrameRegister'[row]]
      BY <1>9, <1>10
    <3>3. FrameRegister' = [row \in 1 .. NumberOfRows |-> frame.data[NumberOfRows + 1 - row]]
      BY <3>1, <3>2
    <3> QED
      BY <3>3 DEF Memory!FrameRows
  <2>7. Registered(k + 1, 0)'
    BY <1>11, <2>4, <2>6 DEF Registered
  <2> QED
    BY <2>4, <2>5, <2>7 DEF InFrames
<1> QED
  BY <1>13, <1>14, Widths

LEMMA SendDesync ==
  ASSUME TypeOK, MoreWords, ~FrameStrobe, ~oldFrameStrobe,
         ClockWith(ImageWords(image)[sent + 1]), sent' = sent + 1, image' = image,
         Within(Len(image.frames), 0)
  PROVE  Complete'
<1> DEFINE word == ImageWords(image)[sent + 1]
<1>1. /\ image \in Images /\ sent \in Nat /\ Len(image.meta) \in Nat
      /\ Len(image.frames) * FrameWords \in Nat
  BY ImageShape, FramesAreWords DEF MoreWords, TypeOK
<1>2. /\ state = "synced" /\ applied = Len(image.frames)
      /\ sent = Len(image.meta) + 1 + Len(image.frames) * FrameWords + 0
  BY DEF Within
<1>3. sent + 1 = Len(image.meta) + Len(image.frames) * FrameWords + 2
  BY <1>1, <1>2
<1>4. word = DesyncWord /\ sent + 1 = Len(ImageWords(image))
  BY <1>1, <1>3, WordsInPlace
<1>5. Desync(word)
  BY <1>2, <1>4, PathAssumption DEF ClockWith, Unsynced, Desync, Header, FrameWord
<1>6. ~LongFrameStrobe' /\ applied' = applied
  BY NoStrobe DEF ClockWith
<1> QED
  BY <1>2, <1>4, <1>5, <1>6 DEF Complete, Quiet, Desync

LEMMA FollowedSend ==
  ASSUME MinGap >= 3, TypeOK, StrobeWindow, PathInv, SendWord PROVE Followed'
<1> SUFFICES ASSUME Intact', image' # NoImage
             PROVE  /\ (Untouched \/ InFrames \/ Complete)'
                    /\ latches' = Memory!WithFrames(before, image, applied)'
  BY DEF Followed
<1>1. /\ MoreWords /\ ~FrameStrobe /\ ~oldFrameStrobe
      /\ ClockWith(ImageWords(image)[sent + 1])
      /\ sent' = sent + 1 /\ counted' = counted + 1
      /\ UNCHANGED <<image, before, clean>>
  BY ReadyIsQuiet DEF SendWord
<1>2. Intact /\ image # NoImage
  BY <1>1 DEF Intact, TypeOK
<1>3. /\ Untouched \/ InFrames \/ Complete
      /\ latches = Memory!WithFrames(before, image, applied)
  BY <1>2 DEF PathInv, Followed
<1>4. latches' = latches /\ applied' = applied
  BY <1>1, NoStrobe DEF ClockWith
<1>5. latches' = Memory!WithFrames(before, image, applied)'
  BY <1>1, <1>3, <1>4
<1>6. CASE Untouched
  BY <1>1, <1>5, <1>6, SendUntouched
<1>7. CASE InFrames
  <2>1. PICK k \in 0 .. Len(image.frames), r \in 0 .. NumberOfRows :
               Within(k, r) /\ Registered(k, r)
    BY <1>7 DEF InFrames
  <2>2. Len(image.frames) \in Nat
    BY <1>2, ImageShape DEF TypeOK
  <2>3. CASE k = Len(image.frames)
    <3>1. Within(Len(image.frames), 0)
      BY <2>1, <2>3 DEF Within
    <3> QED
      BY <1>1, <1>5, <3>1, SendDesync
  <2>4. CASE k # Len(image.frames) /\ r = 0
    <3>1. k \in 0 .. Len(image.frames) - 1 /\ Within(k, 0)
      BY <2>1, <2>2, <2>4
    <3> QED
      BY <1>1, <1>5, <3>1, SendHeader
  <2>5. CASE k # Len(image.frames) /\ r # 0
    <3>1. k \in 0 .. Len(image.frames) - 1 /\ r \in 1 .. NumberOfRows
      BY <2>2, <2>5, Widths
    <3> QED
      BY <1>1, <1>5, <2>1, <3>1, SendRow
  <2> QED
    BY <2>3, <2>4, <2>5
<1>8. CASE Complete
  <2>1. Len(ImageWords(image)) \in Nat
    BY <1>2, WordsInPlace, LenProperties DEF TypeOK
  <2> QED
    BY <1>1, <1>8, <2>1 DEF Complete, MoreWords
<1> QED
  BY <1>3, <1>6, <1>7, <1>8

LEMMA FollowedStep ==
  ASSUME MinGap >= 3, TypeOK, StrobeWindow, PathInv, [Next]_vars PROVE Followed'
<1>1. CASE BeginLoad
  BY <1>1, FollowedBegin
<1>2. CASE SendWord
  BY <1>2, FollowedSend
<1>3. CASE LoseWord
  <2>1. ~Intact'
    BY <1>3 DEF LoseWord, Intact, TypeOK
  <2> QED
    BY <2>1 DEF Followed
<1>4. CASE Wait
  BY <1>4, FollowedWait
<1>5. CASE EndLoad \/ Reset
  <2>1. image' = NoImage
    BY <1>5 DEF EndLoad, Reset, loadVars
  <2> QED
    BY <2>1 DEF Followed
<1>6. CASE UNCHANGED vars
  <2>1. /\ UNCHANGED <<image, clean, counted, sent, latches, before, applied, state>>
        /\ UNCHANGED <<FrameStrobe, LongFrameStrobe, FrameShiftState>>
        /\ UNCHANGED <<FrameAddressRegister, FrameRegister>>
    BY <1>6 DEF vars, fsmVars, strobeVars, dataVars, loadVars, histVars
  <2>2. Quiet' <=> Quiet
    BY <2>1 DEF Quiet
  <2>3. Untouched' <=> Untouched
    BY <2>1, <2>2 DEF Untouched
  <2>4. Complete' <=> Complete
    BY <2>1, <2>2 DEF Complete
  <2>5. InFrames => InFrames'
    BY <2>1, <2>2 DEF InFrames, Within, Registered
  <2>6. Intact' <=> Intact
    BY <2>1 DEF Intact
  <2> QED
    BY <2>1, <2>3, <2>4, <2>5, <2>6 DEF PathInv, Followed
<1> QED
  BY <1>1, <1>2, <1>3, <1>4, <1>5, <1>6 DEF Next

(* At its end a clean load is complete. *)
LEMMA EndIsComplete ==
  ASSUME TypeOK, PathInv, AllSent, Intact
  PROVE  Complete /\ latches = Memory!WithFrames(before, image, Len(image.frames))
<1>1. image \in Images /\ image # NoImage /\ sent = Len(ImageWords(image))
  BY DEF AllSent, TypeOK
<1>2. /\ Untouched \/ InFrames \/ Complete
      /\ latches = Memory!WithFrames(before, image, applied)
  BY <1>1 DEF PathInv, Followed
<1>3. /\ Len(image.meta) \in Nat /\ Len(image.frames) \in Nat
      /\ Len(image.frames) * FrameWords \in Nat
      /\ sent = Len(image.meta) + Len(image.frames) * FrameWords + 2
  BY <1>1, ImageShape, FramesAreWords, WordsInPlace
<1>4. ~Untouched
  BY <1>3 DEF Untouched
<1>5. ~InFrames
  <2> SUFFICES ASSUME NEW k \in 0 .. Len(image.frames), NEW r \in 0 .. NumberOfRows,
                      Within(k, r)
               PROVE  FALSE
    BY DEF InFrames
  <2>1. sent = Len(image.meta) + 1 + k * FrameWords + r /\ (k = Len(image.frames) => r = 0)
    BY DEF Within
  <2>2. FrameWords \in Nat \ {0} /\ r \in 0 .. FrameWords - 1 /\ k \in Int
        /\ k * FrameWords \in Int
    BY <1>3, Widths DEF FrameWords
  <2>3. CASE k = Len(image.frames)
    BY <1>3, <2>1, <2>3
  <2>4. CASE k # Len(image.frames)
    <3>1. k \in 0 .. Len(image.frames) - 1
      BY <1>3, <2>4
    <3>2. k * FrameWords + r <= Len(image.frames) * FrameWords - 1
      <4>1. k * FrameWords + r \in 0 .. Len(image.frames) * FrameWords - 1
        BY <1>3, <2>2, <3>1, Inside
      <4> QED
        BY <1>3, <2>2, <4>1
    <3> DEFINE m == Len(image.meta)
               p == k * FrameWords
               q == Len(image.frames) * FrameWords
    <3>3. /\ m \in Int /\ p \in Int /\ q \in Int /\ r \in Int
          /\ sent = m + q + 2 /\ sent = m + 1 + p + r /\ p + r <= q - 1
      <4>1. m \in Int /\ q \in Int /\ sent = m + q + 2
        BY <1>3
      <4>2. p \in Int /\ r \in Int
        BY <2>2
      <4>3. sent = m + 1 + p + r
        BY <2>1
      <4>4. p + r <= q - 1
        BY <3>2
      <4> QED
        BY <4>1, <4>2, <4>3, <4>4
    <3> HIDE DEF m, p, q
    <3> QED
      BY <3>3
  <2> QED
    BY <2>3, <2>4
<1> QED
  BY <1>2, <1>4, <1>5 DEF Complete

LEMMA UnsynchronisedStep ==
  ASSUME MinGap >= 3, TypeOK, StrobeWindow, PathInv, [Next]_vars PROVE Unsynchronised'
<1> SUFFICES ASSUME clean', image' = NoImage PROVE state' = "unsynced" /\ Quiet'
  BY DEF Unsynchronised
<1>1. CASE BeginLoad
  BY <1>1, PathAssumption DEF BeginLoad
<1>2. CASE SendWord
  BY <1>2 DEF SendWord, MoreWords
<1>3. CASE LoseWord
  BY <1>3 DEF LoseWord, MoreWords
<1>4. CASE Wait
  <2>1. /\ state' = state /\ FrameStrobe' = FALSE /\ StrobeAndLatch
        /\ clean /\ image = NoImage
    BY <1>4 DEF Wait, ClockWithout
  <2>2. state = "unsynced" /\ ~FrameStrobe /\ ~oldFrameStrobe
    BY <2>1 DEF PathInv, Unsynchronised, Idle
  <2> QED
    BY <2>1, <2>2, NoStrobe DEF Quiet
<1>5. CASE EndLoad
  <2>1. AllSent /\ Intact /\ UNCHANGED <<state, FrameStrobe, LongFrameStrobe>>
    BY <1>5 DEF EndLoad, Intact, fsmVars, strobeVars
  <2>2. Complete
    BY <2>1, EndIsComplete
  <2> QED
    BY <2>1, <2>2 DEF Complete, Quiet
<1>6. CASE Reset
  BY <1>6 DEF Reset, Quiet
<1>7. CASE UNCHANGED vars
  BY <1>7 DEF vars, fsmVars, strobeVars, loadVars, histVars, PathInv, Unsynchronised, Quiet
<1> QED
  BY <1>1, <1>2, <1>3, <1>4, <1>5, <1>6, <1>7 DEF Next

LEMMA PathStep ==
  MinGap >= 3 /\ TypeOK /\ StrobeWindow /\ PathInv /\ [Next]_vars => PathInv'
BY IdleStep, FollowedStep, UnsynchronisedStep DEF PathInv

(* Where the load, the FSM and the latches are, for strobes at least three *)
(* clocks apart.                                                           *)
THEOREM PathLayer == MinGap >= 3 => (Spec => [](TypeOK /\ StrobeWindow /\ PathInv))
<1> SUFFICES ASSUME MinGap >= 3
             PROVE  Spec => [](TypeOK /\ StrobeWindow /\ PathInv)
  OBVIOUS
<1>1. Init => TypeOK /\ StrobeWindow /\ PathInv
  BY TypesInit, WindowInit, PathInit
<1>2. TypeOK /\ StrobeWindow /\ PathInv /\ [Next]_vars =>
        (TypeOK /\ StrobeWindow /\ PathInv)'
  BY TypesStep, WindowStep, PathStep
<1> QED
  BY <1>1, <1>2, PTL DEF Spec

(* A load whose count agrees leaves exactly its bitstream in the latches   *)
(* over what was there, and the FSM out of sync, if no load failed since   *)
(* the last reset (ConfigFSM.v:25-92, fabulous_driver.c:261-265).          *)
THEOREM CleanLoadIsTheImage == MinGap >= 3 => (Spec => []CleanLoadConfigures)
<1> SUFFICES ASSUME MinGap >= 3 PROVE Spec => []CleanLoadConfigures
  OBVIOUS
<1>1. TypeOK /\ PathInv => CleanLoadConfigures
  BY EndIsComplete DEF CleanLoadConfigures, Verified, Intact, Configured, Complete,
                       Memory!WithImage
<1> QED
  BY <1>1, PathLayer, PTL
-----------------------------------------------------------------------------
(***************************************************************************)
(* The path implements the frame memory (without its liveness).            *)
(***************************************************************************)

LEMMA MemoryInit == Init => Memory!Init
BY DEF Init, Memory!Init

(* A clock of a load writes a whole frame, the next one, or nothing.       *)
LEMMA MemoryWait ==
  ASSUME TypeOK, StrobeWindow, PathInv, PathInv', Wait
  PROVE  Memory!Next \/ UNCHANGED Memory!vars
<1>1. /\ FrameStrobe' = FALSE /\ StrobeAndLatch
      /\ UNCHANGED <<FrameAddressRegister, FrameRegister, image, sent, counted, before, clean>>
  BY DEF Wait, ClockWithout
<1>2. CASE image = NoImage
  <2>1. latches' = latches /\ applied' = applied
    BY <1>1, <1>2, NoStrobe DEF PathInv, Idle
  <2> QED
    BY <1>1, <2>1 DEF Memory!vars
<1>3. CASE image # NoImage /\ ~Intact
  BY <1>1, <1>3 DEF Intact, Memory!Next, Memory!Damage
<1>4. CASE image # NoImage /\ Intact
  <2>1. /\ latches = Memory!WithFrames(before, image, applied)
        /\ latches' = Memory!WithFrames(before, image, applied')
    <3>1. Followed /\ Followed' /\ Intact'
      BY <1>1, <1>4 DEF PathInv, Intact
    <3> QED
      BY <1>1, <1>4, <3>1 DEF Followed
  <2>2. image \in Images /\ applied \in Nat
    BY <1>4 DEF TypeOK
  <2>3. applied' = applied \/ applied' = applied + 1
    BY <1>1 DEF StrobeAndLatch
  <2>4. CASE applied' = applied
    BY <1>1, <2>1, <2>4 DEF Memory!vars
  <2>5. CASE applied' = applied + 1
    <3>1. latches' = Memory!WithFrame(latches, image.frames[applied + 1])
      BY <2>1, <2>2, <2>5, WithNext
    <3>2. applied < Len(image.frames)
      <4>1. LongFrameStrobe' /\ image' = image
        BY <1>1, <2>2, <2>5 DEF StrobeAndLatch
      <4>2. InFrames'
        BY <1>1, <1>4, <4>1 DEF PathInv, Followed, Intact, Untouched, Complete, Quiet
      <4>3. PICK k \in 0 .. Len(image.frames), r \in 0 .. NumberOfRows : Within(k, r)'
        BY <1>1, <4>2 DEF InFrames
      <4>4. applied' = k /\ Len(image.frames) \in Nat
        BY <1>1, <2>2, <4>3, ImageShape DEF Within
      <4> QED
        BY <2>2, <2>5, <4>4
    <3> QED
      BY <1>1, <1>4, <2>5, <3>1, <3>2 DEF Intact, Memory!Next, Memory!WriteFrame
  <2> QED
    BY <2>3, <2>4, <2>5
<1> QED
  BY <1>2, <1>3, <1>4

LEMMA MemoryStep ==
  ASSUME MinGap >= 3, TypeOK, StrobeWindow, PathInv, PathInv', [Next]_vars
  PROVE  Memory!Next \/ UNCHANGED Memory!vars
<1>1. CASE BeginLoad
  <2>1. sent = 0 /\ counted = 0
    BY <1>1 DEF BeginLoad, PathInv, Idle
  <2> QED
    BY <1>1, <2>1 DEF BeginLoad, dataVars, Memory!Next, Memory!Begin
<1>2. CASE SendWord
  <2>1. /\ image # NoImage /\ sent' = sent + 1 /\ counted' = counted + 1
        /\ UNCHANGED <<image, clean>> /\ StrobeAndLatch
    BY <1>2 DEF SendWord, MoreWords, ClockWith
  <2>2. latches' = latches /\ applied' = applied
    BY <1>2, <2>1, ReadyIsQuiet, NoStrobe DEF SendWord
  <2>3. (counted = sent) <=> (counted' = sent')
    BY <2>1 DEF TypeOK
  <2> QED
    BY <2>1, <2>2, <2>3 DEF Memory!vars
<1>3. CASE LoseWord
  <2>1. /\ image # NoImage /\ sent' = sent + 1 /\ counted' = counted
        /\ UNCHANGED <<image, clean>> /\ StrobeAndLatch
    BY <1>3 DEF LoseWord, MoreWords, ClockWithout
  <2>2. latches' = latches /\ applied' = applied
    BY <1>3, <2>1, ReadyIsQuiet, NoStrobe DEF LoseWord
  <2>3. counted' # sent'
    BY <2>1 DEF TypeOK
  <2> QED
    BY <2>1, <2>2, <2>3 DEF Memory!Next, Memory!Lose
<1>4. CASE Wait
  BY <1>4, MemoryWait
<1>5. CASE EndLoad
  <2>1. /\ AllSent /\ image # NoImage /\ image' = NoImage /\ applied' = 0
        /\ sent' = 0 /\ counted' = 0 /\ clean' = (clean /\ counted = sent)
        /\ latches' = latches
    BY <1>5 DEF EndLoad, AllSent, dataVars
  <2>2. clean /\ counted = sent => applied = Len(image.frames)
    BY <2>1, EndIsComplete DEF Intact, Complete
  <2>3. (clean' /\ counted' = sent') <=> (clean /\ counted = sent)
    BY <2>1
  <2> QED
    BY <2>1, <2>2, <2>3 DEF Memory!Next, Memory!Finish
<1>6. CASE Reset
  <2>1. /\ image = NoImage /\ clean' = TRUE
        /\ UNCHANGED <<latches, image, sent, counted, applied>>
    BY <1>6 DEF Reset, dataVars, loadVars
  <2>2. sent = 0 /\ counted = 0
    BY <2>1 DEF PathInv, Idle
  <2> QED
    BY <2>1, <2>2 DEF Memory!Next, Memory!Restore
<1>7. CASE UNCHANGED vars
  BY <1>7 DEF vars, dataVars, loadVars, histVars, Memory!vars
<1> QED
  BY <1>1, <1>2, <1>3, <1>4, <1>5, <1>6, <1>7 DEF Next

(* Words in, frames out: each frame of a bitstream appears in the latches  *)
(* whole, at one instant and in order; a lost word voids that until the    *)
(* next reset (ConfigFSM.v, Frame_Data_Reg.v, Frame_Select.v).             *)
THEOREM PathIsFrameMemory == MinGap >= 3 => (Spec => Memory!Spec)
<1> SUFFICES ASSUME MinGap >= 3 PROVE Spec => Memory!Spec
  OBVIOUS
<1>1. TypeOK /\ StrobeWindow /\ PathInv /\ (TypeOK /\ StrobeWindow /\ PathInv)' /\ [Next]_vars
        => [Memory!Next]_(Memory!vars)
  BY MemoryStep
<1> QED
  BY <1>1, MemoryInit, PathLayer, PTL DEF Spec, Memory!Spec
=============================================================================
