---------------------------- MODULE FrameMemory -----------------------------
(***************************************************************************)
(* What the configuration port promises: a memory of frames, addressed by  *)
(* column and frame.  A bitstream is a sequence of frames; each frame is   *)
(* written whole, at one instant, in order, and a bitstream ends with all  *)
(* of them written, unless a part of it was lost on the way.               *)
(***************************************************************************)
EXTENDS Integers, Sequences, FiniteSetsExt

CONSTANTS
  NumberOfRows,  \* rows of a frame
  Cols, FrameIdx,  \* columns that exist, frames of a column
  Words,         \* 32-bit words
  ColOf, FramesOf,  \* bits 31..27 of a word, and the set bits among 19..0
  Images,        \* bitstreams: [meta |-> words, frames |-> frames]
  NoImage

VARIABLES
  mem,    \* [Cols -> [FrameIdx -> [1..NumberOfRows -> Words]]]
  image,  \* the bitstream being written
  pos,    \* frames of it written so far
  intact  \* nothing of a bitstream was lost since the last reset

(* A frame of a bitstream: its header and its data, last row first. *)
FrameRows(data) == [r \in 1 .. NumberOfRows |-> data[NumberOfRows + 1 - r]]
Addressed(header, c, f) == ColOf[header] = c /\ f \in FramesOf[header]
Overlay(m, header, rows) ==
  [c \in Cols |-> [f \in FrameIdx |->
     IF Addressed(header, c, f) THEN rows ELSE m[c][f]]]
WithFrame(m, frame) == Overlay(m, frame.header, FrameRows(frame.data))
(* After the first n frames each place holds the last one addressed to it. *)
WithFrames(m, i, n) ==
  [c \in Cols |-> [f \in FrameIdx |->
     LET writers == {k \in 1 .. n : Addressed(i.frames[k].header, c, f)}
     IN IF writers = {} THEN m[c][f] ELSE FrameRows(i.frames[Max(writers)].data)]]
WithImage(m, i) == WithFrames(m, i, Len(i.frames))

Init == image = NoImage /\ pos = 0 /\ intact = TRUE

Begin ==
  /\ image = NoImage
  /\ image' \in Images /\ pos' = 0 /\ UNCHANGED <<mem, intact>>

WriteFrame ==
  /\ intact /\ image # NoImage /\ pos < Len(image.frames)
  /\ mem' = WithFrame(mem, image.frames[pos + 1])
  /\ pos' = pos + 1 /\ UNCHANGED <<image, intact>>

(* A part of the bitstream is lost.  From then on the promise is off: the  *)
(* words still to come may write anything anywhere, until a reset.         *)
Lose ==
  /\ image # NoImage
  /\ intact' = FALSE /\ UNCHANGED <<mem, image, pos>>
Damage == ~intact /\ image # NoImage /\ UNCHANGED <<image, intact>>

Finish ==
  /\ image # NoImage /\ (intact => pos = Len(image.frames))
  /\ image' = NoImage /\ pos' = 0 /\ UNCHANGED <<mem, intact>>

Restore == image = NoImage /\ intact' = TRUE /\ UNCHANGED <<mem, image, pos>>

Next == Begin \/ WriteFrame \/ Lose \/ Damage \/ Finish \/ Restore
vars == <<mem, image, pos, intact>>
Spec == Init /\ [][Next]_vars
LiveSpec == Spec /\ WF_vars(WriteFrame) /\ WF_vars(Finish)
=============================================================================
