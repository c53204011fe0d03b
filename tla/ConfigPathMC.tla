---------------------------- MODULE ConfigPathMC ----------------------------
(***************************************************************************)
(* Instances of ConfigPath for TLC: two rows, columns 0 and 1 with frames  *)
(* 0 and 1.  A data word may look like a header, a desync or a sync word.  *)
(***************************************************************************)
EXTENDS ConfigPath

AllWords == {"zero", "meta", "sync", "desync", "h00", "h01", "h10", "d"}

Column == [w \in AllWords |->
             CASE w = "h10" -> 1 [] w \in {"sync"} -> 31 [] OTHER -> 0]
FrameBits == [w \in AllWords |->
                CASE w \in {"h00", "h10"} -> {0} [] w \in {"h01", "meta", "sync"} -> {1}
                  [] OTHER -> {}]

Frame(h, a, b) == [header |-> h, data |-> <<a, b>>]
Lookalikes == {"d", "sync"}
TwoFrames ==
  {[meta |-> <<"meta">>, frames |-> <<Frame("h00", a, b), Frame("h10", c, "h01")>>] :
     a, b, c \in Lookalikes}
OneFrame ==
  {[meta |-> <<>>, frames |-> <<Frame("h01", a, b)>>] : a, b \in {"desync", "h10"}}
ManyImages == TwoFrames \cup OneFrame
=============================================================================
