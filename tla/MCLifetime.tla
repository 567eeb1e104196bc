------------------------------- MODULE MCLifetime -------------------------------
(* A small heap for Lifetime: frames of FrameSlots slots, owners of one field, *)
(* an image with one slot.                                                      *)
EXTENDS Lifetime

CONSTANT FrameSlots

AllSlots  == (Frames \X (1 .. FrameSlots)) \cup ((Owners \cup {Image}) \X {1})
Container == [s \in AllSlots |-> s[1]]
=============================================================================
