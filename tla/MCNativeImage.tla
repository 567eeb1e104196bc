--------------------------- MODULE MCNativeImage ---------------------------
(* A loop over three blocks, the first of them longer than a chunk.        *)
EXTENDS NativeImage, TLC

CONSTANTS t1, t2, a, b, c

Loop == (a :> <<"next", b, "next", "return">>) @@ (b :> <<c, a>>) @@ (c :> <<"next", b>>)
=============================================================================
