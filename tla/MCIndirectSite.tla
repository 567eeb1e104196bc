--------------------------- MODULE MCIndirectSite ---------------------------
(* Two sites of one signature and one of another; four kinds of functions. *)
EXTENDS IndirectSite, TLC

CONSTANTS f, g, h, k, c, data, s1, s2, s3

SiteSignatures == (s1 :> 1) @@ (s2 :> 1) @@ (s3 :> 2)
Signatures == (f :> 1) @@ (g :> 1) @@ (h :> 2) @@ (k :> 1) @@ (c :> 1)
=============================================================================
