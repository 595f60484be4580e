--------------------------- MODULE MCProjectRouting ---------------------------
(* Two topics with a turn each; one name and one topic are mapped.           *)
EXTENDS ProjectRouting, TLC

CONSTANTS t1, t2, n1, n2, m1, m2, d1, d2

MCTopicOf == (m1 :> t1) @@ (m2 :> t2)
MCRoots == (n1 :> d1) @@ (t2 :> d2)
=============================================================================
