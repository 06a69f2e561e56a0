------------------------ MODULE MCOnChainCollection ------------------------
(***************************************************************************)
(* Instances of OnChainCollection for TLC: the functions a cfg cannot      *)
(* write.                                                                  *)
(***************************************************************************)
EXTENDS OnChainCollection

CONSTANTS c1, c2, k1, k2, ann

\* Bags of one collector: their records share a signer's queue.
SameCollector == [c \in Collections |-> ann]

\* Bags that differ in material or weight, and bags that do not.
DistinctBags == [c \in Collections |-> IF c = c1 THEN k1 ELSE k2]
SameBags     == [c \in Collections |-> k1]

=============================================================================
