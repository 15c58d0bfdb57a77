---------------------------- MODULE MCSpamFilter ----------------------------
(* SpamFilter on five ids and a window of three remembered ids.            *)
EXTENDS SpamFilter, TLC

CONSTANTS m1, m2, m3, m4, m5

MCMsgId == {m1, m2, m3, m4, m5}
MCThreshold == 4
MCCountMod == 4
MCMaxProcessed == 7

\* The ids are interchangeable: no definition compares them but for equality.
Symmetry == Permutations(MCMsgId)

=============================================================================
