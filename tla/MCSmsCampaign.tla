---------------------------- MODULE MCSmsCampaign ----------------------------
(* SmsCampaign on a small instance: one segment of three customers, limits   *)
(* below their number, and pages confirmed more than once.                   *)
EXTENDS SmsCampaign, TLC

CONSTANTS a1, a2, n1, n2, n3, n4, g1, g2, k1, p1, p2, p3

\* Managers, numbers, texts, tokens and POSTs are interchangeable.
Alike ==
  Permutations(Manager) \cup Permutations(Mobile) \cup Permutations(Message)
    \cup Permutations(Token) \cup Permutations(Post)
=============================================================================
