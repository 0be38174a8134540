--------------------------- MODULE MCPromptDelivery ---------------------------
(* A small instance of PromptDelivery: sessions and texts as model values. *)
EXTENDS PromptDelivery, TLC

CONSTANTS s1, s2, hello, bye

TwoSessions == {s1, s2}
TwoTexts == {hello, bye}

(* Sessions and texts are told apart by nothing but their name. *)
Renaming == Permutations(TwoSessions) \cup Permutations(TwoTexts)
=============================================================================
