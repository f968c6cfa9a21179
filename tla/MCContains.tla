----------------------------- MODULE MCContains -----------------------------
(* Contains over all texts of at most four octets out of two cases of one    *)
(* letter and another letter: enough for a match that begins inside a failed *)
(* one ("aab" in "aaab"), and for a haystack that ends inside the needle.     *)
EXTENDS Contains

MCOctets == {"a", "A", "b"}
MCtolower == [c \in MCOctets |-> IF c = "A" THEN "a" ELSE c]
MCTexts == UNION {[1..n -> MCOctets] : n \in 0..4}

=============================================================================
