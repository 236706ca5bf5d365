----------------------------- MODULE MCTextSync -----------------------------
(***************************************************************************)
(* TextSync for model checking, and what TLC evaluates about set_text.     *)
(***************************************************************************)
EXTENDS TextSync

Texts == UNION {[1..n -> 1..3] : n \in 0..3}

\* set_text leaves exactly the new text, repeated characters and characters of
\* two code units included.
ASSUME SetTextReplaces ==
  \A old, new \in Texts : T!SetText(T!Encoded(old), new) = T!Encoded(new)

\* The surrogate pairs of "p" and "r" begin alike, those of "p" and "q" end alike.
Surrogates(c) ==
  CASE c = "a" -> <<1>> [] c = "p" -> <<2, 3>> [] c = "q" -> <<4, 3>> [] c = "r" -> <<2, 5>>

D == INSTANCE TextDiff WITH Code <- Surrogates

\* "Both fall on char boundaries" (src/src/text.rs:135) is not so for these: a
\* pair that begins alike loses its second half and the new character is not
\* inserted; one that ends alike leaves its second half behind the new character.
ASSUME SharedHalfIsLost ==
  /\ D!SetText(D!Encoded(<<"a", "p">>), <<"a", "r">>) = <<1, 2>>
  /\ D!SetText(D!Encoded(<<"p", "a">>), <<"q", "a">>) = <<4, 3, 3, 1>>

============================================================================
