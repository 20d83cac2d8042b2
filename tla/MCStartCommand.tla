--------------------------- MODULE MCStartCommand ---------------------------
(* Answers of up to three words for TLC. *)
EXTENDS StartCommand
MCAnswers == BoundedSeq(Words, 3) \ {<<>>}
=============================================================================
