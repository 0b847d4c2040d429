-------------------------- MODULE SpacedRepetition --------------------------
(***************************************************************************)
(* When a flashcard is shown again (SM-2).  The ease is in hundredths, in  *)
(* which its steps are whole; the code's is a double, so a product that    *)
(* lies on a half may be rounded the other way.                            *)
(***************************************************************************)
EXTENDS Integers

(* QUALITY_MAP: again, hard, good, easy. *)
Qualities == {1, 2, 3, 5}

Passes(quality) == quality >= 3

MinEase == 130

Card == [ease : Nat, interval : Nat, repetitions : Nat]

NewCard == [ease |-> 250, interval |-> 0, repetitions |-> 0]

(* Mutant: the ease may fall to nothing. *)
EaseUnbounded(ease, quality) ==
  LET e == ease + 10 - (5 - quality) * (8 + (5 - quality) * 2) IN IF e > 0 THEN e ELSE 0

NextEase(ease, quality) ==
  LET e == ease + 10 - (5 - quality) * (8 + (5 - quality) * 2) IN IF e > MinEase THEN e ELSE MinEase

NextInterval(card) ==
  CASE card.repetitions = 0 -> 1
    [] card.repetitions = 1 -> 6
    [] OTHER -> (card.interval * card.ease + 50) \div 100

CalculateNextReview(quality, card) ==
  [ease        |-> NextEase(card.ease, quality),
   interval    |-> IF Passes(quality) THEN NextInterval(card) ELSE 1,
   repetitions |-> IF Passes(quality) THEN card.repetitions + 1 ELSE 0]
=============================================================================
