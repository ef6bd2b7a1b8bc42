---------------------------- MODULE MCCqlSplit -----------------------------
(* Every text up to a length, of runes that mean something to the scanner.  *)
EXTENDS CqlSplit

CONSTANT MaxLength

SomeRunes == {"'", "-", "/", "*", ";", "\n", " ", "x"}
ShortTexts == UNION {[1..n -> Runes] : n \in 0..MaxLength}
=============================================================================
