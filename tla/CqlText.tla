------------------------------ MODULE CqlText ------------------------------
(***************************************************************************)
(* Migration files as sequences of runes, and what they mean by their      *)
(* tokens: the strings, comments, separators and single runes of which a   *)
(* file consists.  A token ends at the first place where it may: a string  *)
(* at a quote, a block comment at a star and slash of its own, a line      *)
(* comment before a newline or at the end of the file.  (A doubled quote   *)
(* ends a string and opens the next one: for what is text and what is not, *)
(* that is the same.)                                                      *)
(***************************************************************************)
EXTENDS Naturals, Sequences, FiniteSets, SequencesExt

CONSTANTS Runes,    \* the runes of migration files
          Contents  \* the texts a migration file may have

ASSUME ContentsAssumption == Contents \subseteq Seq(Runes)

Separator == ";"
Blank == {" ", "\n"}

(* strings.TrimSpace.                                                       *)
TrimSpace(text) ==
    LET ink == {i \in DOMAIN text : text[i] \notin Blank}
    IN  IF ink = {} THEN <<>> ELSE SubSeq(text, Min(ink), Max(ink))

(* The statements found with one more, unless it is empty.                  *)
With(found, text) ==
    IF TrimSpace(text) = <<>> THEN found ELSE Append(found, TrimSpace(text))

-----------------------------------------------------------------------------
CommentAt(text, i) ==
    i < Len(text) /\ <<text[i], text[i + 1]>> \in {<<"-", "-">>, <<"/", "*">>}

(* Where the rest of a string, a block comment or a line comment that is    *)
(* read up to place i may end.                                              *)
StringEnds(text, i) == {j \in i..Len(text) : text[j] = "'"}
BlockEnds(text, i) == {j \in i+1..Len(text) : text[j-1] = "*" /\ text[j] = "/"}
LineEnds(text, i) == {j \in i-1..Len(text) : j < Len(text) => text[j+1] = "\n"}

TokenEnds(text, i) ==
    IF text[i] = "'" THEN StringEnds(text, i + 1)
    ELSE IF ~CommentAt(text, i) THEN {i}
    ELSE IF text[i] = "/" THEN BlockEnds(text, i + 2)
    ELSE LineEnds(text, i + 2)

(* The places where tokens begin: the first one, and every one that follows *)
(* a token.                                                                 *)
After(text, i) ==
    IF TokenEnds(text, i) = {} THEN {} ELSE {Min(TokenEnds(text, i)) + 1}

TokenStarts(text) ==
    LET after == [i \in 1..Len(text) |-> After(text, i)]
        closed == {S \in SUBSET (1..Len(text)+1) :
                      1 \in S /\ \A i \in S \ {Len(text) + 1} : after[i] \subseteq S}
    IN  {i \in 1..Len(text) : \A S \in closed : i \in S}

Terminated(text) == \A i \in TokenStarts(text) : TokenEnds(text, i) # {}

(* The runes that belong to a statement, and the places where one ends.     *)
Kept(text) ==
    UNION {i..Min(TokenEnds(text, i)) :
           i \in {k \in TokenStarts(text) : ~CommentAt(text, k) /\ text[k] # Separator}}

Cuts(text) == {i \in TokenStarts(text) : text[i] = Separator} \union {Len(text) + 1}

(* Places in order: the nth is the one up to which there are n.  What is    *)
(* found there: the runes of a text, the statements that end there.         *)
InOrder(places) ==
    [n \in 1..Cardinality(places) |->
        CHOOSE p \in places : Cardinality({q \in places : q <= p}) = n]

Listed(f, places) ==
    LET order == InOrder(places)
    IN  [n \in 1..Cardinality(places) |-> f[order[n]]]

(* The places of the statement that ends at k.                              *)
Between(kept, cuts, k) == {i \in kept : i < k /\ \A c \in cuts : ~(i < c /\ c < k)}

(* The statements that end before a place.                                  *)
StatementsBefore(text, i) ==
    LET kept == Kept(text)
        cuts == Cuts(text)
        part == [k \in cuts |-> TrimSpace(Listed(text, Between(kept, cuts, k)))]
    IN  Listed(part, {k \in cuts : k < i /\ part[k] # <<>>})

StatementsOf(text) == StatementsBefore(text, Len(text) + 2)
=============================================================================
