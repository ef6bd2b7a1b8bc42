--------------------------- MODULE CqlSplitProofs --------------------------
(***************************************************************************)
(* The scanner of migration files implements their tokens, for files of    *)
(* any length over any runes.                                              *)
(***************************************************************************)
EXTENDS CqlSplit, SequenceTheorems, TLAPS

USE ContentsAssumption

Modes == {"code", "string", "line", "block", "split", "error"}

Inv ==
    /\ content \in Contents
    /\ at \in 1..(Len(content) + 1)
    /\ mode \in Modes
    /\ current \in Seq(Runes)

-----------------------------------------------------------------------------
(* What is proved of the tokens holds of the scanner.                       *)
Proved == INSTANCE CqlTokensProofs WITH
    at <- TokenAt, current <- TokenCurrent, outcome <- Outcome

LEMMA LeastMember ==
    \A S \in SUBSET Nat : S # {} => Min(S) \in S /\ \A j \in S : Min(S) <= j
  BY Proved!LeastMember, Zenon DEF Proved!Min, Min

LEMMA LeastIs ==
    ASSUME NEW S \in SUBSET Nat, NEW m \in S, \A j \in S : m <= j
    PROVE  Min(S) = m
  <1>1. Min(S) \in S /\ Min(S) <= m
    BY LeastMember
  <1>2. m \in Nat /\ Min(S) \in Nat /\ m <= Min(S)
    BY <1>1
  <1> HIDE DEF Min
  <1> QED
    BY <1>1, <1>2

LEMMA SeparatorIs == Separator \notin {"'", "-", "/", "\n"}
  BY Zenon DEF Separator

(* The rest of a token is that of the rest, until its end is there.         *)
LEMMA RestOfString ==
    ASSUME NEW text \in Seq(Runes), NEW i \in 1..Len(text)
    PROVE  /\ text[i] # "'" => StringEnds(text, i) = StringEnds(text, i + 1)
           /\ text[i] = "'" => StringEnds(text, i) # {} /\ Min(StringEnds(text, i)) = i
  <1>1. StringEnds(text, i) \in SUBSET Nat
    BY DEF StringEnds
  <1>2. text[i] # "'" => StringEnds(text, i) = StringEnds(text, i + 1)
    BY DEF StringEnds
  <1>3. ASSUME text[i] = "'"
        PROVE  i \in StringEnds(text, i) /\ \A j \in StringEnds(text, i) : i <= j
    BY <1>3 DEF StringEnds
  <1> QED
    BY <1>1, <1>2, <1>3, LeastIs

LEMMA StringEndsAfter ==
    ASSUME NEW text \in Seq(Runes), NEW i \in Nat \ {0}, StringEnds(text, i) # {}
    PROVE  Min(StringEnds(text, i)) \in i..Len(text)
  <1>1. StringEnds(text, i) \in SUBSET Nat
    BY DEF StringEnds
  <1>2. Min(StringEnds(text, i)) \in StringEnds(text, i)
    BY <1>1, LeastMember
  <1> HIDE DEF Min
  <1> QED
    BY <1>2 DEF StringEnds

LEMMA RestOfBlock ==
    ASSUME NEW text \in Seq(Runes), NEW i \in 1..Len(text)
    PROVE  LET closes == i < Len(text) /\ text[i] = "*" /\ text[i + 1] = "/"
           IN  /\ ~closes => BlockEnds(text, i) = BlockEnds(text, i + 1)
               /\ closes => BlockEnds(text, i) # {} /\ Min(BlockEnds(text, i)) = i + 1
  <1> DEFINE closes == i < Len(text) /\ text[i] = "*" /\ text[i + 1] = "/"
  <1>1. BlockEnds(text, i) \in SUBSET Nat
    BY DEF BlockEnds
  <1>2. ASSUME ~closes
        PROVE  BlockEnds(text, i) = BlockEnds(text, i + 1)
    <2>1. \A j \in Int : j \in (i + 1)..Len(text)
                        <=> j \in (i + 1 + 1)..Len(text) \/ (j = i + 1 /\ i < Len(text))
      OBVIOUS
    <2>2. i + 1 \notin BlockEnds(text, i)
      BY <1>2 DEF BlockEnds
    <2> QED
      BY <2>1, <2>2 DEF BlockEnds
  <1>3. ASSUME closes
        PROVE  i + 1 \in BlockEnds(text, i) /\ \A j \in BlockEnds(text, i) : i + 1 <= j
    <2>1. i + 1 \in (i + 1)..Len(text) /\ (i + 1) - 1 = i
      BY <1>3
    <2> QED
      BY <1>3, <2>1 DEF BlockEnds
  <1> QED
    BY <1>1, <1>2, <1>3, LeastIs

LEMMA RestOfLine ==
    ASSUME NEW text \in Seq(Runes), NEW i \in 1..(Len(text) + 1)
    PROVE  /\ LineEnds(text, i) # {}
           /\ i <= Len(text) /\ text[i] # "\n" => LineEnds(text, i) = LineEnds(text, i + 1)
           /\ i <= Len(text) /\ text[i] = "\n" => Min(LineEnds(text, i)) = i - 1
           /\ i = Len(text) + 1 => Min(LineEnds(text, i)) = i - 1
  <1>1. LineEnds(text, i) \in SUBSET Nat
    BY DEF LineEnds
  <1>2. Len(text) \in LineEnds(text, i)
    BY DEF LineEnds
  <1>3. i <= Len(text) /\ text[i] # "\n" => LineEnds(text, i) = LineEnds(text, i + 1)
    BY DEF LineEnds
  <1>4. ASSUME i = Len(text) + 1 \/ text[i] = "\n"
        PROVE  i - 1 \in LineEnds(text, i) /\ \A j \in LineEnds(text, i) : i - 1 <= j
    BY <1>4 DEF LineEnds
  <1> QED
    BY <1>1, <1>2, <1>3, <1>4, LeastIs

(* A rune that begins nothing is a token of its own.                        *)
LEMMA SingleRune ==
    ASSUME NEW text \in Seq(Runes), NEW i \in 1..Len(text),
           text[i] # "'", ~CommentAt(text, i)
    PROVE  TokenEnds(text, i) = {i} /\ Min(TokenEnds(text, i)) = i
  <1>1. TokenEnds(text, i) = {i}
    BY DEF TokenEnds
  <1> QED
    BY <1>1, LeastIs

LEMMA Associates ==
    \A a, b, c \in Seq(Runes) : (a \o b) \o c = a \o (b \o c)
  <1> SUFFICES ASSUME NEW a \in Seq(Runes), NEW b \in Seq(Runes), NEW c \in Seq(Runes)
               PROVE  (a \o b) \o c = a \o (b \o c)
    OBVIOUS
  <1> QED
    BY ConcatAssociative

(* What is kept in two parts is kept.                                       *)
LEMMA Joined ==
    ASSUME NEW text \in Seq(Runes), NEW begun \in Seq(Runes),
           NEW i \in 1..(Len(text) + 1), NEW k \in (i - 1)..Len(text),
           NEW n \in k..Len(text)
    PROVE  (begun \o SubSeq(text, i, k)) \o SubSeq(text, k + 1, n)
           = begun \o SubSeq(text, i, n)
  <1> DEFINE first == SubSeq(text, i, k)
             second == SubSeq(text, k + 1, n)
  <1>1. first \in Seq(Runes) /\ second \in Seq(Runes)
    <2>1. \A l \in i..k : text[l] \in Runes
      BY ElementOfSeq
    <2>2. \A l \in (k + 1)..n : text[l] \in Runes
      BY ElementOfSeq
    <2> QED
      BY <2>1, <2>2, SubSeqProperties
  <1>2. first \o second = SubSeq(text, i, n)
    BY ConcatAdjacentSubSeq
  <1>3. (begun \o first) \o second = begun \o (first \o second)
    BY <1>1, Associates, Zenon
  <1> QED
    BY <1>2, <1>3, Zenon

LEMMA JoinedAfterOne ==
    ASSUME NEW text \in Seq(Runes), NEW begun \in Seq(Runes),
           NEW i \in 1..Len(text), NEW n \in i..Len(text)
    PROVE  (begun \o SubSeq(text, i, i)) \o SubSeq(text, i + 1, n)
           = begun \o SubSeq(text, i, n)
  <1>1. i \in 1..(Len(text) + 1) /\ i \in (i - 1)..Len(text)
    OBVIOUS
  <1> QED
    BY <1>1, Joined, Zenon

LEMMA JoinedAfterTwo ==
    ASSUME NEW text \in Seq(Runes), NEW begun \in Seq(Runes),
           NEW i \in 1..Len(text), NEW n \in (i + 1)..Len(text)
    PROVE  (begun \o SubSeq(text, i, i + 1)) \o SubSeq(text, i + 2, n)
           = begun \o SubSeq(text, i, n)
  <1>1. i \in 1..(Len(text) + 1) /\ i + 1 \in (i - 1)..Len(text)
    OBVIOUS
  <1>2. (i + 1) + 1 = i + 2
    OBVIOUS
  <1>3. (begun \o SubSeq(text, i, i + 1)) \o SubSeq(text, (i + 1) + 1, n)
        = begun \o SubSeq(text, i, n)
    BY <1>1, Joined, Zenon
  <1> QED
    BY <1>2, <1>3, Zenon

(* The two modules mean the same by the tokens of a text.                   *)
LEMMA SameTokens ==
    /\ \A text, i : Tokens!TokenEnds(text, i) = TokenEnds(text, i)
    /\ \A text, i : Tokens!CommentAt(text, i) = CommentAt(text, i)
    /\ \A found, text : Tokens!With(found, text) = With(found, text)
    /\ \A S : Tokens!Min(S) = Min(S)
    /\ Tokens!Separator = Separator
  BY DEF Tokens!TokenEnds, TokenEnds, Tokens!CommentAt, CommentAt,
         Tokens!StringEnds, StringEnds, Tokens!BlockEnds, BlockEnds,
         Tokens!LineEnds, LineEnds, Tokens!With, With, Tokens!TrimSpace, TrimSpace,
         Tokens!Separator, Separator, Tokens!Blank, Blank, Tokens!Min, Min, Tokens!Max, Max
-----------------------------------------------------------------------------
LEMMA InvHolds == Spec => []Inv
  <1>1. Init => Inv
    BY DEF Init, Inv, Modes
  <1>2. Inv /\ [Next]_vars => Inv'
    <2> SUFFICES ASSUME Inv, [Next]_vars PROVE Inv'
      OBVIOUS
    <2> USE DEF Inv, Modes
    <2>1. content \in Seq(Runes)
      OBVIOUS
    <2>2. ASSUME NEW n \in 1..2, at + n - 1 <= Len(content), Keep(n)
          PROVE  at' \in 1..(Len(content) + 1) /\ current' \in Seq(Runes)
      <3>1. \A l \in at..(at + n - 1) : content[l] \in Runes
        BY <2>1, <2>2, ElementOfSeq
      <3>2. SubSeq(content, at, at + n - 1) \in Seq(Runes)
        BY <3>1, SubSeqProperties
      <3>3. current' \in Seq(Runes)
        BY <2>2, <3>2, ConcatProperties DEF Keep
      <3> QED
        BY <2>1, <2>2, <3>3 DEF Keep
    <2>3. CASE InLine /\ UNCHANGED content
      BY <2>1, <2>2, <2>3 DEF InLine, More, Drop
    <2>4. CASE InBlock /\ UNCHANGED content
      BY <2>1, <2>4 DEF InBlock, More, Pair, Drop
    <2>5. CASE OpenComment /\ UNCHANGED content
      BY <2>1, <2>5 DEF OpenComment, Opens, Pair, Drop
    <2>6. CASE Quote /\ UNCHANGED content
      BY <2>1, <2>2, <2>6 DEF Quote, More, Pair
    <2>7. CASE EndStatement /\ UNCHANGED content
      <3>1. current' = <<>> /\ at' = at + 1 /\ at <= Len(content)
        BY <2>7 DEF EndStatement, More
      <3>2. mode' = mode /\ content' = content
        BY <2>7 DEF EndStatement
      <3> QED
        BY <2>1, <3>1, <3>2
    <2>8. CASE Text /\ UNCHANGED content
      <3>1. Keep(1) /\ at <= Len(content) /\ mode' = mode /\ content' = content
        BY <2>8 DEF Text, More
      <3>2. 1 \in 1..2 /\ at + 1 - 1 <= Len(content)
        BY <2>1, <3>1
      <3> QED
        BY <2>1, <2>2, <3>1, <3>2
    <2>9. CASE Finish /\ UNCHANGED content
      BY <2>9 DEF Finish
    <2>10. CASE UNCHANGED vars
      BY <2>10 DEF vars
    <2> QED
      BY <2>3, <2>4, <2>5, <2>6, <2>7, <2>8, <2>9, <2>10 DEF Next
  <1> QED
    BY <1>1, <1>2, PTL DEF Spec

-----------------------------------------------------------------------------
(* What the tokens see of the scanner, by its mode.                         *)
LEMMA BetweenTokens ==
    Inv /\ mode \in {"code", "split"} =>
        /\ TokenAt = at /\ TokenCurrent = current
        /\ Outcome = IF mode = "split" THEN "split" ELSE "open"
  <1> SUFFICES ASSUME Inv, mode \in {"code", "split"}
               PROVE  /\ TokenAt = at /\ TokenCurrent = current
                      /\ Outcome = IF mode = "split" THEN "split" ELSE "open"
    OBVIOUS
  <1>1. at \in Nat /\ at - 1 \in Nat /\ RestEnds = {at - 1}
    BY DEF Inv, RestEnds
  <1>2. Min(RestEnds) = at - 1
    BY <1>1, LeastIs
  <1>3. ~Lost
    BY <1>1 DEF Lost
  <1> QED
    BY <1>1, <1>2, <1>3 DEF TokenAt, TokenCurrent, Outcome

LEMMA InALine ==
    Inv /\ mode = "line" =>
        /\ TokenAt = Min(LineEnds(content, at)) + 1
        /\ TokenCurrent = current /\ Outcome = "open"
  <1> SUFFICES ASSUME Inv, mode = "line"
               PROVE  /\ TokenAt = Min(LineEnds(content, at)) + 1
                      /\ TokenCurrent = current /\ Outcome = "open"
    OBVIOUS
  <1>1. RestEnds = LineEnds(content, at) /\ RestEnds # {}
    BY RestOfLine DEF Inv, RestEnds
  <1> QED
    BY <1>1 DEF Lost, TokenAt, TokenCurrent, Outcome

LEMMA InABlock ==
    mode = "block" /\ BlockEnds(content, at) # {} =>
        /\ TokenAt = Min(BlockEnds(content, at)) + 1
        /\ TokenCurrent = current /\ Outcome = "open"
  BY DEF RestEnds, Lost, TokenAt, TokenCurrent, Outcome

LEMMA InAString ==
    mode = "string" /\ StringEnds(content, at) # {} =>
        /\ TokenAt = Min(StringEnds(content, at)) + 1
        /\ TokenCurrent = current \o SubSeq(content, at, Min(StringEnds(content, at)))
        /\ Outcome = "open"
  BY DEF RestEnds, Lost, TokenAt, TokenCurrent, Outcome

LEMMA LostOne ==
    \/ mode = "error"
    \/ mode = "block" /\ BlockEnds(content, at) = {}
    \/ mode = "string" /\ StringEnds(content, at) = {}
    => TokenAt = Len(content) + 1 /\ TokenCurrent = <<>> /\ Outcome = "error"
  BY DEF RestEnds, Lost, TokenAt, TokenCurrent, Outcome

(* The same of the state after a step.                                      *)
LEMMA BetweenTokensNext ==
    Inv' /\ mode' \in {"code", "split"} =>
        /\ TokenAt' = at' /\ TokenCurrent' = current'
        /\ Outcome' = IF mode' = "split" THEN "split" ELSE "open"
  <1>1. (Inv /\ mode \in {"code", "split"} =>
            /\ TokenAt = at /\ TokenCurrent = current
            /\ Outcome = IF mode = "split" THEN "split" ELSE "open")'
    BY BetweenTokens, PTL
  <1> QED
    BY <1>1

LEMMA InALineNext ==
    Inv' /\ mode' = "line" =>
        /\ TokenAt' = Min(LineEnds(content', at')) + 1
        /\ TokenCurrent' = current' /\ Outcome' = "open"
  <1>1. (Inv /\ mode = "line" =>
            /\ TokenAt = Min(LineEnds(content, at)) + 1
            /\ TokenCurrent = current /\ Outcome = "open")'
    BY InALine, PTL
  <1> QED
    BY <1>1

LEMMA InABlockNext ==
    mode' = "block" /\ BlockEnds(content', at') # {} =>
        /\ TokenAt' = Min(BlockEnds(content', at')) + 1
        /\ TokenCurrent' = current' /\ Outcome' = "open"
  <1>1. (mode = "block" /\ BlockEnds(content, at) # {} =>
            /\ TokenAt = Min(BlockEnds(content, at)) + 1
            /\ TokenCurrent = current /\ Outcome = "open")'
    BY InABlock, PTL
  <1> QED
    BY <1>1

LEMMA InAStringNext ==
    mode' = "string" /\ StringEnds(content', at') # {} =>
        /\ TokenAt' = Min(StringEnds(content', at')) + 1
        /\ TokenCurrent' = current' \o SubSeq(content', at', Min(StringEnds(content', at')))
        /\ Outcome' = "open"
  <1>1. (mode = "string" /\ StringEnds(content, at) # {} =>
            /\ TokenAt = Min(StringEnds(content, at)) + 1
            /\ TokenCurrent = current \o SubSeq(content, at, Min(StringEnds(content, at)))
            /\ Outcome = "open")'
    BY InAString, PTL
  <1> QED
    BY <1>1

LEMMA LostNext ==
    \/ mode' = "error"
    \/ mode' = "block" /\ BlockEnds(content', at') = {}
    \/ mode' = "string" /\ StringEnds(content', at') = {}
    => TokenAt' = Len(content') + 1 /\ TokenCurrent' = <<>> /\ Outcome' = "error"
  <1>1. (\/ mode = "error"
         \/ mode = "block" /\ BlockEnds(content, at) = {}
         \/ mode = "string" /\ StringEnds(content, at) = {}
         => TokenAt = Len(content) + 1 /\ TokenCurrent = <<>> /\ Outcome = "error")'
    BY LostOne, PTL
  <1> QED
    BY <1>1

-----------------------------------------------------------------------------
(* A token that is kept, in the terms of the scanner.                       *)
LEMMA KeepStep ==
    ASSUME NEW i, NEW m,
           TokenAt = i, Outcome = "open", i <= Len(content),
           TokenEnds(content, i) # {}, Min(TokenEnds(content, i)) = m,
           ~CommentAt(content, i), content[i] # Separator,
           TokenAt' = m + 1, Outcome' = "open",
           TokenCurrent' = TokenCurrent \o SubSeq(content, i, m),
           UNCHANGED <<content, statements>>
    PROVE  [Tokens!Next]_(Tokens!vars)
  <1>1. Tokens!Ends # {} /\ Tokens!Min(Tokens!Ends) = m
    BY SameTokens, Zenon DEF Tokens!Ends
  <1>2. Tokens!Read
    BY <1>1, Zenon DEF Tokens!Read
  <1>3. ~Tokens!CommentAt(content, TokenAt)
    BY SameTokens, Zenon
  <1>4. content[TokenAt] # Tokens!Separator
    BY SameTokens, Zenon
  <1>5. Tokens!Keep
    BY <1>1, <1>2, <1>3, <1>4, Zenon DEF Tokens!Keep
  <1> QED
    BY <1>5 DEF Tokens!Next

(* A token that never ends.                                                 *)
LEMMA RefuseStep ==
    ASSUME NEW i, TokenAt = i, Outcome = "open", i <= Len(content),
           TokenEnds(content, i) = {},
           TokenAt' = Len(content) + 1, TokenCurrent' = <<>>, Outcome' = "error",
           UNCHANGED <<content, statements>>
    PROVE  [Tokens!Next]_(Tokens!vars)
  <1>1. Tokens!Ends = {}
    BY SameTokens, Zenon DEF Tokens!Ends
  <1>2. Tokens!Refuse
    BY <1>1, Zenon DEF Tokens!Refuse
  <1> QED
    BY <1>2 DEF Tokens!Next

(* Each step of the scanner is a step of the tokens or none.                *)
LEMMA InLineStep ==
    ASSUME Inv, Inv', InLine, UNCHANGED content
    PROVE  [Tokens!Next]_(Tokens!vars)
  <1>1. /\ content \in Seq(Runes) /\ at \in 1..Len(content)
        /\ mode = "line" /\ statements' = statements
    BY DEF Inv, InLine, More
  <1>2. CASE content[at] = "\n" /\ Keep(1) /\ mode' = "code"
    <2>1. at' = at + 1 /\ current' = current \o SubSeq(content, at, at)
      BY <1>1, <1>2 DEF Keep
    <2>2. TokenAt = at /\ TokenCurrent = current /\ Outcome = "open"
      BY <1>1, <1>2, InALine, RestOfLine
    <2>3. TokenAt' = at + 1 /\ TokenCurrent' = current' /\ Outcome' = "open"
      BY <1>2, <2>1, BetweenTokensNext
    <2>4. /\ ~CommentAt(content, at) /\ content[at] # Separator
          /\ TokenEnds(content, at) # {} /\ Min(TokenEnds(content, at)) = at
      BY <1>1, <1>2, SingleRune, SeparatorIs DEF CommentAt
    <2>5. /\ at <= Len(content) /\ TokenCurrent' = TokenCurrent \o SubSeq(content, at, at)
          /\ UNCHANGED <<content, statements>>
      BY <1>1, <2>1, <2>2, <2>3
    <2> QED
      BY <2>2, <2>3, <2>4, <2>5, KeepStep, Zenon
  <1>3. CASE content[at] # "\n" /\ Drop(1) /\ UNCHANGED mode
    <2>1. LineEnds(content', at') = LineEnds(content, at) /\ current' = current
      BY <1>1, <1>3, RestOfLine DEF Drop
    <2>2. TokenAt' = TokenAt /\ TokenCurrent' = TokenCurrent /\ Outcome' = Outcome
      BY <1>1, <1>3, <2>1, InALine, InALineNext
    <2> QED
      BY <1>1, <2>2 DEF Tokens!vars
  <1> QED
    BY <1>2, <1>3 DEF InLine

LEMMA InBlockStep ==
    ASSUME Inv, Inv', InBlock, UNCHANGED content
    PROVE  [Tokens!Next]_(Tokens!vars)
  <1>1. /\ content \in Seq(Runes) /\ at \in 1..Len(content)
        /\ mode = "block" /\ statements' = statements
    BY DEF Inv, InBlock, More
  <1>2. TokenAt' = TokenAt /\ TokenCurrent' = TokenCurrent /\ Outcome' = Outcome
    <2>1. CASE Pair("*", "/") /\ Drop(2) /\ mode' = "code"
      <3>1. BlockEnds(content, at) # {} /\ Min(BlockEnds(content, at)) = at + 1
        BY <1>1, <2>1, RestOfBlock DEF Pair
      <3>2. at' = at + 2 /\ current' = current
        BY <2>1 DEF Drop
      <3> QED
        BY <1>1, <2>1, <3>1, <3>2, InABlock, BetweenTokensNext
    <2>2. CASE ~Pair("*", "/") /\ Drop(1) /\ UNCHANGED mode
      <3>1. BlockEnds(content', at') = BlockEnds(content, at) /\ current' = current
        BY <1>1, <2>2, RestOfBlock DEF Pair, Drop
      <3>2. CASE BlockEnds(content, at) = {}
        BY <1>1, <2>2, <3>1, <3>2, LostOne, LostNext
      <3>3. CASE BlockEnds(content, at) # {}
        BY <1>1, <2>2, <3>1, <3>3, InABlock, InABlockNext
      <3> QED
        BY <3>2, <3>3
    <2> QED
      BY <2>1, <2>2 DEF InBlock
  <1> QED
    BY <1>1, <1>2 DEF Tokens!vars

LEMMA OpenCommentStep ==
    ASSUME Inv, Inv', OpenComment, UNCHANGED content
    PROVE  [Tokens!Next]_(Tokens!vars)
  <1>1. /\ content \in Seq(Runes) /\ at \in 1..Len(content) /\ at < Len(content)
        /\ mode = "code" /\ statements' = statements
        /\ at' = at + 2 /\ current' = current
    BY DEF Inv, OpenComment, Opens, Pair, Drop
  <1>2. TokenAt = at /\ TokenCurrent = current /\ Outcome = "open"
    BY <1>1, BetweenTokens
  <1>3. CommentAt(content, at) /\ content[at] # "'"
    BY <1>1 DEF OpenComment, Opens, Pair, CommentAt
  <1>4. CASE Pair("-", "-")
    <2>1. mode' = "line" /\ content[at] # "/"
      BY <1>4 DEF OpenComment, Pair
    <2>2. TokenEnds(content, at) = LineEnds(content, at')
      BY <1>1, <1>3, <2>1 DEF TokenEnds
    <2>3. TokenEnds(content, at) # {}
      BY <1>1, <2>2, RestOfLine DEF Inv
    <2>4. /\ TokenAt' = Min(TokenEnds(content, at)) + 1
          /\ TokenCurrent' = current /\ Outcome' = "open"
      BY <1>1, <2>1, <2>2, InALineNext
    <2>5. Tokens!SkipComment
      BY <1>1, <1>2, <1>3, <2>3, <2>4, SameTokens
      DEF Tokens!SkipComment, Tokens!Read, Tokens!Ends
    <2> QED
      BY <2>5 DEF Tokens!Next
  <1>5. CASE ~Pair("-", "-")
    <2>1. mode' = "block" /\ content[at] = "/"
      BY <1>5 DEF OpenComment, Opens, Pair
    <2>2. TokenEnds(content, at) = BlockEnds(content, at')
      BY <1>1, <1>3, <2>1 DEF TokenEnds
    <2>3. CASE TokenEnds(content, at) = {}
      <3>1. TokenAt' = Len(content) + 1 /\ TokenCurrent' = <<>> /\ Outcome' = "error"
        BY <2>1, <2>2, <2>3, LostNext
      <3> QED
        BY <1>1, <1>2, <2>3, <3>1, RefuseStep
    <2>4. CASE TokenEnds(content, at) # {}
      <3>1. /\ TokenAt' = Min(TokenEnds(content, at)) + 1
            /\ TokenCurrent' = current /\ Outcome' = "open"
        BY <1>1, <2>1, <2>2, <2>4, InABlockNext
      <3>2. Tokens!SkipComment
        BY <1>1, <1>2, <1>3, <2>4, <3>1, SameTokens
        DEF Tokens!SkipComment, Tokens!Read, Tokens!Ends
      <3> QED
        BY <3>2 DEF Tokens!Next
    <2> QED
      BY <2>3, <2>4
  <1> QED
    BY <1>4, <1>5

LEMMA QuoteStep ==
    ASSUME Inv, Inv', Quote, UNCHANGED content
    PROVE  [Tokens!Next]_(Tokens!vars)
  <1>1. /\ content \in Seq(Runes) /\ at \in 1..Len(content) /\ content[at] = "'"
        /\ current \in Seq(Runes) /\ statements' = statements
    BY DEF Inv, Quote, More
  (* A quote inside a string ends it, and the second of two begins another. *)
  <1>2. ASSUME mode = "string"
        PROVE  /\ TokenAt = at + 1 /\ Outcome = "open"
               /\ TokenCurrent = current \o SubSeq(content, at, at)
    BY <1>1, <1>2, RestOfString, InAString
  <1>3. CASE mode = "string" /\ Pair("'", "'") /\ Keep(2) /\ UNCHANGED mode
    <2>1. /\ at + 1 \in 1..Len(content) /\ content[at + 1] = "'"
          /\ at' = at + 2 /\ current' = current \o SubSeq(content, at, at + 1)
      BY <1>1, <1>3 DEF Pair, Keep
    <2>2. /\ TokenEnds(content, at + 1) = StringEnds(content, at')
          /\ ~CommentAt(content, at + 1) /\ content[at + 1] # Separator
      BY <1>1, <2>1, SeparatorIs DEF TokenEnds, CommentAt
    <2>3. CASE TokenEnds(content, at + 1) = {}
      <3>1. TokenAt' = Len(content) + 1 /\ TokenCurrent' = <<>> /\ Outcome' = "error"
        BY <1>3, <2>2, <2>3, LostNext
      <3>2. at + 1 <= Len(content) /\ UNCHANGED <<content, statements>>
        BY <1>1, <2>1
      <3> QED
        BY <1>2, <1>3, <2>3, <3>1, <3>2, RefuseStep, Zenon
    <2>4. CASE TokenEnds(content, at + 1) # {}
      <3> DEFINE m == Min(TokenEnds(content, at + 1))
      <3>1. m \in (at + 2)..Len(content)
        <4>1. at + 2 \in Nat \ {0} /\ m = Min(StringEnds(content, at + 2))
          BY <1>1, <2>1, <2>2
        <4> QED
          BY <1>1, <2>1, <2>2, <2>4, <4>1, StringEndsAfter
      <3>2. /\ TokenAt' = m + 1 /\ Outcome' = "open"
            /\ TokenCurrent' = current' \o SubSeq(content, at + 2, m)
        BY <1>3, <2>1, <2>2, <2>4, InAStringNext
      <3> HIDE DEF m
      <3>3. (current \o SubSeq(content, at, at)) \o SubSeq(content, at + 1, m)
            = current \o SubSeq(content, at, m)
        <4>1. m \in at..Len(content)
          BY <1>1, <3>1
        <4> QED
          BY <1>1, <4>1, JoinedAfterOne, Zenon
      <3>4. (current \o SubSeq(content, at, at + 1)) \o SubSeq(content, at + 2, m)
            = current \o SubSeq(content, at, m)
        <4>1. m \in (at + 1)..Len(content)
          BY <1>1, <3>1
        <4> QED
          BY <1>1, <4>1, JoinedAfterTwo, Zenon
      <3>5. TokenCurrent' = TokenCurrent \o SubSeq(content, at + 1, m)
        BY <1>2, <1>3, <2>1, <3>2, <3>3, <3>4, Zenon
      <3>6. at + 1 <= Len(content) /\ UNCHANGED <<content, statements>>
        BY <1>1, <2>1
      <3> QED
        BY <1>2, <1>3, <2>2, <2>4, <3>2, <3>5, <3>6, KeepStep, Zenon DEF m
    <2> QED
      BY <2>3, <2>4
  <1>4. CASE mode = "string" /\ ~Pair("'", "'") /\ Keep(1) /\ mode' = "code"
    <2>1. at' = at + 1 /\ current' = current \o SubSeq(content, at, at)
      BY <1>1, <1>4 DEF Keep
    <2>2. TokenAt' = TokenAt /\ TokenCurrent' = TokenCurrent /\ Outcome' = Outcome
      BY <1>2, <1>4, <2>1, BetweenTokensNext
    <2> QED
      BY <1>1, <2>2 DEF Tokens!vars
  <1>5. CASE mode = "code" /\ Keep(1) /\ mode' = "string"
    <2>1. at' = at + 1 /\ current' = current \o SubSeq(content, at, at)
      BY <1>1, <1>5 DEF Keep
    <2>2. TokenAt = at /\ TokenCurrent = current /\ Outcome = "open"
      BY <1>5, BetweenTokens
    <2>3. /\ TokenEnds(content, at) = StringEnds(content, at')
          /\ ~CommentAt(content, at) /\ content[at] # Separator
      BY <1>1, <2>1, SeparatorIs DEF TokenEnds, CommentAt
    <2>4. CASE TokenEnds(content, at) = {}
      <3>1. TokenAt' = Len(content) + 1 /\ TokenCurrent' = <<>> /\ Outcome' = "error"
        BY <1>5, <2>3, <2>4, LostNext
      <3>2. at <= Len(content) /\ UNCHANGED <<content, statements>>
        BY <1>1
      <3> QED
        BY <2>2, <2>4, <3>1, <3>2, RefuseStep, Zenon
    <2>5. CASE TokenEnds(content, at) # {}
      <3> DEFINE m == Min(TokenEnds(content, at))
      <3>1. m \in (at + 1)..Len(content)
        <4>1. at + 1 \in Nat \ {0} /\ m = Min(StringEnds(content, at + 1))
          BY <1>1, <2>1, <2>3
        <4> QED
          BY <1>1, <2>1, <2>3, <2>5, <4>1, StringEndsAfter
      <3>2. /\ TokenAt' = m + 1 /\ Outcome' = "open"
            /\ TokenCurrent' = current' \o SubSeq(content, at + 1, m)
        BY <1>5, <2>1, <2>3, <2>5, InAStringNext
      <3> HIDE DEF m
      <3>3. (current \o SubSeq(content, at, at)) \o SubSeq(content, at + 1, m)
            = current \o SubSeq(content, at, m)
        <4>1. m \in at..Len(content)
          BY <1>1, <3>1
        <4> QED
          BY <1>1, <4>1, JoinedAfterOne, Zenon
      <3>4. TokenCurrent' = TokenCurrent \o SubSeq(content, at, m)
        BY <2>1, <2>2, <3>2, <3>3, Zenon
      <3>5. at <= Len(content) /\ UNCHANGED <<content, statements>>
        BY <1>1
      <3> QED
        BY <2>2, <2>3, <2>5, <3>2, <3>4, <3>5, KeepStep, Zenon DEF m
    <2> QED
      BY <2>4, <2>5
  <1> QED
    BY <1>3, <1>4, <1>5 DEF Quote

LEMMA EndStatementStep ==
    ASSUME Inv, Inv', EndStatement, UNCHANGED content
    PROVE  [Tokens!Next]_(Tokens!vars)
  <1>1. /\ content[at] = Separator /\ mode = "code" /\ mode' = "code" /\ at <= Len(content)
        /\ at' = at + 1 /\ current' = <<>>
    BY Zenon DEF EndStatement, More
  <1>2. content \in Seq(Runes) /\ at \in 1..Len(content)
    <2>1. at <= Len(content)
      BY <1>1
    <2> QED
      BY <2>1 DEF Inv
  <1>3. TokenAt = at /\ TokenCurrent = current /\ Outcome = "open"
    BY <1>1, BetweenTokens
  <1>4. TokenAt' = at + 1 /\ TokenCurrent' = <<>> /\ Outcome' = "open"
    BY <1>1, BetweenTokensNext
  <1>5. TokenEnds(content, at) # {} /\ Min(TokenEnds(content, at)) = at
    BY <1>1, <1>2, SingleRune, SeparatorIs DEF CommentAt
  <1>6. Tokens!Ends # {} /\ Tokens!Min(Tokens!Ends) = at
    BY <1>3, <1>5, SameTokens, Zenon DEF Tokens!Ends
  <1>7. Tokens!Read
    BY <1>1, <1>3, <1>4, <1>6, Zenon DEF Tokens!Read
  <1>8. statements' = Tokens!With(statements, TokenCurrent)
    BY <1>3, SameTokens, Zenon DEF EndStatement
  <1>9. Tokens!EndStatement
    BY <1>1, <1>3, <1>4, <1>7, <1>8, SameTokens, Zenon DEF Tokens!EndStatement
  <1> QED
    BY <1>9 DEF Tokens!Next

LEMMA TextStep ==
    ASSUME Inv, Inv', Text, UNCHANGED content
    PROVE  [Tokens!Next]_(Tokens!vars)
  <1>1. /\ content \in Seq(Runes) /\ at \in 1..Len(content) /\ content[at] # "'"
        /\ current \in Seq(Runes) /\ mode' = mode /\ statements' = statements
        /\ at' = at + 1 /\ current' = current \o SubSeq(content, at, at)
    <2>1. /\ content[at] # "'" /\ mode' = mode /\ statements' = statements
          /\ at <= Len(content) /\ Keep(1)
      BY DEF Text, More
    <2>2. content \in Seq(Runes) /\ at \in 1..Len(content) /\ current \in Seq(Runes)
      BY <2>1 DEF Inv
    <2>3. at' = at + 1 /\ current' = current \o SubSeq(content, at, at)
      BY <2>1, <2>2 DEF Keep
    <2> QED
      BY <2>1, <2>2, <2>3, Zenon
  <1>2. CASE mode = "string"
    <2>1. StringEnds(content', at') = StringEnds(content, at)
      BY <1>1, RestOfString
    <2>2. CASE StringEnds(content, at) = {}
      <3>1. TokenAt' = TokenAt /\ TokenCurrent' = TokenCurrent /\ Outcome' = Outcome
        BY <1>1, <1>2, <2>1, <2>2, LostOne, LostNext
      <3> QED
        BY <1>1, <3>1 DEF Tokens!vars
    <2>3. CASE StringEnds(content, at) # {}
      <3> DEFINE m == Min(StringEnds(content, at))
      <3>1. m \in (at + 1)..Len(content)
        <4>1. StringEnds(content, at) = StringEnds(content, at + 1)
          BY <1>1, RestOfString
        <4> QED
          BY <1>1, <2>3, <4>1, StringEndsAfter
      <3>2. /\ TokenAt = m + 1 /\ Outcome = "open"
            /\ TokenCurrent = current \o SubSeq(content, at, m)
        BY <1>2, <2>3, InAString
      <3>3. /\ TokenAt' = m + 1 /\ Outcome' = "open"
            /\ TokenCurrent' = current' \o SubSeq(content, at + 1, m)
        BY <1>1, <1>2, <2>1, <2>3, InAStringNext
      <3> HIDE DEF m
      <3>4. (current \o SubSeq(content, at, at)) \o SubSeq(content, at + 1, m)
            = current \o SubSeq(content, at, m)
        <4>1. m \in at..Len(content)
          BY <1>1, <3>1
        <4> QED
          BY <1>1, <4>1, JoinedAfterOne, Zenon
      <3>5. TokenCurrent' = TokenCurrent
        BY <1>1, <3>2, <3>3, <3>4, Zenon
      <3> QED
        BY <1>1, <3>2, <3>3, <3>5 DEF Tokens!vars
    <2> QED
      BY <2>2, <2>3
  <1>3. CASE mode = "code" /\ ~Opens /\ content[at] # Separator
    <2>1. TokenAt = at /\ TokenCurrent = current /\ Outcome = "open"
      BY <1>3, BetweenTokens
    <2>2. TokenAt' = at + 1 /\ TokenCurrent' = current' /\ Outcome' = "open"
      BY <1>1, <1>3, BetweenTokensNext
    <2>3. ~CommentAt(content, at)
      BY <1>3 DEF Opens, Pair, CommentAt
    <2>4. TokenEnds(content, at) # {} /\ Min(TokenEnds(content, at)) = at
      BY <1>1, <2>3, SingleRune
    <2>5. /\ at <= Len(content) /\ TokenCurrent' = TokenCurrent \o SubSeq(content, at, at)
          /\ UNCHANGED <<content, statements>>
      BY <1>1, <2>1, <2>2
    <2> QED
      BY <1>3, <2>1, <2>2, <2>3, <2>4, <2>5, KeepStep, Zenon
  <1> QED
    BY <1>2, <1>3 DEF Text

LEMMA FinishStep ==
    ASSUME Inv, Inv', Finish, UNCHANGED content
    PROVE  [Tokens!Next]_(Tokens!vars)
  <1>1. /\ content \in Seq(Runes) /\ at = Len(content) + 1 /\ at \in Nat
        /\ at' = at /\ current' = current
    BY DEF Inv, Finish, More
  <1>2. CASE mode \in {"string", "block"} /\ mode' = "error" /\ UNCHANGED statements
    <2>1. StringEnds(content, at) = {} /\ BlockEnds(content, at) = {}
      BY <1>1 DEF StringEnds, BlockEnds
    <2>2. TokenAt' = TokenAt /\ TokenCurrent' = TokenCurrent /\ Outcome' = Outcome
      BY <1>2, <2>1, LostOne, LostNext
    <2> QED
      BY <1>2, <2>2 DEF Tokens!vars
  <1>3. CASE /\ mode \in {"code", "line"} /\ mode' = "split"
             /\ statements' = With(statements, current)
    <2>1. TokenAt = at /\ TokenCurrent = current /\ Outcome = "open"
      <3>1. CASE mode = "code"
        BY <3>1, BetweenTokens
      <3>2. CASE mode = "line"
        BY <1>1, <3>2, InALine, RestOfLine
      <3> QED
        BY <1>3, <3>1, <3>2
    <2>2. TokenAt' = at /\ TokenCurrent' = current /\ Outcome' = "split"
      BY <1>1, <1>3, BetweenTokensNext
    <2>3. statements' = Tokens!With(statements, TokenCurrent)
      BY <1>3, <2>1, SameTokens, Zenon
    <2>4. Tokens!Finish
      BY <1>1, <2>1, <2>2, <2>3 DEF Tokens!Finish
    <2> QED
      BY <2>4 DEF Tokens!Next
  <1> QED
    BY <1>2, <1>3 DEF Finish

-----------------------------------------------------------------------------
(* The scanner implements the tokens: for files of any length, over any     *)
(* runes, it never begins a string or comment that is not one, never leaves *)
(* one too early or too late, hands out each statement as its separator is  *)
(* read, and refuses just the files with a token that never ends.           *)
THEOREM TokenRefinement == Spec => ImplementsTokens
  <1>1. Init /\ Inv => Tokens!Init
    BY BetweenTokens DEF Init, Tokens!Init
  <1>2. Inv /\ Inv' /\ [Next]_vars => [Tokens!Next]_(Tokens!vars)
    <2> SUFFICES ASSUME Inv, Inv', [Next]_vars PROVE [Tokens!Next]_(Tokens!vars)
      OBVIOUS
    <2>1. CASE UNCHANGED vars
      <3>1. TokenAt' = TokenAt /\ TokenCurrent' = TokenCurrent /\ Outcome' = Outcome
        BY <2>1 DEF vars, TokenAt, TokenCurrent, Outcome, Lost, RestEnds
      <3> QED
        BY <2>1, <3>1 DEF vars, Tokens!vars
    <2> QED
      BY <2>1, InLineStep, InBlockStep, OpenCommentStep, QuoteStep, EndStatementStep,
         TextStep, FinishStep DEF Next
  <1> QED
    BY <1>1, <1>2, InvHolds, PTL DEF Spec, ImplementsTokens, Tokens!Spec

-----------------------------------------------------------------------------
LEMMA SameText ==
    /\ \A text : Proved!Terminated(text) <=> Terminated(text)
    /\ \A text : Proved!StatementsOf(text) = StatementsOf(text)
  <1>1. /\ Proved!Separator = Separator
        /\ \A S : Proved!Min(S) = Min(S)
        /\ \A text : Proved!TrimSpace(text) = TrimSpace(text)
    BY Zenon DEF Proved!Separator, Separator, Proved!TrimSpace, TrimSpace,
         Proved!Blank, Blank, Proved!Min, Min, Proved!Max, Max
  <1>2. /\ \A text, i : Proved!CommentAt(text, i) <=> CommentAt(text, i)
        /\ \A text, i : Proved!TokenEnds(text, i) = TokenEnds(text, i)
    BY DEF Proved!TokenEnds, TokenEnds, Proved!LineEnds, LineEnds,
         Proved!BlockEnds, BlockEnds, Proved!StringEnds, StringEnds,
         Proved!CommentAt, CommentAt
  <1>3. \A text, i : Proved!After(text, i) = After(text, i)
    BY <1>1, <1>2, Zenon DEF Proved!After, After
  <1>4. \A text : Proved!TokenStarts(text) = TokenStarts(text)
    BY <1>3, Zenon DEF Proved!TokenStarts, TokenStarts
  <1>5. \A text : Proved!Kept(text) = Kept(text)
    BY <1>1, <1>2, <1>4, Zenon DEF Proved!Kept, Kept
  <1>6. \A text : Proved!Cuts(text) = Cuts(text)
    BY <1>1, <1>4, Zenon DEF Proved!Cuts, Cuts
  <1>7. /\ \A f, places : Proved!Listed(f, places) = Listed(f, places)
        /\ \A kept, cuts, k : Proved!Between(kept, cuts, k) = Between(kept, cuts, k)
    BY Zenon DEF Proved!Listed, Listed, Proved!InOrder, InOrder,
         Proved!Cardinality, Cardinality, Proved!Between, Between
  <1>8. \A text, i : Proved!StatementsBefore(text, i) = StatementsBefore(text, i)
    BY <1>1, <1>5, <1>6, <1>7, Zenon DEF Proved!StatementsBefore, StatementsBefore
  <1>9. \A text : Proved!StatementsOf(text) = StatementsOf(text)
    BY <1>8, Zenon DEF Proved!StatementsOf, StatementsOf
  <1>10. \A text : Proved!Terminated(text) <=> Terminated(text)
    BY <1>2, <1>4, Zenon DEF Proved!Terminated, Terminated
  <1> QED
    BY <1>9, <1>10

LEMMA SameSpec ==
    /\ Tokens!Init <=> Proved!Init
    /\ [Tokens!Next]_(Tokens!vars) <=> [Proved!Next]_(Proved!vars)
  <1>1. \A text, i : Proved!TokenEnds(text, i) = Tokens!TokenEnds(text, i)
    BY DEF Tokens!TokenEnds, Proved!TokenEnds, Tokens!CommentAt, Proved!CommentAt,
         Tokens!StringEnds, Proved!StringEnds, Tokens!BlockEnds, Proved!BlockEnds,
         Tokens!LineEnds, Proved!LineEnds
  <1>2. /\ \A text, i : Proved!CommentAt(text, i) = Tokens!CommentAt(text, i)
        /\ \A found, text : Proved!With(found, text) = Tokens!With(found, text)
        /\ \A S : Proved!Min(S) = Tokens!Min(S)
        /\ Proved!Separator = Tokens!Separator
    BY DEF Tokens!CommentAt, Proved!CommentAt, Tokens!With, Proved!With,
         Tokens!TrimSpace, Proved!TrimSpace, Tokens!Blank, Proved!Blank,
         Tokens!Min, Proved!Min, Tokens!Max, Proved!Max,
         Tokens!Separator, Proved!Separator
  <1>3. Proved!Ends = Tokens!Ends
    BY <1>1, Zenon DEF Tokens!Ends, Proved!Ends
  <1>4. Proved!Read <=> Tokens!Read
    BY <1>2, <1>3, Zenon DEF Tokens!Read, Proved!Read
  <1>5. /\ Proved!SkipComment <=> Tokens!SkipComment
        /\ Proved!EndStatement <=> Tokens!EndStatement
    BY <1>2, <1>4, Zenon DEF Tokens!SkipComment, Proved!SkipComment,
         Tokens!EndStatement, Proved!EndStatement
  <1>6. Proved!Keep <=> Tokens!Keep
    BY <1>2, <1>3, <1>4, Zenon DEF Tokens!Keep, Proved!Keep
  <1>7. /\ Proved!Refuse <=> Tokens!Refuse
        /\ Proved!Finish <=> Tokens!Finish
    BY <1>2, <1>3, Zenon DEF Tokens!Refuse, Proved!Refuse, Tokens!Finish, Proved!Finish
  <1>8. Tokens!Init <=> Proved!Init
    BY DEF Tokens!Init, Proved!Init
  <1>9. Tokens!Next <=> Proved!Next
    BY <1>5, <1>6, <1>7, Zenon DEF Tokens!Next, Proved!Next
  <1> QED
    BY <1>8, <1>9 DEF Tokens!vars, Proved!vars

(* A migration file of any length, over any runes, is split into just the   *)
(* statements that its tokens make up, and one with a string or a block     *)
(* comment that never ends is refused, and no other is.                     *)
THEOREM ScannerSplits == Spec => []SplitsByTokens
  <1>1. Spec => Proved!Spec
    BY TokenRefinement, SameSpec, PTL DEF ImplementsTokens, Tokens!Spec, Proved!Spec
  <1>2. Proved!Spec => []Proved!SplitsAsMeant
    BY Proved!TokensSplit
  <1>3. Inv /\ Proved!SplitsAsMeant => SplitsByTokens
    <2>1. Inv /\ mode = "split" => Outcome = "split"
      BY BetweenTokens
    <2>2. mode = "error" => Outcome = "error"
      BY LostOne
    <2> QED
      BY <2>1, <2>2, SameText, Zenon DEF Proved!SplitsAsMeant, SplitsByTokens
  <1> QED
    BY <1>1, <1>2, <1>3, InvHolds, PTL
=============================================================================
