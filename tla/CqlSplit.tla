------------------------------ MODULE CqlSplit -----------------------------
(***************************************************************************)
(* splitCQLStatements of internal/migration/migration.go, a scanner of one *)
(* pass that cuts a migration file into the statements to execute.  A step *)
(* is one iteration of its loop.  The flags inSingle, inLine and inBlock   *)
(* exclude each other and are one mode here.                               *)
(***************************************************************************)
EXTENDS CqlText

VARIABLES content,     \* the file
          at,          \* the rune that the next iteration reads
          mode,        \* what it is part of, or how the scan has ended
          current,     \* the statement being collected
          statements   \* the statements found

vars == <<content, at, mode, current, statements>>

Init ==
    /\ content \in Contents
    /\ at = 1
    /\ mode = "code"
    /\ current = <<>> /\ statements = <<>>

-----------------------------------------------------------------------------
More == at <= Len(content)

(* The runes r1 and r2 are next.                                            *)
Pair(r1, r2) == at < Len(content) /\ content[at] = r1 /\ content[at + 1] = r2

(* The next n runes are read, and kept in the current statement or not.     *)
Keep(n) ==
    /\ at' = at + n
    /\ current' = current \o SubSeq(content, at, at + n - 1)

Drop(n) == at' = at + n /\ UNCHANGED current

(* A line comment ends before its newline, which is kept.                   *)
InLine ==
    /\ mode = "line" /\ More
    /\ \/ content[at] = "\n" /\ Keep(1) /\ mode' = "code"
       \/ content[at] # "\n" /\ Drop(1) /\ UNCHANGED mode
    /\ UNCHANGED statements

InBlock ==
    /\ mode = "block" /\ More
    /\ \/ Pair("*", "/") /\ Drop(2) /\ mode' = "code"
       \/ ~Pair("*", "/") /\ Drop(1) /\ UNCHANGED mode
    /\ UNCHANGED statements

Opens == Pair("-", "-") \/ Pair("/", "*")

(* Mutant: the star that opens a comment may close it as well.              *)
OpenCommentHalfRead ==
    /\ mode = "code" /\ Opens
    /\ Drop(1)
    /\ mode' = IF Pair("-", "-") THEN "line" ELSE "block"
    /\ UNCHANGED statements

OpenComment ==
    /\ mode = "code" /\ Opens
    /\ Drop(2)
    /\ mode' = IF Pair("-", "-") THEN "line" ELSE "block"
    /\ UNCHANGED statements

(* Mutant: a doubled quote ends the string.                                 *)
QuoteNotDoubled ==
    /\ mode \in {"code", "string"} /\ More /\ content[at] = "'"
    /\ \/ mode = "string" /\ Pair("'", "'") /\ Keep(2) /\ mode' = "code"
       \/ mode = "string" /\ ~Pair("'", "'") /\ Keep(1) /\ mode' = "code"
       \/ mode = "code" /\ Keep(1) /\ mode' = "string"
    /\ UNCHANGED statements

(* A quote opens or closes a string; inside one, a doubled quote is text.   *)
Quote ==
    /\ mode \in {"code", "string"} /\ More /\ content[at] = "'"
    /\ \/ mode = "string" /\ Pair("'", "'") /\ Keep(2) /\ UNCHANGED mode
       \/ mode = "string" /\ ~Pair("'", "'") /\ Keep(1) /\ mode' = "code"
       \/ mode = "code" /\ Keep(1) /\ mode' = "string"
    /\ UNCHANGED statements

EndStatement ==
    /\ mode = "code" /\ More /\ content[at] = Separator
    /\ statements' = With(statements, current)
    /\ at' = at + 1 /\ current' = <<>>
    /\ UNCHANGED mode

Text ==
    /\ More /\ content[at] # "'"
    /\ \/ mode = "string"
       \/ mode = "code" /\ ~Opens /\ content[at] # Separator
    /\ Keep(1)
    /\ UNCHANGED <<mode, statements>>

(* The end of the file: an error inside a string or a block comment, else   *)
(* what is left is the last statement.                                      *)
Finish ==
    /\ mode \in {"code", "string", "line", "block"} /\ ~More
    /\ \/ /\ mode \in {"string", "block"}
          /\ mode' = "error" /\ UNCHANGED statements
       \/ /\ mode \in {"code", "line"}
          /\ mode' = "split" /\ statements' = With(statements, current)
    /\ UNCHANGED <<at, current>>

Next ==
    /\ InLine \/ InBlock \/ OpenComment \/ Quote \/ EndStatement \/ Text \/ Finish
    /\ UNCHANGED content

Spec == Init /\ [][Next]_vars

-----------------------------------------------------------------------------
(* The scanner agrees with the tokens: no rune of a comment is executed, no *)
(* rune of a statement is lost, no statement is cut in a string or a        *)
(* comment, and exactly the files with an open string or block comment are  *)
(* refused (splitCQLStatements; a wrong cut would leave a version dirty for *)
(* good).                                                                   *)
SplitsByTokens ==
    /\ mode = "split" => Terminated(content) /\ statements = StatementsOf(content)
    /\ mode = "error" => ~Terminated(content)

(* Inside a token the scanner has done what the tokens ask for when it will *)
(* have read the rest of it, and has already failed if there is no end.     *)
RestEnds ==
    CASE mode = "string" -> StringEnds(content, at)
      [] mode = "block"  -> BlockEnds(content, at)
      [] mode = "line"   -> LineEnds(content, at)
      [] OTHER           -> {at - 1}

Lost == mode = "error" \/ RestEnds = {}

TokenAt == IF Lost THEN Len(content) + 1 ELSE Min(RestEnds) + 1

TokenCurrent ==
    IF Lost THEN <<>>
    ELSE IF mode = "string" THEN current \o SubSeq(content, at, Min(RestEnds))
    ELSE current

Outcome == IF Lost THEN "error" ELSE IF mode = "split" THEN "split" ELSE "open"

Tokens == INSTANCE CqlTokens WITH
    at <- TokenAt, current <- TokenCurrent, outcome <- Outcome

(* The scanner, which looks one rune ahead, does at every moment what the   *)
(* tokens say, which are known from where they end: it never begins a       *)
(* string or comment that is not one, never leaves one too early or too     *)
(* late, and hands out each statement when its separator is there.          *)
ImplementsTokens == Tokens!Spec
=============================================================================
