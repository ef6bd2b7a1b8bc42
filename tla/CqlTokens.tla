----------------------------- MODULE CqlTokens -----------------------------
(***************************************************************************)
(* What splitCQLStatements promises, token by token: comments are skipped, *)
(* separators end a statement, everything else is kept, and a file with a  *)
(* token that never ends is refused where that token begins.               *)
(***************************************************************************)
EXTENDS CqlText

VARIABLES content,     \* the file
          at,          \* the place where the next token begins
          current,     \* the statement being collected
          statements,  \* the statements found
          outcome      \* open, split or error

vars == <<content, at, current, statements, outcome>>

Init ==
    /\ content \in Contents
    /\ at = 1
    /\ current = <<>> /\ statements = <<>>
    /\ outcome = "open"

Ends == TokenEnds(content, at)

(* The next token, which ends, has been read.                               *)
Read ==
    /\ outcome = "open" /\ at <= Len(content) /\ Ends # {}
    /\ at' = Min(Ends) + 1
    /\ UNCHANGED <<content, outcome>>

SkipComment == Read /\ CommentAt(content, at) /\ UNCHANGED <<current, statements>>

EndStatement ==
    /\ Read /\ content[at] = Separator
    /\ statements' = With(statements, current)
    /\ current' = <<>>

Keep ==
    /\ Read /\ ~CommentAt(content, at) /\ content[at] # Separator
    /\ current' = current \o SubSeq(content, at, Min(Ends))
    /\ UNCHANGED statements

Refuse ==
    /\ outcome = "open" /\ at <= Len(content) /\ Ends = {}
    /\ outcome' = "error" /\ at' = Len(content) + 1 /\ current' = <<>>
    /\ UNCHANGED <<content, statements>>

Finish ==
    /\ outcome = "open" /\ at > Len(content)
    /\ outcome' = "split" /\ statements' = With(statements, current)
    /\ UNCHANGED <<content, at, current>>

Next == SkipComment \/ EndStatement \/ Keep \/ Refuse \/ Finish

Spec == Init /\ [][Next]_vars

-----------------------------------------------------------------------------
(* What is split off token by token is what the text means as a whole.      *)
SplitsAsMeant ==
    /\ outcome = "split" => Terminated(content) /\ statements = StatementsOf(content)
    /\ outcome = "error" => ~Terminated(content)
=============================================================================
