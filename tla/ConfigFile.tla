------------------------------ MODULE ConfigFile ------------------------------
(***************************************************************************)
(* conf.c: try_read_config_file on one file, with get_token, which keeps   *)
(* its line and its place in it between calls, and disallow, which looks   *)
(* two words ahead.                                                        *)
(*                                                                         *)
(* A character is a string of length one; the three words the library      *)
(* knows are single letters here.                                          *)
(***************************************************************************)
EXTENDS Naturals, Sequences

\* Sequences of lines, as fgets cuts them.
CONSTANT Files

VARIABLES
  file,      \* the file, with the lines that fgets has not returned yet
  line,      \* current_line
  at,        \* the place in it
  where,     \* which word is expected next, or the end
  tokens,    \* the tokens returned so far
  had,       \* auxiliary: how many there were when the line was read
  disallow   \* conf.disallow_ppdev

vars == <<file, line, at, where, tokens, had, disallow>>

Ifs == {" ", "\n"}
TokenChars == {"{", "}", "="}
Quotes == {"none", "single", "double"}

DisallowWord == <<"d">>
MethodWord == <<"m">>
PpdevWord == <<"p">>

-----------------------------------------------------------------------------
(* get_token. *)

\* The state of the quotes behind a character that is not escaped.
Quote(q, ch) ==
  CASE ch = "'"  /\ q = "none"   -> "single"
    [] ch = "'"  /\ q = "single" -> "none"
    [] ch = "\"" /\ q = "none"   -> "double"
    [] ch = "\"" /\ q = "double" -> "none"
    [] OTHER                     -> q

Escapes(q, ch) == ch = "\\" /\ q # "single"

BugEnd(l, start) ==
  LET end[i \in Nat] == [q \in Quotes |->
        IF i > Len(l) THEN i
        ELSE IF Escapes(q, l[i]) THEN end[i + 1][q]
        ELSE IF Quote(q, l[i]) = "none" /\ l[i] \in Ifs THEN i
        ELSE IF Quote(q, l[i]) = "none" /\ l[i] \in TokenChars
             THEN IF i = start THEN i + 1 ELSE i
        ELSE end[i + 1][Quote(q, l[i])]]
  IN  end[start]["none"]

\* "Find the end of the token": the first place behind the token that begins at
\* start.
End(l, start) ==
  LET end[i \in Nat] == [q \in Quotes |->
        IF i > Len(l) THEN i
        ELSE IF Escapes(q, l[i]) THEN end[i + 2][q]
        ELSE IF Quote(q, l[i]) = "none" /\ l[i] \in Ifs THEN i
        ELSE IF Quote(q, l[i]) = "none" /\ l[i] \in TokenChars
             THEN IF i = start THEN i + 1 ELSE i
        ELSE end[i + 1][Quote(q, l[i])]]
  IN  end[start]["none"]

\* "Copy this token", without the backslashes and quotes that are markup.
Copied(l, start, end) ==
  LET copy[i \in Nat] == [q \in Quotes |->
        IF i >= end THEN <<>>
        ELSE IF Escapes(q, l[i])
             THEN (IF i < end - 1 THEN <<l[i + 1]>> ELSE <<>>) \o copy[i + 2][q]
        ELSE IF Quote(q, l[i]) # q THEN copy[i + 1][Quote(q, l[i])]
        ELSE <<l[i]>> \o copy[i + 1][q]]
  IN  copy[start]["none"]

\* What a backslash at the end of the line preserves is the zero byte, which ends the
\* copy.
Stop(l, end) == IF end > Len(l) + 1 THEN Len(l) + 1 ELSE end

\* The first place from at on that is no white space.
Start == CHOOSE i \in at .. Len(line) + 1 :
  /\ i > Len(line) \/ line[i] \notin Ifs
  /\ \A j \in at .. i - 1 : line[j] \in Ifs

AtEnd == at = Len(line) + 1

\* A backslash at the end of the line takes the end of its token over the zero byte,
\* where the next call goes on.
Behind == at > Len(line) + 1

Going == where \notin {"end", "stuck"}

Comment == Start <= Len(line) => line[Start] = "#"

Fgets ==
  /\ Going /\ AtEnd /\ file # <<>>
  /\ line' = Head(file) /\ file' = Tail(file) /\ at' = 1 /\ had' = Len(tokens)
  /\ UNCHANGED <<where, tokens, disallow>>

EndOfFile ==
  /\ Going /\ AtEnd /\ file = <<>>
  /\ where' = "end"
  /\ UNCHANGED <<file, line, at, tokens, had, disallow>>

BugSkipLine ==
  /\ Going /\ at <= Len(line) /\ Comment
  /\ at' = Start
  /\ UNCHANGED <<file, line, where, tokens, had, disallow>>

\* White space to the end of the line, or a comment.
SkipLine ==
  /\ Going /\ at <= Len(line) /\ Comment
  /\ at' = Len(line) + 1
  /\ UNCHANGED <<file, line, where, tokens, had, disallow>>

\* What is read there nobody has written: a hash sign is a comment, and else no token
\* begins nor does the line end, for ever.
ReadBehind ==
  /\ where # "end" /\ Behind
  /\ \/ Going /\ at' = Len(line) + 1 /\ UNCHANGED where
     \/ where' = "stuck" /\ UNCHANGED at
  /\ UNCHANGED <<file, line, tokens, had, disallow>>

-----------------------------------------------------------------------------
(* try_read_config_file and disallow. *)

\* The loop over the words of the file.
Word(token) == IF token = DisallowWord THEN "method" ELSE "word"

\* disallow hands a token it did not expect back to the loop.
Parse(token) ==
  CASE where = "method" /\ token = MethodWord -> "name"
    [] where = "name" /\ token = PpdevWord    -> "word"
    [] OTHER                                  -> Word(token)

Token == LET token == Copied(line, Start, Stop(line, End(line, Start))) IN
  /\ Going /\ at <= Len(line) /\ ~Comment
  /\ at' = End(line, Start)
  /\ tokens' = Append(tokens, token)
  /\ where' = Parse(token)
  /\ disallow' = (disallow \/ (where = "name" /\ token = PpdevWord))
  /\ UNCHANGED <<file, line, had>>

-----------------------------------------------------------------------------
Init ==
  /\ file \in Files /\ line = <<>> /\ at = 1
  /\ where = "word" /\ tokens = <<>> /\ had = 0 /\ disallow = FALSE

Next == Fgets \/ EndOfFile \/ SkipLine \/ ReadBehind \/ Token

Spec == Init /\ [][Next]_vars

-----------------------------------------------------------------------------
(* Properties. *)

\* The place is in the line or just behind it, where get_token looks for it, unless
\* the line ends in a backslash.
TypeOK ==
  /\ where \in {"word", "method", "name", "end", "stuck"}
  /\ at \in 1 .. Len(line) + 2
  /\ Behind => line # <<>> /\ line[Len(line)] = "\\"
  /\ where = "stuck" => Behind
  /\ disallow \in BOOLEAN

\* The manual page libieee1284(3) on the file, read one character after another:
\* comments, white space, quotes, backslashes, and the tokens { } =.
Reader == [out |-> <<>>, token |-> <<>>, open |-> FALSE, quote |-> "none",
           escape |-> FALSE, comment |-> FALSE]

Closed(r) == IF r.open
  THEN [r EXCEPT !.out = Append(@, r.token), !.token = <<>>, !.open = FALSE]
  ELSE r

Reads(r, ch) ==
  IF r.comment THEN r
  ELSE IF r.escape THEN [r EXCEPT !.token = Append(@, ch), !.escape = FALSE]
  ELSE IF Escapes(r.quote, ch) THEN [r EXCEPT !.escape = TRUE, !.open = TRUE]
  ELSE IF Quote(r.quote, ch) # r.quote
       THEN [r EXCEPT !.quote = Quote(@, ch), !.open = TRUE]
  ELSE IF r.quote = "none" /\ ch \in Ifs THEN Closed(r)
  ELSE IF r.quote = "none" /\ ch \in TokenChars
       THEN [Closed(r) EXCEPT !.out = Append(@, <<ch>>)]
  ELSE IF r.quote = "none" /\ ch = "#" THEN [Closed(r) EXCEPT !.comment = TRUE]
  ELSE [r EXCEPT !.token = Append(@, ch), !.open = TRUE]

\* The reader behind each character.
Read(l) ==
  LET read[i \in 0 .. Len(l)] == IF i = 0 THEN Reader ELSE Reads(read[i - 1], l[i])
  IN  read

Documented(l) == Closed(Read(l)[Len(l)]).out

\* A comment begins without white space before it, at a token that is still open.
Glued(l) == \E i \in 1 .. Len(l) : l[i] = "#" /\
  LET r == Read(l)[i - 1] IN
  r.open /\ r.quote = "none" /\ ~r.escape /\ ~r.comment

LineSpelled ==
  had <= Len(tokens) /\ SubSeq(tokens, had + 1, Len(tokens)) = Documented(line)

\* At the end of a line, the tokens it gave are those its characters spell, unless
\* it has a comment glued to a token: libieee1284(3) says of every line that "Comments
\* begin with a '#' character and extend to the end of the line", and get_token does not
\* see that one.
TokensAsDocumented == at > Len(line) /\ line # <<>> /\ ~Glued(line) => LineSpelled

\* ppdev is disallowed exactly when the words "disallow method ppdev" occur one
\* after the other, whatever comes before, between lines or in place of one.
DisallowAsDocumented ==
  disallow <=> \E i \in 1 .. Len(tokens) - 2 :
    tokens[i] = DisallowWord /\ tokens[i + 1] = MethodWord /\ tokens[i + 2] = PpdevWord
=============================================================================
