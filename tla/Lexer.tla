------------------------------- MODULE Lexer --------------------------------
(***************************************************************************)
(* query/lexer.go and query/token.go: the text of a query becomes tokens.  *)
(*                                                                         *)
(* A text is a sequence of characters, counted from 1 here and from 0 in   *)
(* the code.  A token is [type, value, from, to], with the characters it   *)
(* was made of; the code keeps one position, for messages.  A step reads   *)
(* the white space or the one token at pos.                                *)
(***************************************************************************)
EXTENDS Integers, Sequences, FiniteSets, FiniteSetsExt

CONSTANTS Inputs,   \* the texts of queries
          Letters,  \* isIdentStart
          Digits,   \* isDigit
          Spaces,   \* unicode.IsSpace
          Quote,    \* the character that delimits a string
          Escape,   \* the character that begins an escape sequence
          Escaped,  \* what a letter stands for after Escape
          Quotables \* texts that someone may want to compare with

\* The characters that are a token, and those that are one with a "=" behind.
Single == {"(", ")", "[", "]", ",", "=", "~", "<", ">"}
BeforeEQ == {"!", "<", ">"}

\* Behind the last character.
End == "end of text"

ASSUME LexerAssumption ==
  /\ Letters \cap Digits = {} /\ Quote # Escape
  /\ End \notin Letters \cup Digits \cup Spaces
  /\ Quote \notin Letters \cup Digits \cup Spaces \cup Single \cup {"!", "-", End}
  /\ {Quote, Escape} \subseteq DOMAIN Escaped
  /\ Escaped[Quote] = Quote /\ Escaped[Escape] = Escape
  /\ Quote \in STRING /\ Escape \in STRING /\ Escaped \in [DOMAIN Escaped -> STRING]
  /\ Inputs \subseteq Seq(STRING) /\ Quotables \subseteq Seq(STRING)

VARIABLES text,    \* the query
          pos,     \* the next character
          tokens,  \* the tokens before it
          phase    \* "lex", "parse" when all is read, "done", "failed"

lexVars == << text, pos, tokens, phase >>

Keywords == {<< "A", "N", "D" >>, << "O", "R" >>, << "N", "O", "T" >>, << "I", "N" >>}

KeywordType(value) ==
  CASE value = << "A", "N", "D" >> -> "AND" [] value = << "O", "R" >> -> "OR"
    [] value = << "N", "O", "T" >> -> "NOT" [] value = << "I", "N" >> -> "IN"
    [] OTHER -> "IDENT"

LexInit ==
  /\ text \in Inputs
  /\ pos = 1
  /\ tokens = << >>
  \* Parse trims the text and rejects an empty one.
  /\ phase = IF \A i \in DOMAIN text : text[i] \in Spaces THEN "failed" ELSE "lex"

Lexing == phase = "lex" /\ pos <= Len(text)

\* The character at i.
Char(i) == IF i <= Len(text) THEN text[i] ELSE End

\* The first place from i on whose character is not in class.
EndOfRun(i, class) == Min({j \in i .. Len(text) + 1 : Char(j) \notin class})

Emit(type, value, end) ==
  /\ tokens' = Append(tokens, [type |-> type, value |-> value, from |-> pos, to |-> end - 1])
  /\ pos' = end
  /\ UNCHANGED << text, phase >>

\* Faulty variant: the white space is not passed over.
SkipSpaceInPlace ==
  /\ Lexing /\ Char(pos) \in Spaces
  /\ UNCHANGED << text, pos, tokens, phase >>

SkipSpace ==
  /\ Lexing /\ Char(pos) \in Spaces
  /\ pos' = EndOfRun(pos, Spaces)
  /\ UNCHANGED << text, tokens, phase >>

\* Faulty variant: of "<=" only the "<" is passed over.
LexOperatorShort ==
  /\ Lexing
  /\ IF Char(pos) \in BeforeEQ /\ Char(pos + 1) = "="
     THEN /\ tokens' = Append(tokens, [type |-> IF Char(pos) = "!" THEN "!="
                                                ELSE IF Char(pos) = "<" THEN "<=" ELSE ">=",
                                       value |-> << >>, from |-> pos, to |-> pos + 1])
          /\ pos' = pos + 1
          /\ UNCHANGED << text, phase >>
     ELSE Char(pos) \in Single /\ Emit(Char(pos), << >>, pos + 1)

LexOperator ==
  /\ Lexing
  /\ IF Char(pos) \in BeforeEQ /\ Char(pos + 1) = "="
     THEN Emit(IF Char(pos) = "!" THEN "!=" ELSE IF Char(pos) = "<" THEN "<=" ELSE ">=",
               << >>, pos + 2)
     ELSE Char(pos) \in Single /\ Emit(Char(pos), << >>, pos + 1)

\* isIdentPart
IdentPart == Letters \cup Digits \cup {"."}

LexIdentOrKeyword ==
  /\ Lexing /\ Char(pos) \in Letters
  /\ LET end == EndOfRun(pos, IdentPart)
         value == SubSeq(text, pos, end - 1)
     IN Emit(KeywordType(value), value, end)

\* The end of a number: a sign, digits, and digits behind a dot, each of which
\* may be missing.
EndOfNumber ==
  LET whole == EndOfRun(IF Char(pos) = "-" THEN pos + 1 ELSE pos, Digits)
  IN IF Char(whole) = "." THEN EndOfRun(whole + 1, Digits) ELSE whole

LexNumber ==
  /\ Lexing /\ Char(pos) \in Digits \cup {"-"}
  /\ Emit("NUMBER", SubSeq(text, pos, EndOfNumber - 1), EndOfNumber)

\* Faulty variant: an escape sequence is kept as it is written.
UnescapeNothing(ch) == << Escape, ch >>

\* What an escape sequence stands for; an unknown one stands for itself.
Unescape(ch) == IF ch \in DOMAIN Escaped THEN << Escaped[ch] >> ELSE << Escape, ch >>

Unterminated == [end |-> 0, value |-> << >>]

\* The rest of a string with some characters before it.
Before(chars, rest) == [end |-> rest.end, value |-> chars \o rest.value]

\* The rest of a string from i on: its value and the place behind its quote.
RestOfString ==
  LET rest[i \in 1 .. Len(text) + 2] ==
        IF i > Len(text) THEN Unterminated
        ELSE IF text[i] = Escape /\ i < Len(text)
             THEN Before(Unescape(text[i + 1]), rest[i + 2])
        ELSE IF text[i] = Quote THEN [end |-> i + 1, value |-> << >>]
        ELSE Before(<< text[i] >>, rest[i + 1])
  IN rest[pos + 1]

LexString ==
  /\ Lexing /\ Char(pos) = Quote /\ RestOfString.end > 0
  /\ Emit("STRING", RestOfString.value, RestOfString.end)

\* A character that begins no token, or a string without an end.
LexFails ==
  /\ Lexing
  /\ \/ Char(pos) = Quote /\ RestOfString.end = 0
     \/ Char(pos) = "!" /\ Char(pos + 1) # "="
     \/ Char(pos) \notin Single \cup Letters \cup Digits \cup Spaces \cup {"!", "-", Quote}
  /\ phase' = "failed"
  /\ UNCHANGED << text, pos, tokens >>

LexEnds ==
  /\ phase = "lex" /\ pos > Len(text)
  /\ tokens' = Append(tokens, [type |-> "EOF", value |-> << >>, from |-> pos, to |-> pos - 1])
  /\ phase' = "parse"
  /\ UNCHANGED << text, pos >>

LexNext ==
  \/ SkipSpace \/ LexOperator \/ LexIdentOrKeyword \/ LexNumber \/ LexString
  \/ LexFails \/ LexEnds

-----------------------------------------------------------------------------
(***************************************************************************)
(* PROPERTIES                                                              *)
(***************************************************************************)

\* Every character before pos is white space or belongs to one token, and the
\* tokens are in the order of the text: nothing a query says is dropped or
\* read twice.  A word is a token to its end, so that "ANDROID" is no AND and
\* "sla.status" is one field (lexer.go:25-93, 137-158).
TokensTile ==
  /\ \A i \in 1 .. pos - 1 :
       Cardinality({k \in DOMAIN tokens : i \in tokens[k].from .. tokens[k].to})
         = (IF \E k \in DOMAIN tokens : i \in tokens[k].from .. tokens[k].to
            THEN 1 ELSE IF text[i] \in Spaces THEN 0 ELSE -1)
  /\ \A k \in DOMAIN tokens : k > 1 => tokens[k - 1].to < tokens[k].from
  /\ \A k \in DOMAIN tokens : tokens[k].type \in {"IDENT", "AND", "OR", "NOT", "IN"} =>
       Char(tokens[k].to + 1) \notin Letters \cup Digits \cup {"."}

\* The text of a string that means value: quotes and escapes are escaped.
Quoted(value) ==
  LET written[i \in 0..Len(value)] ==
        IF i = 0 THEN << Quote >>
        ELSE written[i - 1] \o (IF value[i] \in {Quote, Escape} THEN << Escape, value[i] >>
                                ELSE << value[i] >>)
  IN written[Len(value)] \o << Quote >>

\* Every text can be written as a string: quoted like that, it is lexed, into
\* one token that means the text (lexer.go:100-135).
EveryTextQuotable ==
  Char(1) = Quote => \A value \in Quotables : text = Quoted(value) =>
    IF tokens = << >> THEN phase = "lex"
    ELSE tokens[1].type = "STRING" /\ tokens[1].value = value /\ tokens[1].to = Len(text)

=============================================================================
