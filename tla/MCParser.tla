------------------------------ MODULE MCParser ------------------------------
(***************************************************************************)
(* Texts of four families: every short sequence of characters; every short *)
(* text in quotes; every short sequence of the words of expressions, and   *)
(* longer ones of four predicates; every short sequence of the words of    *)
(* values behind an operator or the parenthesis of a call.                 *)
(***************************************************************************)
EXTENDS Parser

MCLetters == {"a", "n", "A", "N", "D", "O", "R", "T", "I"}
MCDigits == {"1"}
MCSpaces == {" "}
MCQuote == "\""
MCEscape == "\\"
MCEscaped == [ch \in {"\"", "\\", "n"} |-> IF ch = "n" THEN "newline" ELSE ch]

\* The sequences of at most n elements of S.
UpTo(S, n) == UNION {[1..m -> S] : m \in 0..n}

Characters == UpTo({"a", "1", ".", "-", "=", "<", "!", "\"", "\\", " "}, 3)
                \cup UpTo({"a", "<", "=", "\"", "\\"}, 4)

MCQuotables == UpTo({"a", "n", "\"", "\\"}, 3)

\* Words, with a space behind each.
Text(words) == FlattenSeq([i \in DOMAIN words |-> words[i] \o << " " >>])

And == << "A", "N", "D" >>
Or == << "O", "R" >>
Not == << "N", "O", "T" >>
In == << "I", "N" >>
Pred == << "a", "=", "1" >>
Open == << "(" >>
Close == << ")" >>
Name == << "a", ".", "n" >>

Expressions == UpTo({Pred, And, Or, Not, Open, Close}, 5)

Maybe(word) == {<< >>, << word >>}

\* Four predicates, negated or not, and two of them in parentheses.
Chains ==
  {n1 \o o1 \o << Pred, op1 >> \o o2 \o n2 \o << Pred, op2, Pred >> \o c1 \o << op3, Pred >> \o c2 :
     n1, n2 \in Maybe(Not), o1, o2 \in Maybe(Open), c1, c2 \in Maybe(Close),
     op1, op2, op3 \in {And, Or}}

Values ==
  {<< Name, In >> \o words : words \in UpTo({<< "1" >>, << "[" >>, << "]" >>, << "," >>, Name, Open, Close}, 4)}
    \cup {<< Name, Open >> \o words : words \in UpTo({<< "1" >>, << "," >>, << "[" >>, Close, And}, 4)}

MCInputs ==
  Characters \cup {Quoted(value) : value \in MCQuotables}
    \cup {Text(words) : words \in Expressions \cup Chains \cup Values}

=============================================================================
