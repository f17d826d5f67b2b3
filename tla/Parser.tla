------------------------------- MODULE Parser -------------------------------
(***************************************************************************)
(* query/parser.go: the recursive descent from tokens to an expression.    *)
(*                                                                         *)
(* A step is a token consumed, or the return of a method.  The methods in  *)
(* progress are on the stack, each with what it will need when the one it  *)
(* called returns:                                                         *)
(*   "or", "and"    the loops of parseOr and parseAnd, with left           *)
(*   "not"          parseUnary                                             *)
(*   "group"        parsePrimary behind a parenthesis                      *)
(*   "predicate"    parsePrimary behind an operator, with its first token  *)
(*   "list"         parseList                                              *)
(*   "call"         parseFuncCall and parseValueFuncCall                   *)
(* An expression is [is |-> "or" | "and", left, right], [is |-> "not", of] *)
(* or [is |-> "leaf", from, to]: a predicate or a function call, by its    *)
(* tokens (Comparison.tla holds what they mean).                           *)
(***************************************************************************)
EXTENDS Lexer, SequencesExt

VARIABLES at,     \* the current token
          stack,  \* the methods in progress
          want,   \* what is parsed next: "expr", "value", "item", "arg", or
                  \* "args" behind an argument and "rest" behind an expression
          have    \* the expression that was parsed last

parseVars == << at, stack, want, have >>

vars == << lexVars, parseVars >>

NoExpr == [is |-> "none"]

Operators == {"=", "!=", "<", "<=", ">", ">=", "~", "IN"}
Atoms == {"STRING", "NUMBER", "IDENT"}

Init ==
  /\ LexInit
  /\ at = 1 /\ stack = << >> /\ want = "expr" /\ have = NoExpr

Lex == LexNext /\ UNCHANGED parseVars

\* Parser.current().Type, and the type of the token behind it.
Tok == tokens[at].type
NextTok == IF Tok = "EOF" THEN "EOF" ELSE tokens[at + 1].type

Parsing(w) == phase = "parse" /\ want = w

\* The method in progress.
Top == IF stack = << >> THEN [is |-> "parse"] ELSE Last(stack)

Below == Front(stack)

Move(n, s, w) ==
  /\ at' = at + n
  /\ stack' = s
  /\ want' = w
  /\ UNCHANGED << lexVars, have >>

\* parseUnary and parsePrimary
ParseNot == Parsing("expr") /\ Tok = "NOT" /\ Move(1, Append(stack, [is |-> "not"]), "expr")

ParseGroup == Parsing("expr") /\ Tok = "(" /\ Move(1, Append(stack, [is |-> "group"]), "expr")

ParsePredicate ==
  /\ Parsing("expr") /\ Tok = "IDENT" /\ NextTok \in Operators
  /\ Move(2, Append(stack, [is |-> "predicate", from |-> at]), "value")

\* A call, of a function as an expression or as a value; an empty list of
\* arguments is allowed, but none after a comma may be missing.
ParseCall ==
  /\ Parsing("expr") \/ Parsing("value") \/ Parsing("item")
  /\ Tok = "IDENT" /\ NextTok = "("
  /\ Move(2, Append(stack, [is |-> "call", from |-> at, of |-> IF want = "expr" THEN "expr" ELSE "value"]),
          IF tokens[at + 2].type = ")" THEN "args" ELSE "arg")

ParseArg == Parsing("arg") /\ Tok \in Atoms /\ Move(1, stack, "args")

NextArg == Parsing("args") /\ Tok = "," /\ Move(1, stack, "arg")

\* An expression has been parsed: the method that called goes on with s.
Return(n, s, expr) ==
  /\ at' = at + n
  /\ stack' = s
  /\ want' = "rest"
  /\ have' = expr
  /\ UNCHANGED lexVars

\* A value ends before the token at + n.  Behind an item of a list there may
\* be a comma; behind the value of a predicate the predicate ends.
ReturnValue(n, s) ==
  LET caller == s[Len(s)]
  IN IF caller.is = "list"
     THEN Move(n + (IF tokens[at + n].type = "," THEN 1 ELSE 0), s, "item")
     ELSE Return(n, SubSeq(s, 1, Len(s) - 1),
                 [is |-> "leaf", from |-> caller.from, to |-> at + n - 1])

EndCall ==
  /\ Parsing("args") /\ Tok = ")"
  /\ IF Top.of = "expr" THEN Return(1, Below, [is |-> "leaf", from |-> Top.from, to |-> at])
     ELSE ReturnValue(1, Below)

\* parseValue
ParseAtom ==
  /\ Parsing("value") \/ Parsing("item")
  /\ Tok \in Atoms /\ ~(Tok = "IDENT" /\ NextTok = "(")
  /\ ReturnValue(1, stack)

ParseList ==
  /\ Parsing("value") \/ Parsing("item")
  /\ Tok = "["
  /\ Move(1, Append(stack, [is |-> "list"]), "item")

\* parseList ends at its bracket.
EndList == Parsing("item") /\ Tok = "]" /\ ReturnValue(1, Below)

\* A unary expression, an AND of them and an OR of those are followed by what
\* the loops of parseAnd and parseOr look for.
ReturnNot ==
  /\ Parsing("rest") /\ Top.is = "not"
  /\ Return(0, Below, [is |-> "not", of |-> have])

ReturnAnd ==
  /\ Parsing("rest") /\ Top.is = "and"
  /\ Return(0, Below, [is |-> "and", left |-> Top.left, right |-> have])

LoopAnd ==
  /\ Parsing("rest") /\ Top.is \notin {"not", "and"} /\ Tok = "AND"
  /\ Move(1, Append(stack, [is |-> "and", left |-> have]), "expr")

\* Faulty variant: an OR ends before an AND, too.
ReturnOrAtOnce ==
  /\ Parsing("rest") /\ Top.is = "or"
  /\ Return(0, Below, [is |-> "or", left |-> Top.left, right |-> have])

ReturnOr ==
  /\ Parsing("rest") /\ Top.is = "or" /\ Tok # "AND"
  /\ Return(0, Below, [is |-> "or", left |-> Top.left, right |-> have])

LoopOr ==
  /\ Parsing("rest") /\ Top.is \notin {"not", "and", "or"} /\ Tok = "OR"
  /\ Move(1, Append(stack, [is |-> "or", left |-> have]), "expr")

EndGroup ==
  /\ Parsing("rest") /\ Top.is = "group" /\ Tok = ")"
  /\ Return(1, Below, have)

\* Parse returns the expression when nothing is left.
Accept ==
  /\ Parsing("rest") /\ stack = << >> /\ Tok = "EOF"
  /\ phase' = "done"
  /\ UNCHANGED << text, pos, tokens, parseVars >>

\* The token at which a method returns an error.
Unexpected ==
  CASE want = "expr" -> /\ Tok \notin {"NOT", "("}
                        /\ ~(Tok = "IDENT" /\ NextTok \in Operators \cup {"("})
    [] want = "value" -> Tok \notin Atoms \cup {"["}
    [] want = "item" -> Tok \notin Atoms \cup {"[", "]"}
    [] want = "arg" -> Tok \notin Atoms
    [] want = "args" -> Tok \notin {",", ")"}
    [] want = "rest" -> \/ Top.is = "group" /\ Tok \notin {"AND", "OR", ")"}
                        \/ stack = << >> /\ Tok \notin {"AND", "OR", "EOF"}

ParseFails ==
  /\ phase = "parse" /\ Unexpected
  /\ phase' = "failed"
  /\ UNCHANGED << text, pos, tokens, parseVars >>

Parse ==
  \/ ParseNot \/ ParseGroup \/ ParsePredicate \/ ParseCall \/ ParseArg \/ NextArg \/ EndCall
  \/ ParseAtom \/ ParseList \/ EndList \/ ReturnNot \/ ReturnAnd \/ LoopAnd \/ ReturnOr
  \/ LoopOr \/ EndGroup \/ Accept \/ ParseFails

\* The answer is final.
Answered == phase \in {"done", "failed"} /\ UNCHANGED vars

Next == Lex \/ Parse \/ Answered

Spec == Init /\ [][Next]_vars /\ WF_vars(Lex \/ Parse)

-----------------------------------------------------------------------------
(***************************************************************************)
(* PROPERTIES                                                              *)
(***************************************************************************)

\* THE GRAMMAR, on the tokens i..j, by what stands outside all brackets.

Type(k) == tokens[k].type

Depth(i, k) ==
  Cardinality({m \in i .. k - 1 : Type(m) \in {"(", "["}})
    - Cardinality({m \in i .. k - 1 : Type(m) \in {")", "]"}})

Outside(i, j, type) == {k \in i..j : Type(k) = type /\ Depth(i, k) = 0}

\* Arguments are separated by commas; the commas of a list may be missing, and
\* one may follow its last item.
Arguments(i, j) ==
  \/ j = i - 1
  \/ /\ j >= i /\ (j - i) % 2 = 0
     /\ \A k \in i..j : IF (k - i) % 2 = 0 THEN Type(k) \in Atoms ELSE Type(k) = ","

IsCall(i, j) ==
  j >= i + 2 /\ Type(i) = "IDENT" /\ Type(i + 1) = "(" /\ Type(j) = ")" /\ Arguments(i + 2, j - 1)

\* A function call, or a predicate with a value; items are values, with or
\* without commas.
IsLeaf(i, j) ==
  LET n == Len(tokens)
      reads[x \in {"value", "items"} \X (1 .. n + 1) \X (0..n)] ==
        LET a == x[2]
            b == x[3]
        IN IF x[1] = "value"
           THEN \/ a = b /\ Type(a) \in Atoms
                \/ IsCall(a, b)
                \/ a < b /\ Type(a) = "[" /\ Type(b) = "]" /\ reads[<< "items", a + 1, b - 1 >>]
           ELSE \/ a > b
                \/ \E m \in a..b :
                     /\ reads[<< "value", a, m >>]
                     /\ \/ reads[<< "items", m + 1, b >>]
                        \/ m < b /\ Type(m + 1) = "," /\ reads[<< "items", m + 2, b >>]
  IN \/ IsCall(i, j)
     \/ /\ j >= i + 2 /\ Type(i) = "IDENT" /\ Type(i + 1) \in Operators
        /\ reads[<< "value", i + 2, j >>]

\* The expression that tokens i..j are, or NoExpr: NOT binds tighter than AND,
\* AND tighter than OR, and both group to the left (parser.go:78-79).
Expression(i, j) ==
  LET n == Len(tokens)
      expr[x \in (1 .. n + 1) \X (0..n)] ==
        LET a == x[1]
            b == x[2]
            ors == Outside(a, b, "OR")
            ands == Outside(a, b, "AND")
            Binary(is, k) ==
              LET left == expr[<< a, k - 1 >>]
                  right == expr[<< k + 1, b >>]
              IN IF NoExpr \in {left, right} THEN NoExpr
                 ELSE [is |-> is, left |-> left, right |-> right]
        IN IF a > b THEN NoExpr
           ELSE IF ors # {} THEN Binary("or", Max(ors))
           ELSE IF ands # {} THEN Binary("and", Max(ands))
           ELSE IF Type(a) = "NOT"
                THEN LET of == expr[<< a + 1, b >>]
                     IN IF of = NoExpr THEN NoExpr ELSE [is |-> "not", of |-> of]
           ELSE IF Type(a) = "(" /\ Type(b) = ")" THEN expr[<< a + 1, b - 1 >>]
           ELSE IF IsLeaf(a, b) THEN [is |-> "leaf", from |-> a, to |-> b] ELSE NoExpr
  IN expr[<< i, j >>]

\* What Parse returns is what the grammar in its comments says: the expression
\* with "NOT > AND > OR", grouping to the left, for every sentence of it, and an
\* error for everything else that can be lexed (parser.go:78-314).
ParsedAsGrammar ==
  phase \in {"done", "failed"} /\ tokens # << >> /\ Last(tokens).type = "EOF" =>
    Expression(1, Len(tokens) - 1) = (IF phase = "done" THEN have ELSE NoExpr)

\* Every query is answered: each loop of the lexer and of the parser consumes
\* something or ends, at the end of the text too (parser.go:53-66, 298-307).
EveryQueryAnswered == <>(phase \in {"done", "failed"})

=============================================================================
