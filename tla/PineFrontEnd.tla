---------------------------- MODULE PineFrontEnd ----------------------------
(***************************************************************************)
(* The front end of Pine Script: the lexer, the generator of abstract      *)
(* trees from concrete ones, and the inference of types.  The input grows  *)
(* symbol by symbol.  For the lexer the symbols are characters; for the    *)
(* others they spell a concrete tree in postfix order: a token, or a group *)
(* which makes a node of the last trees.                                   *)
(***************************************************************************)
EXTENDS Naturals, Sequences, SequencesExt, FiniteSets, FiniteSetsExt

CONSTANTS
  Inputs,    \* bounds: a sequence of [stage, symbols, length], what inputs are made of
  Symbols,   \* the symbol table, name |-> type
  None

VARIABLES
  input,     \* the place in Inputs of what source is made of
  source

vars == <<input, source>>

TypeOK ==
  /\ input \in DOMAIN Inputs /\ Inputs[input].stage \in {"text", "tree"}
  /\ source \in Seq(Inputs[input].symbols) /\ Len(source) <= Inputs[input].length

Init == input \in DOMAIN Inputs /\ source = <<>>

Next ==
  /\ Len(source) < Inputs[input].length
  /\ \E a \in Inputs[input].symbols : source' = Append(source, a)
  /\ UNCHANGED input

Spec == Init /\ [][Next]_vars

-----------------------------------------------------------------------------
\* The lexer.  A cursor is the place in the text with its line and column.
Digits == {"0", "1"}
Letters == {"a", "e", "f", "i", "t", "r", "u", "_"}
Quotes == {"'", "\""}
LineEnds == {"\r", "\n"}
TwoCharOperators == {<<"=", "=">>, <<":", "=">>, <<"<", "=">>, <<"=", ">">>, <<"/", "=">>}
SingleCharOperators == {":", "=", "<", ">", "+", "-", "/"}
Delimiters == {"(", ")", ".", ","}
Keywords == {<<"i", "f">>}
Booleans == {<<"t", "r", "u", "e">>}

_peek(s, i) == IF i \in DOMAIN s THEN s[i] ELSE "end"

Advanced(c, n) == [c EXCEPT !.pos = @ + n, !.column = @ + n]
NewLine(c, n) == [pos |-> c.pos + n, line |-> c.line + 1, column |-> 1]

\* The first place from i on that is not in the set.
RunEnd(s, i, set) == Min({j \in i..(Len(s) + 1) : _peek(s, j) \notin set})

RECURSIVE _skip_whitespace(_, _)
_skip_whitespace(s, c) ==
  LET ch == _peek(s, c.pos)
  IN IF ch = " " THEN _skip_whitespace(s, Advanced(c, 1))
     ELSE IF ch \notin LineEnds THEN c
     ELSE _skip_whitespace(s, NewLine(c, IF ch = "\r" /\ _peek(s, c.pos + 1) = "\n" THEN 2 ELSE 1))

\* From inside of a string, after its closing quote; None without one.  Any
\* character may follow a backslash, an end of line among them.
RECURSIVE _lex_string(_, _, _)
_lex_string(s, c, quote) ==
  LET ch == _peek(s, c.pos)
      escaped == _peek(s, c.pos + 1)
  IN CASE ch = quote -> Advanced(c, 1)
       [] ch = "\\" ->
            _lex_string(s, IF escaped = "end" THEN Advanced(c, 1)
                           ELSE IF escaped = "\n" THEN NewLine(c, 2) ELSE Advanced(c, 2), quote)
       [] ch \in LineEnds \cup {"end"} -> None
       [] OTHER -> _lex_string(s, Advanced(c, 1), quote)

\* The place after an exponent at i, or i if there is none.
MutExponentEnd(s, i) ==
  LET first == IF _peek(s, i + 1) \in {"+", "-"} THEN i + 2 ELSE i + 1
  IN IF _peek(s, i) = "e" THEN RunEnd(s, first, Digits) ELSE i

ExponentEnd(s, i) ==
  LET first == IF _peek(s, i + 1) \in {"+", "-"} THEN i + 2 ELSE i + 1
  IN IF _peek(s, i) = "e" /\ _peek(s, first) \in Digits THEN RunEnd(s, first, Digits) ELSE i

\* A point belongs to a number unless a second point follows the digits.
_lex_number(s, i) ==
  LET whole == RunEnd(s, i, Digits)
      pointed == _peek(s, whole) = "." /\ (whole = i \/ _peek(s, whole + 1) # ".")
      end == ExponentEnd(s, IF pointed THEN RunEnd(s, whole + 1, Digits) ELSE whole)
  IN [type |-> IF end > whole THEN "FLOAT" ELSE "INTEGER", end |-> end]

_lex_identifier_or_keyword(s, i) ==
  LET end == RunEnd(s, i, Letters \cup Digits)
      word == SubSeq(s, i, end - 1)
  IN [type |-> IF word \in Booleans THEN "BOOLEAN"
               ELSE IF word \in Keywords THEN "KEYWORD" ELSE "IDENTIFIER",
      end |-> end]

\* The token at cursor c, with the cursor after it; no cursor means an error.
_next_token(s, c) ==
  LET ch == _peek(s, c.pos)
      next == _peek(s, c.pos + 1)
      Token(type, after) ==
        [type |-> type, first |-> c.pos, line |-> c.line, column |-> c.column, after |-> after]
      Plain(t) == Token(t.type, Advanced(c, t.end - c.pos))
      comment == {j \in c.pos..(Len(s) + 1) : _peek(s, j) \in LineEnds \cup {"end"}}
  IN IF ch = "/" /\ next = "/" THEN Plain([type |-> "COMMENT", end |-> Min(comment)])
     ELSE IF ch \in Quotes THEN Token("STRING", _lex_string(s, Advanced(c, 1), ch))
     ELSE IF ch \in Digits \/ (ch = "." /\ next \in Digits) THEN Plain(_lex_number(s, c.pos))
     ELSE IF ch \in Letters THEN Plain(_lex_identifier_or_keyword(s, c.pos))
     ELSE IF <<ch, next>> \in TwoCharOperators THEN Token("OPERATOR", Advanced(c, 2))
     ELSE IF ch \in Delimiters THEN Token(ch, Advanced(c, 1))
     ELSE IF ch \in SingleCharOperators THEN Token("OPERATOR", Advanced(c, 1))
     ELSE Token("ERROR", None)

RECURSIVE Lexed(_, _)
Lexed(s, start) ==
  LET c == _skip_whitespace(s, start)
      t == _next_token(s, c)
  IN IF c.pos > Len(s)
     THEN <<[type |-> "EOF", first |-> c.pos, line |-> c.line, column |-> c.column, after |-> c]>>
     ELSE IF t.after = None THEN <<t>> ELSE <<t>> \o Lexed(s, t.after)

tokenize(s) == Lexed(s, [pos |-> 1, line |-> 1, column |-> 1])

-----------------------------------------------------------------------------
\* Concrete trees.  A token is a symbol [kind, value]; a node has children, the
\* symbol [kind |-> "group", value, size] says how many.  Both have a span, the
\* first and the last symbol they are made of.
IsGroup(a) == a.kind = "group"

\* The forest after one more symbol; a group that lacks trees takes what is there.
Grown(forest, k) ==
  LET a == source[k]
      n == IF Len(forest) < a.size THEN Len(forest) ELSE a.size
      kids == SubSeq(forest, Len(forest) - n + 1, Len(forest))
  IN IF ~IsGroup(a) THEN Append(forest, [kind |-> a.kind, value |-> a.value, kids |-> <<>>, span |-> <<k, k>>])
     ELSE Append(SubSeq(forest, 1, Len(forest) - n),
                 [kind |-> a.value, value |-> None, kids |-> kids,
                  span |-> <<IF kids = <<>> THEN k ELSE kids[1].span[1], k>>])

Forest == FoldLeft(Grown, <<>>, [k \in DOMAIN source |-> k])

TokenKinds == {"IDENTIFIER", "INTEGER", "FLOAT", "BOOLEAN", "STRING", "OPERATOR", "PUNCTUATION", "TRIVIA"}
LiteralKinds == {"INTEGER", "FLOAT", "BOOLEAN", "STRING"}

_is_trivia(n) == n.kind = "TRIVIA"
_is_punctuation(n) == n.kind = "PUNCTUATION"
_is_parenthesis(n) == n.kind = "PUNCTUATION" /\ n.value \in {"(", ")"}

Error == [op |-> "error", value |-> None, kids |-> <<>>, span |-> <<0, 0>>]
Leaf(op, n, span) == [op |-> op, value |-> n.value, kids |-> <<>>, span |-> span]

\* An error below is an error here.
Made(op, value, kids, span) ==
  IF \E k \in DOMAIN kids : kids[k].op = "error" THEN Error
  ELSE [op |-> op, value |-> value, kids |-> kids, span |-> span]

\* What kind of literal a token of another kind is, by its text.
RawKind(value) == IF value = "true" THEN "BOOLEAN" ELSE IF value = "1" THEN "INTEGER" ELSE "STRING"

_generate_literal(parts, span, inner) ==
  IF parts = <<>> THEN Error
  ELSE IF parts[1].kind \in TokenKinds
  THEN Leaf(IF parts[1].kind \in LiteralKinds THEN parts[1].kind ELSE RawKind(parts[1].value), parts[1], span)
  ELSE IF inner.op \in LiteralKinds THEN inner ELSE Error

\* Operands and operators alternate; operators lean to the left.
MutBinary(parts, span, asts) ==
  IF Len(parts) < 3 \/ Len(parts) % 2 = 0 THEN Error
  ELSE Made("binary", parts[2].value, <<asts[1], asts[3]>>, span)

_generate_binary(parts, span, asts) ==
  IF Len(parts) < 3 \/ Len(parts) % 2 = 0 THEN Error
  ELSE FoldLeft(LAMBDA left, i : Made("binary", parts[2 * i].value, <<left, asts[2 * i + 1]>>, span),
                asts[1], [i \in 1..((Len(parts) - 1) \div 2) |-> i])

RECURSIVE generate(_)
generate(n) ==
  LET parts == SelectSeq(n.kids, LAMBDA k : ~_is_trivia(k))
      asts == [k \in DOMAIN parts |-> generate(parts[k])]
      inner == SelectSeq(parts, LAMBDA k : ~_is_parenthesis(k))
      alone == generate(inner[1])
      arguments == SelectSeq(Tail(parts), LAMBDA k : ~_is_punctuation(k))
  IN CASE n.kind = "IDENTIFIER" -> Leaf("identifier", n, n.span)
       [] n.kind \in LiteralKinds -> Leaf(n.kind, n, n.span)
       [] n.kind = "literal" -> _generate_literal(parts, n.span, asts[1])
       [] n.kind = "identifier" -> IF parts = <<>> THEN Error ELSE Leaf("identifier", parts[1], n.span)
       [] n.kind = "binary" -> _generate_binary(parts, n.span, asts)
       [] n.kind = "unary" ->
            IF Len(parts) < 2 THEN Error ELSE Made("unary", parts[1].value, <<asts[2]>>, n.span)
       [] n.kind = "paren" ->
            IF Len(inner) # 1 \/ alone.op = "error" THEN Error ELSE [alone EXCEPT !.span = n.span]
       [] n.kind = "call" ->
            IF parts = <<>> \/ _is_punctuation(parts[1]) THEN Error
            ELSE Made("call", None, <<asts[1]>> \o [k \in DOMAIN arguments |-> generate(arguments[k])], n.span)
       [] OTHER -> Error

-----------------------------------------------------------------------------
\* Types.  An answer has a type, or what was expected and what was found, or
\* neither when a name is unknown or the expression of another kind.
Numeric == {"INTEGER", "FLOAT"}
Of(type) == [type |-> type, expected |-> None, actual |-> None]
Mismatch(expected, actual) == [type |-> None, expected |-> expected, actual |-> actual]
Promoted(l, r) == Of(IF "FLOAT" \in {l, r} THEN "FLOAT" ELSE "INTEGER")

Added(l, r) ==
  IF "STRING" \in {l, r}
  THEN IF l # "STRING" THEN Mismatch("STRING", l) ELSE IF r # "STRING" THEN Mismatch("STRING", r) ELSE Of("STRING")
  ELSE IF l \notin Numeric THEN Mismatch("INTEGER", l)
  ELSE IF r \notin Numeric THEN Mismatch("INTEGER", r) ELSE Promoted(l, r)

\* Other arithmetic; the type named in place of an unknown one differs.
Calculated(l, r, default, result) ==
  IF l \notin Numeric THEN Mismatch(IF r \in Numeric THEN r ELSE default, l)
  ELSE IF r \notin Numeric THEN Mismatch(l, r) ELSE result

MutLogical(l, r) == IF l # "BOOLEAN" THEN Mismatch("BOOLEAN", l) ELSE Of("BOOLEAN")
Logical(l, r) ==
  IF l # "BOOLEAN" THEN Mismatch("BOOLEAN", l)
  ELSE IF r # "BOOLEAN" THEN Mismatch("BOOLEAN", r) ELSE Of("BOOLEAN")

\* Two numbers compare, and two of one type out of the given ones.
Compared(l, r, types) ==
  IF {l, r} \subseteq Numeric \/ (l = r /\ l \in types) THEN Of("BOOLEAN")
  ELSE IF r \in Numeric THEN Mismatch(r, l)
  ELSE IF l \notin Numeric /\ r = "STRING" /\ types = {"STRING"} THEN Mismatch("STRING", l)
  ELSE Mismatch(l, r)

_infer_binary(op, l, r) ==
  CASE op = "+" -> Added(l, r)
    [] op \in {"-", "*", "%"} -> Calculated(l, r, "INTEGER", Promoted(l, r))
    [] op = "/" -> Calculated(l, r, "FLOAT", Of("FLOAT"))
    [] op \in {"and", "or"} -> Logical(l, r)
    [] op \in {"<", "<=", ">", ">="} -> Compared(l, r, {"STRING"})
    [] op \in {"==", "!="} -> Compared(l, r, {"STRING", "BOOLEAN"})
    [] OTHER -> Of(None)

_infer_unary(op, t) ==
  CASE op = "not" -> IF t = "BOOLEAN" THEN Of(t) ELSE Mismatch("BOOLEAN", t)
    [] op \in {"-", "+"} -> IF t \in Numeric THEN Of(t) ELSE Mismatch("INTEGER", t)
    [] OTHER -> Of(None)

lookup(table, name) == Of(IF name \in DOMAIN table THEN table[name] ELSE None)

\* The left operand is looked at first, and the first thing wrong is reported.
RECURSIVE infer(_, _)
infer(ast, table) ==
  LET first == infer(ast.kids[1], table)
      second == infer(ast.kids[2], table)
  IN CASE ast.op \in LiteralKinds -> Of(ast.op)
       [] ast.op = "identifier" -> lookup(table, ast.value)
       [] ast.op = "unary" -> IF first.type = None THEN first ELSE _infer_unary(ast.value, first.type)
       [] ast.op = "binary" ->
            IF first.type = None THEN first
            ELSE IF second.type = None THEN second ELSE _infer_binary(ast.value, first.type, second.type)
       [] OTHER -> Of(None)

-----------------------------------------------------------------------------
\* Every character is in one token or is white space, tokens are where their
\* line and column say, a token alone is that token again, a number ends as
\* one and is a fraction if it is written as one, and what stands
\* before an end of line does not depend on what follows.  A carriage return
\* after a backslash does not count as an end of line.
LexesAsWritten ==
  LET tokens == tokenize(source)
      whole == Last(tokens).type = "EOF"
      Ends(j) == /\ j \in DOMAIN source /\ source[j] \in LineEnds
                 /\ ~(source[j] = "\r" /\ _peek(source, j + 1) = "\n")
      LinesBefore(p) == {j \in 1..(p - 1) : Ends(j)}
      counted == \A j \in DOMAIN source : ~(source[j] = "\\" /\ _peek(source, j + 1) = "\r")
      Inside(j) == \E k \in DOMAIN tokens :
                     tokens[k].after # None /\ tokens[k].first <= j /\ j < tokens[k].after.pos
      before == SubSeq(source, 1, Len(source) - 1)
  IN /\ whole => \A j \in DOMAIN source : Inside(j) \/ source[j] \in {" "} \cup LineEnds
     /\ \A k \in 1..(Len(tokens) - 1) : tokens[k].after.pos <= tokens[k + 1].first
     /\ counted => \A k \in DOMAIN tokens :
          LET t == tokens[k] IN
          /\ t.line = 1 + Cardinality(LinesBefore(t.first))
          /\ t.column = t.first - Max({0} \cup LinesBefore(t.first))
     /\ \A k \in 1..(Len(tokens) - 1) :
          LET t == tokens[k]
              again == tokenize(SubSeq(source, t.first, t.after.pos - 1))
          IN /\ Len(again) = 2 /\ again[1].type = t.type
             /\ t.type \in {"INTEGER", "FLOAT"} =>
                  source[t.after.pos - 1] \in Digits \cup {"."}
                  /\ ((\E j \in t.first..(t.after.pos - 1) : source[j] \in {".", "e"}) <=> t.type = "FLOAT")
     /\ source # <<>> /\ whole /\ Last(source) \in LineEnds /\ ~Inside(Len(source)) =>
          SubSeq(tokens, 1, Len(tokens) - 1) = Front(tokenize(before))

\* Nodes as the grammar has them.
RECURSIVE WellFormed(_)
WellFormed(n) ==
  LET parts == SelectSeq(n.kids, LAMBDA k : ~_is_trivia(k))
      IsExpr(k) == parts[k].kind \notin {"OPERATOR", "PUNCTUATION"} /\ WellFormed(parts[k])
      IsOp(k) == parts[k].kind = "OPERATOR"
      inner == {k \in DOMAIN parts : ~_is_punctuation(parts[k])}
  IN CASE n.kind \in LiteralKinds \cup {"IDENTIFIER"} -> TRUE
       [] n.kind = "literal" -> Len(parts) = 1 /\ parts[1].kind \in LiteralKinds
       [] n.kind = "identifier" -> Len(parts) = 1 /\ parts[1].kind = "IDENTIFIER"
       [] n.kind = "binary" -> /\ Len(parts) % 2 = 1 /\ Len(parts) > 1
                               /\ \A k \in DOMAIN parts : IF k % 2 = 1 THEN IsExpr(k) ELSE IsOp(k)
       [] n.kind = "unary" -> Len(parts) = 2 /\ IsOp(1) /\ IsExpr(2)
       [] n.kind = "paren" -> /\ Cardinality(inner) = 1 /\ \A k \in inner : IsExpr(k)
                              /\ \A k \in DOMAIN parts \ inner : _is_parenthesis(parts[k])
       [] n.kind = "call" -> /\ parts # <<>> /\ IsExpr(1) /\ \A k \in inner : IsExpr(k)
       [] OTHER -> FALSE

\* The tokens under a node, without trivia and punctuation; and those of a tree.
RECURSIVE Written(_), Yield(_)
Written(n) ==
  IF n.kind \in {"TRIVIA", "PUNCTUATION"} THEN <<>>
  ELSE IF n.kind \in TokenKinds THEN <<n.value>>
  ELSE FlattenSeq([k \in DOMAIN n.kids |-> Written(n.kids[k])])
Yield(ast) ==
  LET kids == [k \in DOMAIN ast.kids |-> Yield(ast.kids[k])]
  IN CASE ast.op = "binary" -> kids[1] \o <<ast.value>> \o kids[2]
       [] ast.op = "unary" -> <<ast.value>> \o kids[1]
       [] ast.op = "call" -> FlattenSeq(kids)
       [] OTHER -> <<ast.value>>

RECURSIVE SpansNest(_), Bare(_), Subtrees(_)
SpansNest(ast) ==
  \A k \in DOMAIN ast.kids :
    /\ ast.span[1] <= ast.kids[k].span[1] /\ ast.kids[k].span[2] <= ast.span[2]
    /\ SpansNest(ast.kids[k])
Bare(n) ==
  LET kids == SelectSeq(n.kids, LAMBDA k : ~_is_trivia(k))
  IN [n EXCEPT !.kids = [k \in DOMAIN kids |-> Bare(kids[k])]]
Subtrees(ast) == {ast} \cup UNION {Subtrees(ast.kids[k]) : k \in DOMAIN ast.kids}

\* A well-formed tree is accepted and keeps its tokens in order, white space
\* and comments make no difference, and a node covers the text of its parts.
TreesAsWritten ==
  Forest # <<>> =>
    LET n == Last(Forest)
        ast == generate(n)
    IN /\ WellFormed(n) => ast.op # "error" /\ Yield(ast) = Written(n)
       /\ n.kind \notin TokenKinds => generate(Bare(n)) = ast
       /\ SpansNest(ast)

\* Where a whole number will do, so will a fraction; the operands may change
\* places; and an error says what was found, which is not what was expected
\* unless the order of two truth values was asked for.
TypesAgree ==
  LET types == Numeric \cup {"STRING", "BOOLEAN"}
      Widened(table) == [x \in DOMAIN table |-> IF table[x] = "INTEGER" THEN "FLOAT" ELSE table[x]]
  IN Forest # <<>> =>
       LET ast == generate(Last(Forest))
           now == infer(ast, Symbols)
           wide == infer(ast, Widened(Symbols))
           parts == {infer(t, Symbols).type : t \in Subtrees(ast)}
           Swapped == [ast EXCEPT !.kids = Reverse(@)]
       IN ast.op # "error" =>
          /\ now.type \in types => wide.type = now.type \/ {now.type, wide.type} = Numeric
          /\ now.type = None /\ now.actual # None =>
               /\ now.actual \in parts
               /\ now.expected = now.actual => now.actual = "BOOLEAN"
          /\ ast.op = "binary" => (now.type = None <=> infer(Swapped, Symbols).type = None)
          /\ ast.op = "binary" /\ now.type # None => infer(Swapped, Symbols).type = now.type

ReadsAsWritten ==
  /\ Inputs[input].stage = "text" => LexesAsWritten
  /\ Inputs[input].stage = "tree" => TreesAsWritten /\ TypesAgree
=============================================================================
