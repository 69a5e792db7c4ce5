---------------------------- MODULE ScriptParser ----------------------------
(***************************************************************************)
(* The tokenizer and the recursive-descent parser of the script sandbox.   *)
(* A script grows by a token or, for the tokenizer, by a character.  A     *)
(* token has a type and a value, and the parser asks for the value alone   *)
(* nearly everywhere, so that a string, or a name, that spells an operator *)
(* is one.  A parse takes the tokens that are left and the nesting depth,  *)
(* and answers with the tree and the tokens left after it.                 *)
(***************************************************************************)
EXTENDS Naturals, Sequences, SequencesExt, FiniteSets, FiniteSetsExt, TLC

CONSTANTS
  Alphabets,   \* a sequence: how scripts begin, the tokens they go on with, how many
               \* at most; the same for texts and their characters
  DepthLimit   \* nesting at which the parser gives up

VARIABLES tokens, alphabet

vars == <<tokens, alphabet>>

Chosen == Alphabets[alphabet]

TypeOK == tokens \in Seq(Chosen.symbols \cup ToSet(Chosen.first)) /\ Len(tokens) <= Chosen.length

Init == alphabet \in DOMAIN Alphabets /\ tokens = Chosen.first

\* A script, one token longer.
Next ==
  /\ Len(tokens) < Chosen.length
  /\ \E t \in Chosen.symbols : tokens' = Append(tokens, t)
  /\ UNCHANGED alphabet

Spec == Init /\ [][Next]_vars

-----------------------------------------------------------------------------
Leaf(value) == [leaf |-> value]
Node(op, kids) == [op |-> op, kids |-> kids]
IsLeaf(tree) == "leaf" \in DOMAIN tree
Nothing == Node("nothing", <<>>)

\* The result of a parse, and of a syntax error.
Parsed(tree, rest) == [ok |-> TRUE, tree |-> tree, rest |-> rest]
Failed == [ok |-> FALSE, tree |-> Nothing, rest |-> <<>>]

Then(r, Go(_)) == IF r.ok THEN Go(r) ELSE Failed

\* r with its tree under a node, after other trees.
Under(op, kids, r) == Then(r, LAMBDA x : Parsed(Node(op, Append(kids, x.tree)), x.rest))

\* A script ends in EOF.
peek(rest) == IF rest = <<>> THEN [type |-> "EOF", value |-> ""] ELSE rest[1]
Spells(rest) == peek(rest).value

\* A token is also what it spells: a string "IDENT" is a name.
match(rest, what) == peek(rest).type = what \/ Spells(rest) = what

expect(r, what) == IF r.ok /\ match(r.rest, what) THEN Parsed(r.tree, Tail(r.rest)) ELSE Failed

Named(rest) == expect(Parsed(Leaf(Spells(rest)), rest), "IDENT")

\* Binary operators by level, the loosest first; the mutant reads + and * alike.
MutLevels == <<{"||"}, {"&&"}, {"==", "!="}, {"<", ">"}, {"+", "-", "*", "/"}, {"%"}>>
Levels == <<{"||"}, {"&&"}, {"===", "!==", "==", "!="}, {"<", "<=", ">", ">="}, {"+", "-"}, {"*", "/", "%"}>>

AssignOps == {"=", "+=", "-=", "*=", "/="}
PrefixOps == {"-", "!", "+", "typeof"}
Declarators == {"const", "let", "var"}

\* The rules that call each other do it by name: a rule, the tokens left, the
\* depth before the call.  Statements, assignments, unary and primary
\* expressions each count as one level.
RECURSIVE parse(_, _, _)

\* Expressions with commas between them, and those up to a closing token.
RECURSIVE parse_arg_list(_, _)
parse_arg_list(rest, d) ==
  Then(parse("assignment", rest, d), LAMBDA r :
    IF Spells(r.rest) # "," THEN Parsed(Node("items", <<r.tree>>), r.rest)
    ELSE Then(parse_arg_list(Tail(r.rest), d), LAMBDA more :
           Parsed(Node("items", <<r.tree>> \o more.tree.kids), more.rest)))

parse_items(rest, d, close) ==
  expect(IF Spells(rest) = close THEN Parsed(Nothing, rest) ELSE parse_arg_list(rest, d), close)

\* Strings, numbers and names are told by their types, and a keyword is a name.
\* Parentheses leave no trace in the tree.
parse_primary(rest, d) ==
  LET t == peek(rest)
      after == Tail(rest)
      constructor == Named(after)
      arguments == Then(expect(constructor, "("), LAMBDA r : parse_items(r.rest, d + 1, ")"))
  IN IF d + 1 > DepthLimit THEN Failed
     ELSE CASE t.type = "NUMBER" -> Parsed(Leaf(t.value), after)
            [] t.type = "STRING" -> Parsed(Leaf("'" \o t.value \o "'"), after)
            [] t.type = "IDENT" /\ t.value = "new" ->
                 Under("new", <<Leaf("new"), constructor.tree>>, arguments)
            [] t.type = "IDENT" /\ t.value # "new" -> Parsed(Leaf(t.value), after)
            [] t.type \notin {"NUMBER", "STRING", "IDENT"} /\ t.value = "(" ->
                 expect(parse("assignment", after, d + 1), ")")
            [] t.type \notin {"NUMBER", "STRING", "IDENT"} /\ t.value = "[" ->
                 parse_items(after, d + 1, "]")
            [] OTHER -> Failed

\* Members, calls, indexes and increments, as many as follow.
RECURSIVE parse_postfix(_, _)
parse_postfix(left, d) ==
  LET t == Spells(left.rest)
      after == Tail(left.rest)
      suffix == CASE t = "." -> Under(".", <<Leaf(".")>>, Named(after))
                  [] t = "(" -> parse_items(after, d, ")")
                  [] t = "[" -> expect(parse("assignment", after, d), "]")
                  [] OTHER -> Parsed(Leaf(t), after)
  IN IF t \notin {".", "(", "[", "++", "--"} THEN left
     ELSE Then(Under("postfix", <<left.tree>>, suffix), LAMBDA r : parse_postfix(r, d))

parse_unary(rest, d) ==
  IF d + 1 > DepthLimit THEN Failed
  ELSE IF Spells(rest) \in PrefixOps
  THEN Under("prefix", <<Leaf(Spells(rest))>>, parse("unary", Tail(rest), d + 1))
  ELSE Then(parse("primary", rest, d + 1), LAMBDA r : parse_postfix(r, d + 1))

\* The six levels of binary operators have one shape: an operand of the next
\* level, then as many operators of this level as follow, to the left.
RECURSIVE parse_level(_, _, _), Chain(_, _, _)
parse_level(n, rest, d) ==
  IF n > Len(Levels) THEN parse("unary", rest, d)
  ELSE Then(parse_level(n + 1, rest, d), LAMBDA r : Chain(n, r, d))

Chain(n, left, d) ==
  LET op == Spells(left.rest)
  IN IF op \notin Levels[n] THEN left
     ELSE Then(Under("binary", <<left.tree, Leaf(op)>>, parse_level(n + 1, Tail(left.rest), d)),
               LAMBDA r : Chain(n, r, d))

parse_ternary(rest, d) ==
  Then(parse_level(1, rest, d), LAMBDA cond :
    IF Spells(cond.rest) # "?" THEN cond
    ELSE Then(expect(parse("assignment", Tail(cond.rest), d), ":"), LAMBDA yes :
           Under("ternary", <<cond.tree, Leaf("?"), yes.tree, Leaf(":")>>,
                 parse("assignment", yes.rest, d))))

parse_assignment(rest, d) ==
  IF d + 1 > DepthLimit THEN Failed
  ELSE Then(parse_ternary(rest, d + 1), LAMBDA left :
         IF Spells(left.rest) \notin AssignOps THEN left
         ELSE Under("assign", <<left.tree, Leaf(Spells(left.rest))>>,
                    parse("assignment", Tail(left.rest), d + 1)))

\* Statements up to a closing brace or the end; empty ones are skipped.
RECURSIVE parse_statements(_, _, _, _)
parse_statements(rest, d, done, closing) ==
  IF peek(rest).type = "EOF" \/ Spells(rest) \in closing THEN Parsed(Node("block", done), rest)
  ELSE IF Spells(rest) = ";" THEN parse_statements(Tail(rest), d, done, closing)
  ELSE Then(parse("statement", rest, d), LAMBDA r :
         parse_statements(r.rest, d, Append(done, r.tree), closing))

\* A declaration, whose name may have a value.
parse_declaration(rest, d) ==
  Then(Under("let", <<Leaf(Spells(rest))>>, Named(Tail(rest))), LAMBDA r :
    IF Spells(r.rest) # "=" THEN r
    ELSE Under("let", Append(r.tree.kids, Leaf("=")), parse("assignment", Tail(r.rest), d)))

\* if and while: a condition in parentheses, a statement, perhaps another.
parse_conditional(rest, d) ==
  LET keyword == Spells(rest)
  IN Then(expect(Parsed(Nothing, Tail(rest)), "("), LAMBDA opened :
       Then(expect(parse("assignment", opened.rest, d), ")"), LAMBDA cond :
         Then(Under(keyword, <<Leaf(keyword), cond.tree>>, parse("statement", cond.rest, d)),
           LAMBDA r : IF keyword = "while" \/ Spells(r.rest) # "else" THEN r
                      ELSE Under("if", Append(r.tree.kids, Leaf("else")),
                                 parse("statement", Tail(r.rest), d)))))

\* The three parts of the header of a loop may be missing.
parse_for(rest, d) ==
  LET part(r, stop) == IF Spells(r.rest) = stop THEN Parsed(Nothing, r.rest)
                       ELSE parse("assignment", r.rest, d)
      first(r) == IF Spells(r.rest) \in Declarators THEN parse_declaration(r.rest, d)
                  ELSE part(r, ";")
  IN Then(expect(Parsed(Nothing, Tail(rest)), "("), LAMBDA opened :
       Then(expect(first(opened), ";"), LAMBDA init :
         Then(expect(part(init, ";"), ";"), LAMBDA cond :
           Then(expect(part(cond, ")"), ")"), LAMBDA step :
             Under("for", <<Leaf("for"), init.tree, cond.tree, step.tree>>,
                   parse("statement", step.rest, d))))))

\* Where a semicolon may follow, it is taken along.
parse_statement(rest, d) ==
  LET t == Spells(rest)
      e == d + 1
      simple == CASE t = "throw" -> Under("throw", <<Leaf(t)>>, parse("assignment", Tail(rest), e))
                  [] t \in Declarators -> parse_declaration(rest, e)
                  [] OTHER -> parse("assignment", rest, e)
  IN IF e > DepthLimit THEN Failed
     ELSE CASE t = "{" -> expect(parse_statements(Tail(rest), e, <<>>, {"}"}), "}")
            [] t \in {"if", "while"} -> parse_conditional(rest, e)
            [] t = "for" -> parse_for(rest, e)
            [] OTHER -> IF simple.ok /\ Spells(simple.rest) = ";"
                        THEN expect(simple, ";") ELSE simple

parse(rule, rest, d) ==
  CASE rule = "statement" -> parse_statement(rest, d)
    [] rule = "assignment" -> parse_assignment(rest, d)
    [] rule = "unary" -> parse_unary(rest, d)
    [] rule = "primary" -> parse_primary(rest, d)

\* At the outside only the end is the end.
parse_program(script) == parse_statements(script, 0, <<>>, {})

-----------------------------------------------------------------------------
\* Tokens of a text.  A scan starts at a place and answers the place after it,
\* or 0 for a syntax error.
Blanks == {" ", "\n"}
\* The third quotation mark, a backtick, is like these.
Quotes == {"\"", "'"}
Digits == {"0", "1"}
Letters == {"a", "e", "n", "u", "x", "_"}
Operators == {"===", "!==", "==", "!=", "<=", ">=", "++", "--", "&&", "||", "+=", "-=", "*=", "/=",
              "+", "-", "*", "/", "=", "<", ">", "!", "%", "&", "|", "^", "~"}
Marks == {";", ",", ".", "(", ")", "{", "}", "[", "]", "?", ":"}

At(s, i) == IF i \in DOMAIN s THEN s[i] ELSE "end"
Two(s, i) == At(s, i) \o At(s, i + 1)
Three(s, i) == Two(s, i) \o At(s, i + 2)

\* The first place from i on whose character is not in the set.
RunEnd(s, i, set) == Min({j \in i..(Len(s) + 1) : At(s, j) \notin set})

\* A comment from its first slash on; the second kind may hold anything.
LineCommentEnd(s, i) == Min({j \in i..(Len(s) + 1) : At(s, j) \in {"\n", "end"}})

MutBlockCommentEnd(s, i) ==
  LET closing == {j \in (i + 1)..(Len(s) - 1) : Two(s, j) = "*/"}
  IN IF closing = {} THEN 0 ELSE Min(closing) + 2

BlockCommentEnd(s, i) ==
  LET closing == {j \in (i + 2)..(Len(s) - 1) : Two(s, j) = "*/"}
  IN IF closing = {} THEN 0 ELSE Min(closing) + 2

\* From inside of a string; a backslash takes the next character along.
RECURSIVE StringEnd(_, _, _)
StringEnd(s, i, quote) ==
  IF i > Len(s) THEN 0
  ELSE IF s[i] = quote THEN i + 1
  ELSE StringEnd(s, IF s[i] = "\\" /\ i < Len(s) THEN i + 2 ELSE i + 1, quote)

\* A number has one point at most, and an exponent ends it.
NumberEnd(s, i) ==
  LET whole == RunEnd(s, i, Digits)
      end == IF At(s, whole) = "." THEN RunEnd(s, whole + 1, Digits) ELSE whole
      sign == IF At(s, end + 1) \in {"+", "-"} THEN end + 2 ELSE end + 1
  IN IF end > whole /\ At(s, end) = "." THEN 0
     ELSE IF At(s, end) = "e" THEN RunEnd(s, sign, Digits) ELSE end

\* What an escape sequence of one character stands for, and a character by its code.
Escapes == [n |-> "\n"]
Chr(code) == "U" \o ToString(code)
HexDigits == [c \in {"0", "1", "a", "e"} |-> CASE c = "0" -> 0 [] c = "1" -> 1 [] c = "a" -> 10 [] c = "e" -> 14]

\* The number that hexadecimal digits spell, with 0x before them or not; the
\* characters that are no digits make it none.  The signs, blanks and underscores
\* that Python reads in numbers are left out.
HexValue(digits) ==
  LET plain == IF Len(digits) > 2 /\ SubSeq(digits, 1, 2) = <<"0", "x">> THEN SubSeq(digits, 3, Len(digits))
               ELSE digits
  IN IF plain # <<>> /\ ToSet(plain) \subseteq DOMAIN HexDigits
     THEN <<FoldLeft(LAMBDA sum, c : 16 * sum + HexDigits[c], 0, plain)>> ELSE <<>>

\* The escape sequence whose letter is at i: what it stands for, the place after it.
Escape(s, i) ==
  LET Coded(digits, end) ==
        IF HexValue(digits) = <<>> THEN <<s[i], i + 1>> ELSE <<Chr(HexValue(digits)[1]), end>>
      closing == {j \in (i + 2)..Len(s) : s[j] = "}"}
  IN CASE s[i] = "x" /\ i + 2 <= Len(s) -> Coded(SubSeq(s, i + 1, i + 2), i + 3)
       [] s[i] = "u" /\ At(s, i + 1) = "{" /\ closing # {} ->
            Coded(SubSeq(s, i + 2, Min(closing) - 1), Min(closing) + 1)
       [] s[i] = "u" /\ At(s, i + 1) # "{" /\ i + 4 <= Len(s) -> Coded(SubSeq(s, i + 1, i + 4), i + 5)
       [] s[i] = "0" -> <<Chr(0), i + 1>>
       [] OTHER -> <<IF s[i] \in DOMAIN Escapes THEN Escapes[s[i]] ELSE s[i], i + 1>>

RECURSIVE Decoded(_, _)
Decoded(s, i) ==
  LET Joined(e) == <<e[1]>> \o Decoded(s, e[2])
  IN IF i > Len(s) THEN <<>>
     ELSE Joined(IF s[i] = "\\" /\ i < Len(s) THEN Escape(s, i + 1) ELSE <<s[i], i + 1>>)

_decode_escapes(s) == Decoded(s, 1)

\* What is at i: a kind and the place after it.  A point is a mark, also before
\* digits, so that no number begins with one.
Scanned(s, i) ==
  LET c == s[i]
  IN CASE c \in Blanks -> <<"GAP", i + 1>>
       [] Two(s, i) = "//" -> <<"GAP", LineCommentEnd(s, i)>>
       [] Two(s, i) = "/*" -> <<"GAP", BlockCommentEnd(s, i)>>
       [] c \in Quotes -> <<"STRING", StringEnd(s, i + 1, c)>>
       [] c \in Marks -> <<"PUNCT", i + 1>>
       [] c \in Digits -> <<"NUMBER", NumberEnd(s, i)>>
       [] c \in Letters -> <<"IDENT", RunEnd(s, i, Letters \cup Digits)>>
       [] OTHER -> <<"OP", IF Three(s, i) \in Operators THEN i + 3
                           ELSE IF Two(s, i) \in Operators THEN i + 2
                           ELSE IF c \in Operators THEN i + 1 ELSE 0>>

\* The tokens of a text, an ERROR last if there is one.
RECURSIVE Scan(_, _)
Scan(s, i) ==
  LET Go(t) ==
        IF t[2] = 0 THEN <<[type |-> "ERROR", first |-> i, after |-> i]>>
        ELSE (IF t[1] = "GAP" THEN <<>> ELSE <<[type |-> t[1], first |-> i, after |-> t[2]]>>)
             \o Scan(s, t[2])
  IN IF i > Len(s) THEN <<>> ELSE Go(Scanned(s, i))

tokenize(s) == Scan(s, 1)

-----------------------------------------------------------------------------
Punctuation == {"(", ")", "[", "]", "{", "}", ",", ";"}

\* The tokens a tree stands for, in order, without punctuation.
RECURSIVE Yield(_)
Yield(tree) ==
  IF IsLeaf(tree) THEN <<tree.leaf>>
  ELSE FlattenSeq([k \in DOMAIN tree.kids |-> Yield(tree.kids[k])])

\* How tightly a tree holds together, as a writer of scripts expects it.
Rank(op) ==
  CASE op = "||" -> 1
    [] op = "&&" -> 2
    [] op \in {"==", "!=", "===", "!=="} -> 3
    [] op \in {"<", "<=", ">", ">="} -> 4
    [] op \in {"+", "-"} -> 5
    [] op \in {"*", "/", "%"} -> 6
    [] OTHER -> 7

Binding(tree) ==
  CASE IsLeaf(tree) -> 7
    [] ~IsLeaf(tree) /\ tree.op \in {"assign", "ternary"} -> 0
    [] ~IsLeaf(tree) /\ tree.op = "binary" -> Rank(tree.kids[2].leaf)
    [] OTHER -> 7

\* Without parentheses, tighter operators are further down, and operators of
\* one level lean to the left.
RECURSIVE Leaning(_)
Leaning(tree) ==
  IsLeaf(tree) \/
    /\ tree.op = "binary" =>
         Binding(tree.kids[1]) >= Binding(tree) /\ Binding(tree.kids[3]) > Binding(tree)
    /\ \A k \in DOMAIN tree.kids : Leaning(tree.kids[k])

\* Scripts of operands and operators only: which of them are well formed, said
\* without a parser.  Two operands in a row begin a new statement.
Flat == \A t \in ToSet(tokens) :
          t.type # "STRING" /\ t.value \in {"a", "!", "-", "+", "*", "<", "&&", "=="}

WellFormed ==
  LET step(state, t) ==
        CASE state = "bad" -> "bad"
          [] t.value = "a" -> "have"
          [] t.value = "!" -> "want"
          [] t.value \in {"-", "+"} -> "want"
          [] OTHER -> IF state = "have" THEN "want" ELSE "bad"
  IN FoldLeft(step, "none", tokens) \in {"none", "have"}

Strings == {k \in DOMAIN tokens : tokens[k].type = "STRING"}

\* The script with names in the places of some strings, and in the places of the
\* others what they spell.
WithoutStrings(names) ==
  [k \in DOMAIN tokens |->
     IF k \in names THEN [type |-> "IDENT", value |-> "'" \o tokens[k].value \o "'"]
     ELSE IF k \in Strings THEN [type |-> "SIGN", value |-> tokens[k].value]
     ELSE tokens[k]]

\* The script with a number in the place of every string.
WithNumbers ==
  [k \in DOMAIN tokens |->
     IF k \in Strings THEN [type |-> "NUMBER", value |-> "'" \o tokens[k].value \o "'"]
     ELSE tokens[k]]

Reserved == UNION {Levels[n] : n \in DOMAIN Levels} \cup AssignOps \cup PrefixOps \cup Declarators
              \cup Punctuation \cup {".", "?", ":", "++", "--", "if", "else", "while", "for", "throw", "IDENT"}

\* What a script without strings is parsed to is what was written: every token is
\* in the tree, in order and once, and operators bind by their level and to the
\* left.  A script with strings that is accepted is one of these, some strings
\* being operands and the others the operators and keywords they spell; strings
\* that spell nothing are operands wherever a number is.  Of operands and
\* operators, nothing well formed is refused nor anything else accepted.
ParsesAsWritten ==
  LET r == parse_program(tokens)
      Reads(script) ==
        /\ script = tokens \/ parse_program(script) = r
        /\ Yield(r.tree) = SelectSeq([k \in DOMAIN script |-> script[k].value],
                                      LAMBDA v : v \notin Punctuation)
        /\ (\A k \in DOMAIN script : script[k].value # "(") => Leaning(r.tree)
  IN /\ r.ok => \E names \in SUBSET Strings : Reads(WithoutStrings(names))
     /\ Strings # {} /\ (\A k \in Strings : tokens[k].value \notin Reserved)
          => r = parse_program(WithNumbers)
     /\ Flat /\ 4 + Len(tokens) <= DepthLimit => (r.ok <=> WellFormed)

\* White space and comments, said without a tokenizer.
RECURSIVE IsGap(_)
IsGap(s) ==
  \/ s = <<>>
  \/ s[1] \in Blanks /\ IsGap(Tail(s))
  \/ \E k \in DOMAIN s :
       /\ \/ Two(s, 1) = "//" /\ (k = Len(s) \/ s[k + 1] = "\n") /\ "\n" \notin ToSet(SubSeq(s, 1, k))
          \/ /\ Two(s, 1) = "/*" /\ k >= 4 /\ Two(s, k - 1) = "*/"
             /\ \A j \in 3..(k - 2) : Two(s, j) # "*/"
       /\ IsGap(SubSeq(s, k + 1, Len(s)))

IsRefused(ts) == ts # <<>> /\ Last(ts).type = "ERROR"
Spelled(s, t) == SubSeq(s, t.first, t.after - 1)
Lexemes(s, ts) == [k \in DOMAIN ts |-> <<ts[k].type, Spelled(s, ts[k])>>]

\* A value as a string literal, with the quotes and backslashes in it escaped.
Literal(v, quote) ==
  <<quote>> \o FlattenSeq([k \in DOMAIN v |-> IF v[k] \in {quote, "\\"} THEN <<"\\", v[k]>> ELSE <<v[k]>>])
  \o <<quote>>

\* What is between tokens is white space and comments; with a blank in place of
\* them the tokens are the same; a value that escapes stand for is written as a
\* literal and read again as it was; and a text that is refused, but not for the
\* end of a string or comment, is refused whatever follows.
TokensAsWritten ==
  LET Holds(s, ts) ==
        LET Between(k) == SubSeq(s, IF k = 1 THEN 1 ELSE ts[k - 1].after,
                                 IF k > Len(ts) THEN Len(s) ELSE ts[k].first - 1)
            Same(text) == Lexemes(text, tokenize(text)) = Lexemes(s, ts)
            apart == FlattenSeq([k \in DOMAIN ts |-> Spelled(s, ts[k]) \o <<" ">>])
        IN IF IsRefused(ts)
           THEN Two(s, Last(ts).first) = "/*" \/ s[Last(ts).first] \in Quotes
                \/ \A c \in Chosen.symbols : IsRefused(tokenize(Append(s, c)))
           ELSE /\ \A k \in 1..(Len(ts) + 1) : IsGap(Between(k))
                /\ Same(apart)
      Returns(v, literal) ==
        /\ tokenize(literal) = <<[type |-> "STRING", first |-> 1, after |-> Len(literal) + 1]>>
        /\ _decode_escapes(SubSeq(literal, 2, Len(literal) - 1)) = v
      Survives(v) == \A q \in Quotes : Returns(v, Literal(v, q))
  IN Holds(tokens, tokenize(tokens)) /\ Survives(_decode_escapes(tokens))

AsWritten == IF Chosen.isText THEN TokensAsWritten ELSE ParsesAsWritten
=============================================================================
