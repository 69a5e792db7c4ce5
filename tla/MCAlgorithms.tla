----------------------------- MODULE MCAlgorithms -----------------------------
(***************************************************************************)
(* The algorithms over structured data, for TLC: the front end of Pine     *)
(* Script, the parser of the sandbox, its series, its evaluator and a      *)
(* script at work; the level-2 tree and the binary formats.  They are      *)
(* recursive.  They share no state; each behaviour explores one of them.   *)
(***************************************************************************)
EXTENDS Naturals, Sequences, FiniteSetsExt, TLC

CONSTANTS
  DepthLimit,
  SeriesValues, NA, Windows, MaxLength,
  Plots, Widths, BarCount, Period, OutputLimit, MaxSignals, MaxDepthOfIf, Budgets,
  BookLevels, Amounts,
  Doubles, Bits, BadBytes,
  None

VARIABLES
  \* the front end
  input, source,
  \* the parser
  tokens, alphabet,
  \* series
  left, right,
  \* the evaluator
  words, program,
  \* a script at work
  outputs, signals, total, bar, loops, checks, timeUp, unnoticed, over,
  \* the level-2 tree
  tree, quoted,
  \* the binary formats
  format, message, payload, damage, answer,
  \* the part that is explored
  part

\* Every construct of the language, a few at a time: how a script begins, what it
\* goes on with and how long it gets.  Strings may spell operators and keywords.
Typed(type, values) == {[type |-> type, value |-> v] : v \in values}
Words(values) == Typed("IDENT", values)
Signs(values) == Typed("SIGN", values)
Script(first, symbols, n) == [isText |-> FALSE, first |-> first, symbols |-> symbols, length |-> n]
Letters(symbols) == [isText |-> TRUE, first |-> <<>>, symbols |-> symbols, length |-> 6]
Sign(v) == [type |-> "SIGN", value |-> v]
Word(v) == [type |-> "IDENT", value |-> v]

Alphabets ==
  <<Script(<<>>, Words({"a"}) \cup Signs({"+", "*", "<", "&&", "!", "-"}), 5),
    Script(<<>>, Words({"a"}) \cup Signs({"(", ")", "[", "]", ",", ".", "+"}), 5),
    Script(<<>>, Words({"a"}) \cup Signs({"?", ":", "=", "+", "(", ")"}), 5),
    Script(<<>>, Words({"a", "if", "else"}) \cup Signs({"(", ")", "{", "}", ";"}), 5),
    Script(<<>>, Words({"a", "let", "throw"}) \cup Signs({"=", ";"}), 5),
    Script(<<>>, Words({"a", "new", "let"}) \cup Signs({".", "(", ")"})
                   \cup Typed("STRING", {"IDENT"}), 5),
    Script(<<>>, Words({"a"}) \cup Typed("NUMBER", {"1"}) \cup Typed("STRING", {"s", "-", "("})
                   \cup Signs({"-", "(", ")"}), 5),
    Script(<<Word("if"), Sign("("), Word("a"), Sign(")")>>,
           Words({"a", "else"}) \cup Typed("STRING", {"else", ";", "{"}) \cup Signs({"}"}), 8),
    Script(<<Word("for"), Sign("(")>>, Words({"a", "let"}) \cup Signs({";", ")"}), 9),
    Letters({"1", ".", "e", "+", "a"}), Letters({"/", "*", "\n", "a", "="}),
    Letters({"'", "\\", "\"", "n", "/"}), Letters({"\\", "u", "x", "1", "0"}),
    Letters({"\\", "u", "{", "}", "a"}), Letters({"=", "!", "&", "@", " "})>>

\* The tokens that trees are made of, and what the lexer and the generator
\* of trees are given.
Tok(kind, text) == [kind |-> kind, value |-> text]
Grouped(kind, n) == [kind |-> "group", value |-> kind, size |-> n]
Name(n) == Tok("IDENTIFIER", n)
Op(o) == Tok("OPERATOR", o)
Mark(c) == Tok("PUNCTUATION", c)
Gap == Tok("TRIVIA", " ")
One == Tok("INTEGER", "1")
Leaves == {Name("x"), Name("y"), Name("u"), One, Tok("FLOAT", ".5"),
           Tok("BOOLEAN", "true"), Tok("STRING", "s")}

Text(symbols, n) == [stage |-> "text", symbols |-> symbols, length |-> n]
Tree(symbols, n) == [stage |-> "tree", symbols |-> symbols, length |-> n]

InputsDef ==
  <<Text({"1", ".", "e", "+", "a"}, 5), Text({"'", "\\", "\n", "\r", "a", " "}, 5),
    Text({"/", "=", ":", "\n", "<", " "}, 5), Text({"t", "r", "u", "e", "1"}, 5),
    Text({"i", "f", "_", "(", "@"}, 4), Text({"\"", "'", "a", "/"}, 5),
    Tree(Leaves \cup {Op(o) : o \in {"+", "-", "/", "and", "<", "==", "%"}} \cup {Grouped("binary", 3)}, 4),
    Tree({Name("x"), Op("+"), Op("<"), Gap, Grouped("binary", 3), Grouped("binary", 5)}, 6),
    Tree({Name("x"), Op("<"), Op("not"), Grouped("unary", 2), Grouped("binary", 3)}, 6),
    Tree({Name("x"), Mark("("), Mark(")"), Gap, Grouped("paren", 3), Grouped("identifier", 1)}, 5),
    Tree({One, Mark("("), Mark(","), Grouped("call", 4), Grouped("literal", 1)}, 6)>>

Front == INSTANCE PineFrontEnd
         WITH Inputs <- InputsDef, Symbols <- [x |-> "INTEGER", y |-> "STRING"]
Parser == INSTANCE ScriptParser
Series == INSTANCE ScriptSeries

\* What programs are made of.
Symbol(op, what, name, n) == [op |-> op, value |-> what, name |-> name, size |-> n]
Literal(what) == Symbol("literal", what, "", 0)
Ident(name) == Symbol("ident", "", name, 0)
Binary(op) == Symbol("bin_op", op, "", 2)
Unary(op) == Symbol("unary_op", op, "", 1)
Assignment(name, op) == Symbol("assign", op, name, 1)
Postfix(name, op) == Symbol("postfix", op, name, 0)
Part(op, n) == Symbol(op, "", "", n)
Declaration(name) == Symbol("var_decl", "", name, 0)
Programs(symbols, n, trees) == [symbols |-> symbols, length |-> n, trees |-> trees]

ProgramsDef ==
  <<Programs({Ident("close"), Ident("x"), Ident("eval"), Literal("zero")}
               \cup {Binary(o) : o \in {"+", "-", "/", "<"}}, 5, 3),
    Programs({Postfix("x", "+"), Postfix("x", "-"), Postfix("y", "+"), Part("expr_stmt", 1),
              Part("block", 0), Part("block", 1), Part("for", 4), Part("while", 2)}, 7, 4),
    Programs({Ident("close"), Part("entry", 0), Postfix("x", "+"), Part("expr_stmt", 1),
              Part("throw", 1), Part("if", 2), Part("if", 3), Part("block", 2)}, 7, 3),
    Programs({Literal("one"), Ident("x"), Ident("y"), Ident("close"), Declaration("x"),
              Assignment("x", "="), Assignment("x", "+"), Assignment("eval", "="), Postfix("y", "+"),
              Part("expr_stmt", 1)}, 6, 2),
    Programs({Ident("close"), Part("entry", 0), Literal("undefined"), Literal("true"),
              Part("ternary", 3), Unary("!"), Unary("-"), Binary("&&"), Binary("=="),
              Binary("%"), Part("expr_stmt", 1), Assignment("x", "=")}, 5, 3)>>

Evaluator == INSTANCE ScriptEvaluator
             WITH Alphabets <- ProgramsDef, Closes <- <<1, 0, 2>>, InputValues <- [y |-> 2],
                  FORBIDDEN_IDENTIFIERS <- {"eval"}
Runtime == INSTANCE ScriptRuntime WITH Bars <- BarCount

Book == INSTANCE RedBlackTree WITH Levels <- BookLevels
Codec == INSTANCE BinaryProtocol
  WITH Texts <- {<<>>, <<65, 66>>}, Timestamps <- {-3, 5, 300}


frontVars == <<input, source>>
parserVars == <<tokens, alphabet>>
seriesVars == <<left, right>>
evaluatorVars == <<words, program>>
runtimeVars == <<outputs, signals, total, bar, loops, checks, timeUp, unnoticed, over>>
treeVars == <<tree, quoted>>
codecVars == <<format, message, payload, damage, answer>>
allVars == <<frontVars, parserVars, seriesVars, evaluatorVars, runtimeVars, treeVars, 
             codecVars, part>>

Parts == {"front", "parser", "series", "evaluator", "runtime", "tree", "codec"}

PartsInit ==
  /\ part \in Parts
  /\ part # "front" => input = 1
  /\ part # "evaluator" => words = 1
  /\ part # "parser" => alphabet = 1
  /\ Front!Init /\ Parser!Init /\ Series!Init /\ Evaluator!Init /\ Runtime!Init
  /\ Book!Init /\ Codec!Init

\* The parts that are not explored stay as they are.
Frozen ==
  /\ UNCHANGED part
  /\ part # "front" => UNCHANGED frontVars
  /\ part # "parser" => UNCHANGED parserVars
  /\ part # "series" => UNCHANGED seriesVars
  /\ part # "evaluator" => UNCHANGED evaluatorVars
  /\ part # "runtime" => UNCHANGED runtimeVars
  /\ part # "tree" => UNCHANGED treeVars
  /\ part # "codec" => UNCHANGED codecVars

PartsNext ==
  /\ \/ part = "front" /\ Front!Next
     \/ part = "parser" /\ Parser!Next
     \/ part = "series" /\ Series!Next
     \/ part = "evaluator" /\ Evaluator!Next
     \/ part = "runtime" /\ Runtime!Next
     \/ part = "tree" /\ Book!Next
     \/ part = "codec" /\ Codec!Next
  /\ Frozen

PartsSpec == PartsInit /\ [][PartsNext]_allVars

\* The properties of the parts, whose modules state them.
ScriptsReadAsWritten ==
  /\ part = "front" => Front!TypeOK /\ Front!ReadsAsWritten
  /\ part = "parser" => Parser!TypeOK /\ Parser!AsWritten
SeriesAgree == part = "series" => Series!SeriesAgree
ScriptsRunAsWritten ==
  /\ part = "evaluator" => Evaluator!TypeOK /\ Evaluator!EvaluatesAsWritten
  /\ part = "runtime" => Runtime!TypeOK /\ Runtime!OutputAddsUp /\ Runtime!LimitsHold
TreeHolds == part = "tree" => Book!TypeOK /\ Book!TreeHolds
MessagesSurvive == part = "codec" => Codec!TypeOK /\ Codec!MessagesSurvive
===============================================================================
