--------------------------- MODULE ScriptEvaluator ---------------------------
(***************************************************************************)
(* The evaluator of the script sandbox.  A program is a forest of trees    *)
(* that grows symbol by symbol in postfix order: a symbol with kids makes  *)
(* a tree of the last ones.  An evaluation takes and answers the state of  *)
(* the script.  Left out are strings, arrays and their properties; the     *)
(* effect outside of the script is the entry of an order.                  *)
(***************************************************************************)
EXTENDS Fractions, Sequences, SequencesExt, FiniteSets

CONSTANTS
  Alphabets,   \* bounds: a sequence of [symbols, length, trees], what programs are made of;
               \* a symbol is [op, value, name, size]
  Closes,      \* the prices of the bars, a series
  InputValues, \* the inputs of the script, name |-> number
  FORBIDDEN_IDENTIFIERS,
  Budgets      \* numbers of limit checks after which the time is up

VARIABLES
  words,       \* the place in Alphabets of the symbols that program is made of
  program

vars == <<words, program>>

Statements == {"var_decl", "expr_stmt", "throw", "if", "while", "for", "block"}
ClassOf(op) == IF op \in Statements THEN "stmt" ELSE "expr"

\* What the kids of a symbol must be.
KidsOf(a) ==
  CASE a.op = "if" -> <<"expr">> \o [k \in 1..(a.size - 1) |-> "stmt"]
    [] a.op = "while" -> <<"expr", "stmt">>
    [] a.op = "for" -> <<"stmt", "expr", "expr", "stmt">>
    [] a.op = "block" -> [k \in 1..a.size |-> "stmt"]
    [] OTHER -> [k \in 1..a.size |-> "expr"]

Grown(forest, a) ==
  LET rest == Len(forest) - a.size
  IN Append(SubSeq(forest, 1, rest),
            [op |-> a.op, value |-> a.value, name |-> a.name, kids |-> SubSeq(forest, rest + 1, Len(forest))])

Forest == FoldLeft(Grown, <<>>, program)

TypeOK ==
  /\ words \in DOMAIN Alphabets
  /\ program \in Seq(Alphabets[words].symbols) /\ Len(program) <= Alphabets[words].length

Init == words \in DOMAIN Alphabets /\ program = <<>>

Next ==
  /\ Len(program) < Alphabets[words].length
  /\ \E a \in Alphabets[words].symbols :
       /\ a.size <= Len(Forest) /\ Len(Forest) < Alphabets[words].trees + a.size
       /\ [k \in 1..a.size |-> ClassOf(Forest[Len(Forest) - a.size + k].op)] = KidsOf(a)
       /\ a.op = "for" => Forest[Len(Forest) - 3].op \in {"var_decl", "expr_stmt"}
       /\ program' = Append(program, a)
  /\ UNCHANGED words

Spec == Init /\ [][Next]_vars

-----------------------------------------------------------------------------
\* Values.  A truth value counts as a number in arithmetic.
Val(kind, number, items) == [kind |-> kind, number |-> number, items |-> items]
Num(x) == Val("number", x, <<>>)
Bool(b) == Val("boolean", Whole(IF b THEN 1 ELSE 0), <<>>)
Undefined == Val("undefined", Whole(0), <<>>)
NaN == Val("nan", Whole(0), <<>>)
Series(items) == Val("series", Whole(0), items)

IsSeries(v) == v.kind = "series"
_is_na(v) == v.kind \in {"undefined", "nan"}

\* A series is true whatever it holds, and so is NaN.
Truthy(v) ==
  CASE v.kind \in {"series", "nan"} -> TRUE
    [] v.kind = "undefined" -> FALSE
    [] OTHER -> v.number # Whole(0)

Literals == [zero |-> Num(Whole(0)), one |-> Num(Whole(1)), two |-> Num(Whole(2)),
             true |-> Bool(TRUE), undefined |-> Undefined]

Arithmetic == {"+", "-", "*"}
Orders == {"<", "<=", ">", ">="}

Calculated(op, x, y) ==
  CASE op = "+" -> Plus(x, y)
    [] op = "-" -> Minus(x, y)
    [] op = "*" -> Product(x, y)
    [] op = "/" -> Over(x, y)

InOrder(op, x, y) ==
  CASE op = "<" -> Lesser(x, y)
    [] op = "<=" -> AtMost(x, y)
    [] op = ">" -> Lesser(y, x)
    [] op = ">=" -> AtMost(y, x)

\* An element of a series with a value: what is missing stays missing and is
\* in no order, and two missing values are equal.
Element(op, v, w) ==
  CASE op \in Arithmetic \cup {"/"} ->
         IF _is_na(v) \/ _is_na(w) \/ (op = "/" /\ w.number = Whole(0)) THEN NaN
         ELSE Num(Calculated(op, v.number, w.number))
    [] op \in Orders -> Bool(~_is_na(v) /\ ~_is_na(w) /\ InOrder(op, v.number, w.number))
    [] op \in {"==", "!="} ->
         LET equal == IF _is_na(v) \/ _is_na(w) THEN _is_na(v) /\ _is_na(w) ELSE v.number = w.number
         IN Bool(equal <=> op = "==")
    [] op = "&&" -> Bool(Truthy(v) /\ Truthy(w))
    [] op = "||" -> Bool(Truthy(v) \/ Truthy(w))

\* Two values that are no series.  The interpreter below raises where undefined
\* meets a number: that is Raised.
Raised == Val("raised", Whole(0), <<>>)

Scalar(op, v, w) ==
  LET undefined == "undefined" \in {v.kind, w.kind}
      nan == "nan" \in {v.kind, w.kind}
  IN CASE op = "&&" -> IF Truthy(v) THEN w ELSE v
       [] op = "||" -> IF Truthy(v) THEN v ELSE w
       [] op \in {"==", "!="} ->
            LET equal == IF undefined THEN v.kind = w.kind ELSE ~nan /\ v.number = w.number
            IN Bool(equal <=> op = "==")
       [] op = "/" /\ ~_is_na(w) /\ w.number = Whole(0) -> NaN
       [] OTHER ->
            IF undefined THEN Raised
            ELSE IF op \in Orders THEN Bool(~nan /\ InOrder(op, v.number, w.number))
            ELSE IF nan THEN NaN ELSE Num(Calculated(op, v.number, w.number))

\* A remainder of numbers is parsed and answers undefined, and one of series too.
_eval_bin_op(op, v, w) ==
  LET n == IF IsSeries(v) THEN Len(v.items) ELSE Len(w.items)
      At(u, i) == IF IsSeries(u) THEN u.items[i] ELSE u
  IN IF op = "%" THEN Undefined
     ELSE IF IsSeries(v) \/ IsSeries(w)
     THEN Series([i \in 1..n |-> Element(op, At(v, i), At(w, i))])
     ELSE Scalar(op, v, w)

\* A minus sign before a series or undefined raises.
_eval_unary(op, v) ==
  IF op = "!" THEN Bool(~Truthy(v))
  ELSE IF v.kind \in {"series", "undefined"} THEN Raised
  ELSE IF v.kind = "nan" THEN NaN
  ELSE Num(IF op = "-" THEN Minus(Whole(0), v.number) ELSE v.number)

-----------------------------------------------------------------------------
\* The state of a script: its variables, the current bar or 0, the bars of the
\* orders entered, the limit checks left, how it goes on, and the last value.
Start(env, close, budget) ==
  [env |-> env, bar |-> 0, log |-> <<>>, left |-> budget, status |-> "ok",
   val |-> Undefined, close |-> close]

NoVariables == [n \in {} |-> Undefined]

\* What raises is an error; its value is gone.
Valued(st, v) ==
  IF v.kind = "raised" THEN [st EXCEPT !.status = "error", !.val = Undefined]
  ELSE [st EXCEPT !.val = v]

Bind(env, name, v) == [n \in DOMAIN env \cup {name} |-> IF n = name THEN v ELSE env[n]]

check_limits(st) ==
  IF st.status # "ok" THEN st
  ELSE IF st.left = 0 THEN [st EXCEPT !.status = "timeout"] ELSE [st EXCEPT !.left = @ - 1]

\* A forbidden name raises; names of the interpreter come before variables, and
\* these before inputs.
Resolved(st, name) ==
  IF name \in FORBIDDEN_IDENTIFIERS THEN Raised
  ELSE IF name = "close" THEN st.close
  ELSE IF name \in DOMAIN st.env THEN st.env[name]
  ELSE IF name \in DOMAIN InputValues THEN Num(Whole(InputValues[name]))
  ELSE Raised

\* Statements and expressions are evaluated by one operator; whatever is to be
\* evaluated after an exception is not.
RECURSIVE run(_, _)

\* Several trees one after the other, with their values.
eval_all(trees, st) ==
  FoldLeft(LAMBDA acc, t :
             IF acc.st.status # "ok" THEN acc
             ELSE LET next == run(t, acc.st) IN [st |-> next, vals |-> Append(acc.vals, next.val)],
           [st |-> st, vals |-> <<>>], trees)

MutRestored(st, before) == IF st.status = "ok" THEN [st EXCEPT !.bar = before] ELSE st
Restored(st, before) == [st EXCEPT !.bar = before]

\* The branches of a conditional on a series, bar by bar; the bar is put back
\* after each, also by an exception.
EachBar(t, cond, st) ==
  FoldLeft(LAMBDA acc, i :
             LET yes == Truthy(cond.items[i])
             IN IF acc.status # "ok" \/ (~yes /\ Len(t.kids) = 2) THEN acc
                ELSE Restored(run(t.kids[IF yes THEN 2 ELSE 3], [acc EXCEPT !.bar = i]), acc.bar),
           st, [i \in DOMAIN cond.items |-> i])

\* The turns of a loop: a condition, a body and maybe a step.
MutAfterBody(t, st) == st
AfterBody(t, st) == IF t.op = "for" THEN run(t.kids[3], st) ELSE st

RECURSIVE Turns(_, _)
Turns(t, st) ==
  LET checked == check_limits(st)
      asked == run(t.kids[IF t.op = "for" THEN 2 ELSE 1], checked)
      done == run(Last(t.kids), asked)
  IN IF st.status # "ok" THEN st
     ELSE IF checked.status # "ok" THEN checked
     ELSE IF asked.status # "ok" \/ ~Truthy(asked.val) THEN asked
     ELSE Turns(t, AfterBody(t, done))

\* The name gets the new value, and the answer is another one after ++ and --.
Stored(st, name, new, answer) ==
  IF st.status # "ok" THEN st
  ELSE IF new.kind = "raised" THEN Valued(st, new)
  ELSE [st EXCEPT !.env = Bind(@, name, new), !.val = answer]

Computed(op, old, v) == IF op = "=" THEN v ELSE IF old = Raised THEN Raised ELSE _eval_bin_op(op, old, v)

\* The right side of an assignment is evaluated before the old value is read, and
\* the name is looked at last.
eval_assign(t, st) ==
  LET Assign(rhs, new) == Stored(rhs, t.name, new, new)
      After(rhs) == Assign(rhs, IF t.name \in FORBIDDEN_IDENTIFIERS THEN Raised
                                ELSE Computed(t.value, Resolved(rhs, t.name), rhs.val))
  IN After(run(t.kids[1], st))

\* Inputs are not looked at: a name that was not assigned counts from 0.
eval_postfix(t, st) ==
  LET old == IF t.name \in DOMAIN st.env THEN st.env[t.name] ELSE Num(Whole(0))
  IN Stored(st, t.name, _eval_bin_op(t.value, old, Num(Whole(1))), old)

execute_if(t, st) ==
  LET cond == run(t.kids[1], st)
  IN IF cond.status # "ok" THEN cond
     ELSE IF IsSeries(cond.val) THEN EachBar(t, cond.val, cond)
     ELSE IF Truthy(cond.val) THEN run(t.kids[2], cond)
     ELSE IF Len(t.kids) = 3 THEN run(t.kids[3], cond) ELSE cond

execute_block(stmts, st) ==
  FoldLeft(LAMBDA acc, s : run(s, check_limits(acc)), st, stmts)

\* Trees whose kids are all evaluated first; both operands of every operator are.
Applied(t, st, vals) ==
  IF st.status # "ok" THEN st
  ELSE CASE t.op = "unary_op" -> Valued(st, _eval_unary(t.value, vals[1]))
         [] t.op = "bin_op" -> Valued(st, _eval_bin_op(t.value, vals[1], vals[2]))
         [] t.op = "expr_stmt" -> st
         [] t.op = "var_decl" ->
              [st EXCEPT !.env = Bind(@, t.name, IF vals = <<>> THEN Undefined ELSE vals[1])]
         [] t.op = "throw" -> [st EXCEPT !.status = "error"]

entry(st) ==
  [st EXCEPT !.log = Append(@, IF st.bar = 0 THEN Len(Closes) ELSE st.bar), !.val = Undefined]

run(t, st) ==
  LET Finish(all) == Applied(t, all.st, all.vals)
      Choose(asked) ==
        IF asked.status # "ok" THEN asked ELSE run(t.kids[IF Truthy(asked.val) THEN 2 ELSE 3], asked)
  IN IF st.status # "ok" THEN st
     ELSE CASE t.op = "literal" -> Valued(st, Literals[t.value])
            [] t.op = "ident" -> Valued(st, Resolved(st, t.name))
            [] t.op = "entry" -> entry(st)
            [] t.op = "assign" -> eval_assign(t, st)
            [] t.op = "postfix" -> eval_postfix(t, st)
            [] t.op = "ternary" -> Choose(run(t.kids[1], st))
            [] t.op = "if" -> execute_if(t, st)
            [] t.op = "while" -> Turns(t, st)
            [] t.op = "for" -> Turns(t, run(t.kids[1], st))
            [] t.op = "block" -> execute_block(t.kids, st)
            [] OTHER -> Finish(eval_all(t.kids, st))

execute_program(stmts, st) == execute_block(stmts, st)

-----------------------------------------------------------------------------
IsProgram == Forest # <<>> /\ \A k \in DOMAIN Forest : ClassOf(Forest[k].op) = "stmt"
Prices == Series([i \in DOMAIN Closes |-> Num(Whole(Closes[i]))])
Fresh(budget) == Start(NoVariables, Prices, budget)
Effects(st) == [env |-> st.env, log |-> st.log, bar |-> st.bar, status |-> st.status]

\* A program that has more time does the same and goes on: one that ended stays
\* as it is, one that was stopped had done a first part of what it does.  No
\* bar is current when it is over, however it ended.
TimeOnlyStops ==
  LET Continues(short, long) ==
        /\ short.bar = 0
        /\ short.status # "timeout" => Effects(long) = Effects(short)
        /\ short.status = "timeout" => IsPrefix(short.log, long.log)
  IN \A b \in Budgets :
       Continues(execute_program(Forest, Fresh(b)), execute_program(Forest, Fresh(b + 1)))

\* The long forms of an abbreviated assignment and of a counting loop.
RECURSIVE Assigned(_), LongForm(_)
Assigned(t) ==
  (IF t.op \in {"assign", "postfix"} THEN {t.name} ELSE {})
    \cup UNION {Assigned(t.kids[k]) : k \in DOMAIN t.kids}

Tree(op, value, name, kids) == [op |-> op, value |-> value, name |-> name, kids |-> kids]
LongForm(t) ==
  LET kids == [k \in DOMAIN t.kids |-> LongForm(t.kids[k])]
  IN CASE t.op = "assign" /\ t.value # "=" /\ t.name \notin Assigned(t.kids[1]) ->
            Tree("assign", "=", t.name,
                 <<Tree("bin_op", t.value, "", <<Tree("ident", "", t.name, <<>>), kids[1]>>)>>)
       [] t.op = "for" ->
            Tree("block", "", "",
                 <<kids[1], Tree("while", "", "", <<kids[2],
                     Tree("block", "", "", <<kids[4], Tree("expr_stmt", "", "", <<kids[3]>>)>>)>>)>>)
       [] OTHER -> [t EXCEPT !.kids = kids]

\* They do the same when both have the time: a loop in its long form has more
\* statements to check.  An effect before an unknown name differs.
LongFormsAgree ==
  LET b == CHOOSE b \in Budgets : \A c \in Budgets : c <= b
      Agree(done, long) == done.status = "ok" => Effects(long) = Effects(done)
  IN Agree(execute_program(Forest, Fresh(b)),
           execute_program([k \in DOMAIN Forest |-> LongForm(Forest[k])], Fresh(3 * b + 3)))

\* An expression over series is, at each bar, the expression over the prices
\* of the bar.  That is so for arithmetic and order: a remainder has no series,
\* the signs ! and - and a choice do not reach into one, && and || answer truth
\* values there, and missing values are equal.
RECURSIVE Uses(_)
Uses(t) == {t.op, t.value, t.name} \cup UNION {Uses(t.kids[k]) : k \in DOMAIN t.kids}
BarByBar(t) ==
  LET env == [x |-> Num(Whole(1)), y |-> Num(Whole(2))]
      Same(at, v) == at.status = "ok" /\ at.val.kind = v.kind /\ at.val.number = v.number
      Agree(vector) ==
        vector.status = "ok" /\ IsSeries(vector.val) =>
          \A i \in DOMAIN Closes : Same(run(t, Start(env, Prices.items[i], 0)), vector.val.items[i])
      plain == Uses(t) \subseteq {"literal", "ident", "bin_op", "", "close", "x", "y", "zero", "one", "two", "/"}
                                 \cup Arithmetic \cup Orders
  IN plain => Agree(run(t, Start(env, Prices, 0)))

EvaluatesAsWritten ==
  /\ IsProgram => TimeOnlyStops /\ LongFormsAgree
  /\ Forest # <<>> /\ ClassOf(Last(Forest).op) = "expr" => BarByBar(Last(Forest))
=============================================================================
