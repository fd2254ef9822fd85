--------------------------- MODULE InternalTools ---------------------------
(***************************************************************************)
(* The capabilities of the platform an agent may call by name              *)
(* (build_internal_handlers, services/tool_executors.py).  Each answers    *)
(* with "result", with an "error" the agent may reason about, or raises,   *)
(* which the executor turns into a failed call (ToolCalls.Internal).       *)
(* Numbers are told apart by their kind: "int", "big" (an int of more      *)
(* digits than Python prints), "float", "wild" (not finite), "complex".    *)
(* Left out: the wording of answers, and rounding.                         *)
(***************************************************************************)
EXTENDS Integers, Sequences, FiniteSets, SequencesExt

CONSTANTS
    MaxText,         \* _MAX_TEXT
    Century,         \* 36525 days
    FirstDay,        \* date.min and date.max, as days
    LastDay,
    MinutesPer       \* words read in a minute

----------------------------------------------------------------------------
(* calculator.  An expression is [node] with its children; what evaluating *)
(* it may come to is a set of kinds of numbers and of exceptions.          *)

Kinds == {"int", "big", "float", "wild", "complex"}
Caught == {"ZeroDivisionError", "ValueError", "TypeError", "OverflowError"}

\* Python's operators on two kinds of numbers; "add" stands for the sum, the
\* difference and the product.
Binary(op, l, r) ==
    CASE "complex" \in {l, r} /\ op \in {"floordiv", "mod"} -> {"TypeError"}
      [] "complex" \in {l, r} /\ op = "pow" ->
           {"complex", "ZeroDivisionError", "OverflowError"}
      [] "complex" \in {l, r} /\ op = "div" -> {"complex", "ZeroDivisionError"}
      [] "complex" \in {l, r} /\ op = "add" -> {"complex", "OverflowError"}
      [] {l, r} \subseteq {"int", "big"} /\ op = "add" -> {"int", "big"}
      [] {l, r} \subseteq {"int", "big"} /\ op \in {"floordiv", "mod"} ->
           {"int", "big", "ZeroDivisionError"}
      [] {l, r} \subseteq {"int", "big"} /\ op = "div" ->
           {"float", "ZeroDivisionError", "OverflowError"}
      [] {l, r} \subseteq {"int", "big"} /\ op = "pow" ->
           {"int", "big", "float", "ZeroDivisionError", "OverflowError", "ValueError"}
      [] OTHER ->
           {"float", "wild", "OverflowError"}
             \cup (IF op = "add" THEN {} ELSE {"ZeroDivisionError"})
             \cup (IF op = "pow" THEN {"complex", "ValueError"} ELSE {})

\* The function table: floor and ceil, the roots and logarithms, and the rest.
\* sum wants a sequence, and an expression has none to give; max and min want
\* two numbers.
Apply(f, args) ==
    LET a == args[1] IN
    CASE args = <<>> \/ f = "sum" -> {"TypeError"}
      [] args # <<>> /\ f = "abs" -> IF Len(args) > 1 THEN {"TypeError"}
                                     ELSE IF a = "complex" THEN {"float", "OverflowError"} ELSE {a}
      [] args # <<>> /\ f \in {"min", "max"} ->
           IF Len(args) < 2 \/ "complex" \in ToSet(args) THEN {"TypeError"} ELSE ToSet(args)
      [] args # <<>> /\ f \in {"round", "floor"} ->
           IF a = "complex" THEN {"TypeError"}
           ELSE IF a = "wild" THEN {"OverflowError", "ValueError", "wild", "TypeError"}
           ELSE {"int", "big", "float", "TypeError", "OverflowError"}
      [] OTHER -> IF "complex" \in ToSet(args) THEN {"TypeError"}
                  ELSE {"float", "wild", "ValueError", "TypeError", "OverflowError",
                        "ZeroDivisionError"}

Functions == {"abs", "round", "min", "max", "sum", "floor", "sqrt"}

RECURSIVE Evaluate(_)
Evaluate(e) ==
    CASE e.node = "number" -> {e.kind}
      [] e.node = "unary" -> Evaluate(e.of)
      [] e.node = "binary" ->
           LET l == Evaluate(e.left)
               r == Evaluate(e.right) IN
           (l \ Kinds) \cup (IF l \cap Kinds = {} THEN {} ELSE r \ Kinds)
             \cup UNION {Binary(e.op, x, y) : x \in l \cap Kinds, y \in r \cap Kinds}
      [] e.node = "call" ->
           IF e.f \notin Functions THEN {"ValueError"}
           ELSE LET of == [i \in DOMAIN e.args |-> Evaluate(e.args[i])] IN
                UNION {s \ Kinds : s \in ToSet(of)}
                  \cup UNION {Apply(e.f, as) :
                         as \in {g \in [DOMAIN of -> Kinds] : \A i \in DOMAIN of : g[i] \in of[i]}}
      [] OTHER -> {"ValueError"}

\* Only evaluating is guarded; the number is written afterwards, and JSON knows
\* no complex numbers, nor Python ints of any length.
Answer(outcome) ==
    CASE outcome \in Caught \cup {"wild"} -> "error"
      [] outcome \in {"complex", "big"} -> "raises"
      [] OTHER -> "result"

Calculator(e) == {Answer(o) : o \in Evaluate(e)}

----------------------------------------------------------------------------
(* date_calculator and current_datetime, in days.                          *)

Valid(day) == day \in FirstDay .. LastDay

\* parse: nothing said is today, and what is no date is refused.
Parsed(said, today) == IF said = {} THEN {today} ELSE {d \in said : Valid(d)}

\* A sum beyond the calendar is an OverflowError, which is not caught.
DateCalculator(operation, start, end, days, today) ==
    LET from == Parsed(start, today)
        to == Parsed(end, today) IN
    CASE operation = "difference" ->
           IF from = {} \/ to = {} THEN [says |-> "error", of |-> {}]
           ELSE [says |-> "result", of |-> {t - f : f \in from, t \in to}]
      [] operation = "add" ->
           IF from = {} \/ days > Century \/ days < -Century THEN [says |-> "error", of |-> {}]
           ELSE IF \E f \in from : ~Valid(f + days) THEN [says |-> "raises", of |-> {}]
           ELSE [says |-> "result", of |-> {f + days : f \in from}]
      [] operation = "weekday" ->
           [says |-> IF from = {} THEN "error" ELSE "result", of |-> from]
      [] OTHER -> [says |-> "error", of |-> {}]

\* current_datetime: another zone is told that it was not applied.
CurrentDatetime(zone) == [utc |-> TRUE, note |-> zone # "UTC"]

----------------------------------------------------------------------------
(* text_statistics: a text is a sequence of "a" (any letter), " " and "."  *)

Blank(t, i) == i \notin DOMAIN t \/ t[i] = " "
Words(t) == {i \in DOMAIN t : ~Blank(t, i) /\ Blank(t, i - 1)}

\* A run of stops before white space or the end.
SentenceEnds(t) == {i \in DOMAIN t : t[i] = "." /\ Blank(t, i + 1)}

TextStatistics(t) ==
    LET ends == Cardinality(SentenceEnds(t))
        words == Cardinality(Words(t)) IN
    IF Len(t) > MaxText THEN [says |-> "error", characters |-> 0, words |-> 0, sentences |-> 0,
                              spaceless |-> 0, minutes |-> 0]
    ELSE [says |-> "result", characters |-> Len(t), words |-> words,
          spaceless |-> Cardinality({i \in DOMAIN t : ~Blank(t, i)}),
          sentences |-> IF words > 0 /\ ends = 0 THEN 1 ELSE ends,
          minutes |-> (words + MinutesPer - 1) \div MinutesPer]

----------------------------------------------------------------------------
(* model_catalog and platform_status, each in a session of its own.        *)

\* Aliases are [alias, model, enabled], models [name, type], deployments
\* [model, state]; wanted is a set of at most one type.
ModelCatalog(aliases, models, deployments, wanted) ==
    LET rows == {<<a, m>> \in aliases \X models : a.enabled /\ a.model = m.name}
        live == {d.model : d \in {x \in deployments : x.state = "RUNNING"}}
        asked == {r \in rows : wanted = {} \/ r[2].type \in wanted} IN
    [models |-> {[alias |-> r[1].alias, model |-> r[2].name, deployed |-> r[2].name \in live] :
                    r \in asked},
     note |-> wanted # {} /\ asked = {},
     types |-> {r[2].type : r \in rows}]

\* A count of each state that occurs.
PlatformStatus(state) ==
    [s \in {state[x] : x \in DOMAIN state} |-> Cardinality({x \in DOMAIN state : state[x] = s})]
=============================================================================
