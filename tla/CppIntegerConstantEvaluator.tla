--------------------- MODULE CppIntegerConstantEvaluator ---------------------
(***************************************************************************)
(* The value of an #if expression: precedence climbing over the tokens     *)
(* left by macro expansion (CppIntegerConstantEvaluator), with the         *)
(* operators of CppToken.                                                  *)
(*                                                                         *)
(* A token is [k, t]: kind "num", "unum", "id", "op" or "punct" and its    *)
(* number or spelling.  Integers have Width bits instead of 64.            *)
(***************************************************************************)
EXTENDS Integers, FiniteSets, Sequences, SequencesExt, FiniteSetsExt, Bitwise

CONSTANTS
  Expressions,  \* the token lists that are evaluated
  Width         \* bits of an integer

VARIABLES
  expression,  \* tokens_
  value        \* what GetValue() returns; "none" before

evaluator_vars == <<expression, value>>

Wrap(n) == ((n + 2^(Width - 1)) % 2^Width) - 2^(Width - 1)
Unsigned(n) == n % 2^Width
Bool(b) == IF b THEN 1 ELSE 0
Abs(n) == IF n < 0 THEN -n ELSE n
Quotient(a, b) ==
  LET q == Abs(a) \div Abs(b) IN IF (a < 0) = (b < 0) THEN q ELSE -q

-----------------------------------------------------------------------------
(***************************************************************************)
(* CppToken.  A value is [v, u]: the integer and whether it is unsigned.   *)
(***************************************************************************)
Signed(n) == [v |-> n, u |-> FALSE]

PrecedenceOf ==
  "*" :> 9 @@ "/" :> 9 @@ "%" :> 9 @@ "+" :> 8 @@ "-" :> 8 @@ ">>" :> 7 @@ "<<" :> 7
  @@ ">" :> 6 @@ "<" :> 6 @@ ">=" :> 6 @@ "<=" :> 6 @@ "==" :> 5 @@ "!=" :> 5
  @@ "&" :> 4 @@ "^" :> 3 @@ "|" :> 2 @@ "&&" :> 1 @@ "||" :> 0

\* Mutant: operands are compared and divided as signed ones.
ConvertedNever(n, u) == n

\* static_cast<uint64_t> of both operands if one of them is unsigned.
Converted(n, u) == IF u THEN Unsigned(n) ELSE n

\* The operator functions.  Mod of unsigned operands divides them; a shift by
\* more than Width, undefined in C++, uses the low bits of the count; so is the
\* smallest number divided by -1, for which the result wraps around here.
ApplyOperator(op, a, b) ==
  LET u == a.u \/ b.u
      x == Converted(a.v, u)
      y == Converted(b.v, u)
      arith(n) == [v |-> Wrap(n), u |-> u]
      test(p) == Signed(Bool(p))
      ua == Unsigned(a.v)
      ub == Unsigned(b.v)
  IN  CASE op = "*" -> arith(x * y)
        [] op = "/" -> arith(IF y = 0 THEN 0 ELSE Quotient(x, y))
        [] op = "%" -> arith(IF y = 0 THEN 0 ELSE IF u THEN Quotient(x, y)
                             ELSE x - y * Quotient(x, y))
        [] op = "+" -> arith(x + y)
        [] op = "-" -> arith(x - y)
        [] op = ">>" -> arith(a.v \div 2^(b.v % Width))
        [] op = "<<" -> arith(a.v * 2^(b.v % Width))
        [] op = ">" -> test(x > y)
        [] op = "<" -> test(x < y)
        [] op = ">=" -> test(x >= y)
        [] op = "<=" -> test(x <= y)
        [] op = "==" -> test(a.v = b.v)
        [] op = "!=" -> test(a.v # b.v)
        [] op = "&" -> arith(ua & ub)
        [] op = "^" -> arith(ua ^^ ub)
        [] op = "|" -> arith(ua | ub)
        [] op = "&&" -> test(a.v # 0 /\ b.v # 0)
        [] op = "||" -> test(a.v # 0 \/ b.v # 0)

-----------------------------------------------------------------------------
(***************************************************************************)
(* The evaluator.  Each function returns its value and where iter_ is then.*)
(***************************************************************************)
Is(i, c) == i <= Len(expression) /\ expression[i] = [k |-> "punct", t |-> c]
IsOperator(i) == i <= Len(expression) /\ expression[i].k = "op"
Precedence(i) == PrecedenceOf[expression[i].t]
Yield(val, i) == [val |-> val, next |-> i]

\* Mutant: an operator of the same precedence binds to the right.
TighterOrSame(i, op) == IsOperator(i) /\ Precedence(i) >= PrecedenceOf[op]

\* The inner loop of Expression() goes on at i after operator op.
Tighter(i, op) == IsOperator(i) /\ Precedence(i) > PrecedenceOf[op]

RECURSIVE Conditional(_), Expression(_, _, _), Operand(_, _, _), Primary(_, _)
Primary(i, sign) ==
  LET tok == expression[i]
      result(n, u, j) == Yield([v |-> Wrap(sign * n), u |-> u], j)
      inner == Conditional(i + 1)
      arg == Primary(i + 1, 1)
  IN  CASE i > Len(expression) -> result(0, FALSE, i)
        [] i <= Len(expression) /\ tok.k = "op" /\ tok.t = "-" -> Primary(i + 1, -sign)
        [] i <= Len(expression) /\ tok.k = "op" /\ tok.t = "+" -> Primary(i + 1, sign)
        [] Is(i, "(") -> result(inner.val.v, FALSE,
                                IF Is(inner.next, ")") THEN inner.next + 1 ELSE inner.next)
        [] Is(i, "!") -> Yield(Signed(Bool(arg.val.v = 0)), arg.next)
        [] Is(i, "~") -> Yield(Signed(-1 - arg.val.v), arg.next)
        [] OTHER -> result(CASE tok.k \in {"num", "unum"} -> tok.t
                             [] tok.k = "id" -> Bool(tok.t = "true")
                             [] OTHER -> 0, tok.k = "unum", i + 1)

\* The right operand of op: val, and what binds tighter after it.
Operand(val, i, op) ==
  IF ~Tighter(i, op) THEN Yield(val, i)
  ELSE LET e == Expression(val, i, Precedence(i)) IN Operand(e.val, e.next, op)

Expression(left, i, min) ==
  IF ~IsOperator(i) \/ (IsOperator(i) /\ Precedence(i) < min) THEN Yield(left, i)
  ELSE LET op == expression[i].t
           p == Primary(i + 1, 1)
           right == Operand(p.val, p.next, op)
       IN  Expression(ApplyOperator(op, left, right.val), right.next, min)

Conditional(i) ==
  LET p == Primary(i, 1)
      test == Expression(p.val, p.next, 0)
      yes == Conditional(test.next + 1)
      no == Conditional(yes.next + 1)
  IN  IF ~Is(test.next, "?") THEN test
      ELSE IF ~Is(yes.next, ":") THEN Yield(Signed(0), yes.next)
      ELSE Yield(Signed(IF test.val.v # 0 THEN yes.val.v ELSE no.val.v), no.next)

GetValue ==
  /\ value = "none"
  /\ value' = ToString(Conditional(1).val.v)
  /\ UNCHANGED expression

EvaluatorInit(exprs) == expression \in exprs /\ value = "none"

-----------------------------------------------------------------------------
(***************************************************************************)
(* The grammar of ISO C: an expression is split at its weakest operator,   *)
(* the rightmost one of those that associate to the left.                  *)
(***************************************************************************)
Nesting(toks, i) ==
  Cardinality({j \in 1..i : toks[j] = [k |-> "punct", t |-> "("]})
  - Cardinality({j \in 1..i : toks[j] = [k |-> "punct", t |-> ")"]})
TopLevel(toks) == {i \in DOMAIN toks : Nesting(toks, i) = 0}
IsOperand(tok) == tok.k \in {"num", "unum", "id"} \/ tok = [k |-> "punct", t |-> ")"]
Binary(toks) ==
  {i \in TopLevel(toks) : i > 1 /\ toks[i].k = "op" /\ IsOperand(toks[i - 1])}

(***************************************************************************)
(* What ISO C says of an operator, over integers and not over words: a     *)
(* value is [v, u, d] with v the number itself, at least 0 if it is        *)
(* unsigned, and d whether it is defined (no overflow of a signed result,  *)
(* no division by 0, no shift by too much).                                *)
(***************************************************************************)
Fits(n) == n \in -(2^(Width - 1))..2^(Width - 1) - 1
Iso(n, u, d) == IF u THEN [v |-> n % 2^Width, u |-> TRUE, d |-> d]
                ELSE [v |-> IF Fits(n) THEN n ELSE 0, u |-> FALSE, d |-> d /\ Fits(n)]
\* The quotient of which the remainder has the sign of the dividend.
Truncated(x, y) ==
  CHOOSE q \in -Abs(x)..Abs(x) : Abs(x - q * y) < Abs(y) /\ (x - q * y) * x >= 0
Bits(n) == {k \in 0..Width - 1 : (n \div 2^k) % 2 = 1}
OfBits(bits) == MapThenSumSet(LAMBDA k : 2^k, bits)

IsoOperator(op, a, b) ==
  LET u == a.u \/ b.u
      x == IF u THEN a.v % 2^Width ELSE a.v
      y == IF u THEN b.v % 2^Width ELSE b.v
      d == a.d /\ b.d
      word(bits) == IF ~u /\ Width - 1 \in bits THEN OfBits(bits) - 2^Width ELSE OfBits(bits)
      test(p, e) == Iso(IF p THEN 1 ELSE 0, FALSE, e)
      shift(n) == IF b.v \in 0..Width - 1 THEN Iso(n, a.u, d) ELSE Iso(0, a.u, FALSE)
  IN  CASE op = "*" -> Iso(x * y, u, d)
        [] op = "/" -> IF y = 0 THEN Iso(0, u, FALSE) ELSE Iso(Truncated(x, y), u, d)
        [] op = "%" -> IF y = 0 THEN Iso(0, u, FALSE)
                       ELSE Iso(x - y * Truncated(x, y), u, d /\ (u \/ Fits(Truncated(x, y))))
        [] op = "+" -> Iso(x + y, u, d)
        [] op = "-" -> Iso(x - y, u, d)
        [] op = ">>" -> shift(a.v \div 2^(b.v % Width))
        [] op = "<<" -> shift(a.v * 2^(b.v % Width))
        [] op = ">" -> test(x > y, d)
        [] op = "<" -> test(x < y, d)
        [] op = ">=" -> test(x >= y, d)
        [] op = "<=" -> test(x <= y, d)
        [] op = "==" -> test(x = y, d)
        [] op = "!=" -> test(x # y, d)
        [] op = "&" -> Iso(word(Bits(x) \cap Bits(y)), u, d)
        [] op = "^" -> Iso(word((Bits(x) \cup Bits(y)) \ (Bits(x) \cap Bits(y))), u, d)
        [] op = "|" -> Iso(word(Bits(x) \cup Bits(y)), u, d)
        [] op = "&&" -> test(a.v # 0 /\ b.v # 0, a.d /\ (a.v = 0 \/ b.d))
        [] op = "||" -> test(a.v # 0 \/ b.v # 0, a.d /\ (a.v # 0 \/ b.d))

RECURSIVE IsoValue(_)
IsoValue(toks) ==
  LET quest == {i \in TopLevel(toks) : toks[i] = [k |-> "punct", t |-> "?"]}
      colon == {i \in TopLevel(toks) : toks[i] = [k |-> "punct", t |-> ":"]}
      weakest == Min({PrecedenceOf[toks[i].t] : i \in Binary(toks)})
      split == Max({i \in Binary(toks) : PrecedenceOf[toks[i].t] = weakest})
      from(i) == IsoValue(SubSeq(toks, i + 1, Len(toks)))
      upto(i) == IsoValue(SubSeq(toks, 1, i - 1))
      test == upto(Min(quest))
      yes == IsoValue(SubSeq(toks, Min(quest) + 1, Max(colon) - 1))
      no == from(Max(colon))
      chosen == IF test.v # 0 THEN yes ELSE no
      tok == Head(toks)
      rest == from(1)
  IN  CASE quest # {} -> Iso(chosen.v, yes.u \/ no.u, test.d /\ chosen.d)
        [] quest = {} /\ Binary(toks) # {} ->
             IsoOperator(toks[split].t, upto(split), from(split))
        [] OTHER ->
             CASE tok.k \in {"num", "unum"} -> Iso(tok.t, tok.k = "unum", TRUE)
               [] tok.k = "id" -> Iso(Bool(tok.t = "true"), FALSE, TRUE)
               [] tok.k = "op" -> IF tok.t = "-" THEN Iso(-rest.v, rest.u, rest.d) ELSE rest
               [] tok.t = "(" -> IsoValue(SubSeq(toks, 2, Len(toks) - 1))
               [] tok.t = "!" -> Iso(Bool(rest.v = 0), FALSE, rest.d)
               [] tok.t = "~" -> Iso(-1 - rest.v, rest.u, rest.d)

\* The unsigned type of an operand is lost in parentheses, ?: and ~, used wrongly
\* by % (which divides) and >> (which copies the sign), or taken from the count of <<.
TypeLost(toks) ==
  \E i, j \in DOMAIN toks :
    /\ toks[i].k = "unum"
    /\ \/ toks[j].k = "punct"
       \/ toks[j].k = "op" /\ toks[j].t \in {"%", ">>"}
       \/ toks[j].k = "op" /\ toks[j].t = "<<" /\ j < i

\* Precedence climbing over words computes what C says of integers, for every
\* combination of operators, signs and parentheses and at the ends of the range:
\* wrap around of unsigned operands, conversion of one
\* operand to the type of the other, division, shifts, and operands that && and ||
\* leave alone.  Excepted are expressions where the type of an operand is lost on the
\* way, and those C leaves undefined.  (A sign right before ! or ~, which Primary()
\* drops, is not among the expressions.)
SameAsGrammar ==
  value # "none" /\ ~TypeLost(expression)
    => LET iso == IsoValue(expression) IN iso.d => value = ToString(Wrap(iso.v))
==============================================================================
