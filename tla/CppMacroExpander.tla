--------------------------- MODULE CppMacroExpander ---------------------------
(***************************************************************************)
(* Macro expansion of the include processor.  CppMacroExpander tries the   *)
(* fast expander, CppMacroExpanderCBV, which gives up on anything it might *)
(* get wrong; then CppMacroExpanderNaive, which keeps a hide set with      *)
(* every token, does the work.                                             *)
(*                                                                         *)
(* A token is [k, v]: a kind and its spelling, a sequence of letters.  A   *)
(* macro is [type, params, vararg, body]; params are the spellings of its  *)
(* parameters, in the order of their indices.                              *)
(***************************************************************************)
EXTENDS Integers, FiniteSets, Sequences, SequencesExt, FiniteSetsExt

CONSTANTS
  MacroCases,  \* the [table, input, keep] that are expanded
  Words        \* spellings of one letter

VARIABLES
  macro_case,  \* the macro table, the tokens and the space handling
  expanded     \* what Expand() returns: [by, out], by = "none" before

expander_vars == <<macro_case, expanded>>

Macros == DOMAIN macro_case.table
Macro(tok) == macro_case.table[tok.v]

Punct(c) == [k |-> "punct", v |-> <<c>>]
Space == [k |-> "space", v |-> <<" ">>]
Defined == [k |-> "id", v |-> <<"defined">>]
IsTok(tok, t) == tok.k = t.k /\ tok.v = t.v
IsParam(tok) == tok.k \in {"param", "va"}
Truth(b) == [k |-> "num", v |-> <<IF b THEN "1" ELSE "0">>]

NoSpace(toks) == SelectSeq(toks, LAMBDA t : t.k # "space")

\* The token a callback function such as __has_include returns.
CallbackFunc(toks) ==
  [k |-> "num", v |-> FlattenSeq([i \in DOMAIN NoSpace(toks) |-> NoSpace(toks)[i].v])]

-----------------------------------------------------------------------------
(***************************************************************************)
(* Arguments of a call: GetMacroArguments() and GetMacroArgument() of both *)
(* expanders.  toks begins after the macro's name.                         *)
(***************************************************************************)
NonSpace(toks) == {i \in DOMAIN toks : toks[i].k # "space"}
Trim(toks) ==
  IF NonSpace(toks) = {} THEN <<>>
  ELSE SubSeq(toks, Min(NonSpace(toks)), Max(NonSpace(toks)))
TrimLeft(toks) ==
  IF NonSpace(toks) = {} THEN <<>> ELSE SubSeq(toks, Min(NonSpace(toks)), Len(toks))

ParenLevel(toks, i) ==
  Cardinality({j \in 1..i : toks[j].k = "punct" /\ toks[j].v = <<"(">>})
  - Cardinality({j \in 1..i : toks[j].k = "punct" /\ toks[j].v = <<")">>})

IsParenBalanced(toks) ==
  /\ \A i \in DOMAIN toks : ParenLevel(toks, i) >= 0
  /\ ParenLevel(toks, Len(toks)) = 0

\* found is "ok", "no paren" or "unterminated"; marks are the places of "(", of
\* the commas and of ")".  T takes the spaces around an argument away.
NoCall(found) == [found |-> found, args |-> <<>>, marks |-> <<0>>]
Within(toks, marks) == Trim(SubSeq(toks, marks[1] + 1, Last(marks) - 1))
CutAt(toks, marks, T(_)) ==
  [found |-> "ok", marks |-> marks,
   args |-> IF Within(toks, marks) = <<>> THEN <<>>
            ELSE [n \in 1..(Len(marks) - 1) |-> T(SubSeq(toks, marks[n] + 1, marks[n + 1] - 1))]]

GetMacroArguments(toks, T(_)) ==
  LET start == IF NonSpace(toks) = {} THEN 0 ELSE Min(NonSpace(toks))
      ends == {i \in DOMAIN toks : i > start /\ ParenLevel(toks, i) = 0}
      comma(i) == ParenLevel(toks, i) = 1 /\ IsTok(toks[i], Punct(","))
      Marks(close) == SetToSortSeq({start, close} \cup {i \in start..close : comma(i)}, <)
  IN  IF start = 0 \/ ~IsTok(toks[start], Punct("(")) THEN NoCall("no paren")
      ELSE IF ends = {} THEN NoCall("unterminated")
      ELSE CutAt(toks, Marks(Min(ends)), T)

\* What follows a call.
After(toks, call) == SubSeq(toks, Last(call.marks) + 1, Len(toks))

-----------------------------------------------------------------------------
(***************************************************************************)
(* CppMacroExpanderCBV: arguments are expanded first, call by value.       *)
(***************************************************************************)
Fail == [ok |-> FALSE, out |-> <<>>]
Ok(out) == [ok |-> TRUE, out |-> out]
Join(r, s) == IF r.ok /\ s.ok THEN Ok(r.out \o s.out) ELSE Fail

\* Mutant: a comma that is no separator is let through.
UnsupportedNoComma(tok) ==
  tok.k \in {"sharp", "glue", "va", "vaopt"} \/ tok = Defined

\* Tokens the expander leaves to the other one.
Unsupported(tok) ==
  tok.k \in {"sharp", "glue", "va", "vaopt"} \/ tok = Punct(",") \/ tok = Defined

\* The value of each parameter.
Bind(params, values) ==
  [p \in ToSet(params) |-> values[CHOOSE n \in DOMAIN params : params[n] = p]]

\* macro->is_paren_balanced, and no variadic macro.
CbvMacro(m) == IsParenBalanced(m.body) /\ ~m.vararg

RECURSIVE CbvExpand(_, _, _)
\* Expand() at a macro: m, its call and the tokens after the call.
CbvMacroAt(toks, m, call, hideset, args) ==
  LET hides == hideset \cup {Head(toks).v}
      values == [n \in DOMAIN call.args |-> CbvExpand(call.args[n], hideset, args)]
      raw == call.args[1]
      plain == ~\E i \in DOMAIN raw : raw[i].k = "param"
  IN  CASE ~CbvMacro(m) -> [r |-> Fail, rest |-> <<>>]
        [] m.type = "obj" -> [r |-> CbvExpand(m.body, hides, <<>>), rest |-> Tail(toks)]
        [] m.type = "callback" -> [r |-> Ok(m.body), rest |-> Tail(toks)]
        [] call.found # "ok" \/ Len(call.args) # Len(m.params) -> [r |-> Fail, rest |-> <<>>]
        [] m.type = "callback_func" ->
             [r |-> IF plain THEN Ok(<<CallbackFunc(raw)>>)
                    ELSE IF values[1].ok THEN Ok(<<CallbackFunc(values[1].out)>>) ELSE Fail,
              rest |-> After(Tail(toks), call)]
        [] OTHER ->
             [r |-> IF \E n \in DOMAIN values : ~values[n].ok THEN Fail
                    ELSE CbvExpand(m.body, hides,
                                   Bind(m.params, [n \in DOMAIN values |-> values[n].out])),
              rest |-> After(Tail(toks), call)]

\* CppMacroExpanderCBV::Expand(): what becomes of the first token, and then the rest.
CbvExpand(toks, hideset, args) ==
  LET tok == Head(toks)
      then(step) == IF step.r.ok THEN Join(step.r, CbvExpand(step.rest, hideset, args)) ELSE Fail
      as(r) == [r |-> r, rest |-> Tail(toks)]
  IN  IF toks = <<>> THEN Ok(<<>>)
      ELSE then(
        CASE tok.k = "space" -> as(Ok(IF macro_case.keep THEN <<tok>> ELSE <<>>))
          [] tok.k = "param" -> as(IF tok.v \in DOMAIN args THEN Ok(args[tok.v]) ELSE Fail)
          [] Unsupported(tok) -> as(Fail)
          [] tok.k # "id" \/ tok.v \notin Macros \/ tok.v \in hideset -> as(Ok(<<tok>>))
          [] OTHER -> CbvMacroAt(toks, Macro(tok), GetMacroArguments(Tail(toks), TrimLeft),
                                 hideset, args))

-----------------------------------------------------------------------------
(***************************************************************************)
(* CppMacroExpanderNaive.  Its tokens have a hide set, hs.                 *)
(***************************************************************************)
With(toks, hs) == [i \in DOMAIN toks |-> [k |-> toks[i].k, v |-> toks[i].v, hs |-> hs]]
Bare(toks) == [i \in DOMAIN toks |-> [k |-> toks[i].k, v |-> toks[i].v]]
Add(toks, hs) == [i \in DOMAIN toks |-> [toks[i] EXCEPT !.hs = @ \cup hs]]

Stringize(toks) == [k |-> "str", v |-> FlattenSeq([i \in DOMAIN toks |-> toks[i].v])]

\* Mutant: the tokens are put next to each other.
GlueApart(out, tok) == Append(out, tok)

\* The last token of out and tok become one if their spellings make a word.
Glue(out, tok) ==
  LET last == Last(out)
      hs == last.hs \cap tok.hs
  IN  IF out = <<>> THEN <<tok>>
      ELSE IF {last.k, tok.k} \subseteq {"id", "num"}
      THEN Append(Front(out), [k |-> last.k, v |-> last.v \o tok.v, hs |-> hs])
      ELSE Front(out) \o <<[last EXCEPT !.hs = hs], [tok EXCEPT !.hs = hs]>>

VaArgs == <<"__VA_ARGS__">>

\* Whether a call may have n arguments.
Accepts(m, n) ==
  \/ n = Len(m.params) \/ (n > Len(m.params) /\ m.vararg)
  \/ n = 0 /\ Len(m.params) = 1

\* The value of each parameter, and of __VA_ARGS__: all that is left over, with
\* the commas; an argument that is missing is empty.
Actuals(m, toks, call) ==
  LET n == Len(m.params)
      names == IF m.vararg THEN Append(m.params, VaArgs) ELSE m.params
      va == IF Len(call.args) <= n THEN <<>>
            ELSE Trim(SubSeq(toks, call.marks[n + 1] + 1, Last(call.marks) - 1))
      values == IF call.args = <<>> THEN <<<<>>>> ELSE SubSeq(call.args, 1, n)
  IN  Bind(names, [i \in DOMAIN names |-> IF i = n + 1 THEN va ELSE values[i]])

RECURSIVE NaiveExpand(_, _), Substitute(_, _, _, _)
\* Substitute() at the first token of body, where more is what follows it, and opt
\* the call of __VA_OPT__ in text, if it is there.
SubstituteAt(m, body, more, text, opt, actuals, out) ==
  LET tok == Head(body)
      next == Head(more)
      actual(t) == actuals[t.v]
      given == m.vararg /\ actuals[VaArgs] # <<>>
      within == IF given THEN Within(text, opt.marks) ELSE <<>>
      nested == Substitute(m, within, actuals, IF tok.k = "glue" THEN <<>> ELSE out)
      go(b, o) == [rest |-> b, r |-> Ok(o)]
      stop == [rest |-> <<>>, r |-> Fail]
      add(o) == out \o With(o, {})
      glued(toks) == IF toks = <<>> THEN out ELSE Glue(out, Head(toks)) \o Tail(toks)
      after == TrimLeft(Tail(more))
      value == NaiveExpand(actual(tok), TRUE)
  IN  CASE tok.k = "vaopt" ->
             IF opt.found = "ok" /\ nested.ok THEN go(After(text, opt), nested.out) ELSE stop
        [] tok.k = "sharp" /\ more = <<>> -> stop
        [] tok.k = "sharp" /\ IsParam(next) ->
             go(Tail(more), add(<<Stringize(actual(next))>>))
        [] tok.k = "sharp" /\ next.k = "vaopt" ->
             IF opt.found = "ok" THEN go(After(text, opt), add(<<Stringize(within)>>)) ELSE stop
        [] tok.k = "sharp" -> go(Tail(more), out)
        [] tok.k = "glue" /\ more # <<>> /\ IsParam(next) -> go(Tail(more), glued(actual(next)))
        [] tok.k = "glue" /\ more # <<>> /\ next.k = "vaopt" ->
             IF opt.found = "ok" /\ nested.ok THEN go(After(text, opt), glued(nested.out)) ELSE stop
        [] tok.k = "glue" /\ more # <<>> -> go(Tail(more), glued(With(<<next>>, {})))
        [] IsParam(tok) /\ more # <<>> /\ next.k = "glue" ->
             CASE actual(tok) # <<>> -> go(Tail(body), out \o actual(tok))
               [] actual(tok) = <<>> /\ after # <<>> /\ IsParam(Head(after)) ->
                    go(Tail(after), out \o actual(Head(after)))
               [] OTHER -> go(Tail(more), out)
        [] IsParam(tok) -> IF value.ok THEN go(Tail(body), out \o value.out) ELSE stop
        [] OTHER -> go(Tail(body), add(<<tok>>))

\* Substitute(): the body of m after the tokens of out, without hsadd().
Substitute(m, body, actuals, out) ==
  LET more == TrimLeft(Tail(body))
      text == IF Head(body).k = "vaopt" THEN more ELSE Tail(more)
      then(step) == IF step.r.ok THEN Substitute(m, step.rest, actuals, step.r.out) ELSE Fail
  IN  IF body = <<>> THEN Ok(out)
      ELSE then(SubstituteAt(m, body, more, text, GetMacroArguments(text, Trim), actuals, out))

\* Expand() at an identifier, where call is its call and words what follows: what is
\* written, and what is still to be expanded.
NaiveAt(toks, m, call, words) ==
  LET tok == Head(toks)
      func == m.type = "func"
      hs == IF func THEN tok.hs \cap Tail(toks)[Last(call.marks)].hs ELSE tok.hs
      actuals == Actuals(m, Tail(toks), call)
      body == Substitute(m, m.body, IF func THEN actuals ELSE <<>>, <<>>)
      is(t, rest) == [ok |-> TRUE, out |-> With(<<t>>, {}), rest |-> rest]
      write(o) == [ok |-> TRUE, out |-> o, rest |-> Tail(toks)]
      replace(rest) == [ok |-> body.ok, out |-> <<>>,
                        rest |-> Add(body.out, hs \cup {tok.v}) \o rest]
      asked == IF words # <<>> /\ words[1].k = "id" THEN 1
               ELSE IF /\ call.found = "ok" /\ Len(call.args) = 1
                       /\ Len(call.args[1]) = 1 /\ call.args[1][1].k = "id"
               THEN 2 ELSE 0
  IN  CASE tok.v = Defined.v /\ asked = 1 -> is(Truth(words[1].v \in Macros), Tail(words))
        [] tok.v = Defined.v /\ asked = 2 ->
             is(Truth(call.args[1][1].v \in Macros), After(Tail(toks), call))
        [] OTHER ->
             CASE tok.v \notin Macros \/ tok.v \in tok.hs -> write(<<tok>>)
               [] m.type = "obj" -> replace(Tail(toks))
               [] m.type = "callback" -> write(With(m.body, {}))
               [] call.found # "ok" -> write(<<tok>>)
               [] ~Accepts(m, Len(call.args)) -> [ok |-> FALSE, out |-> <<>>, rest |-> <<>>]
               [] m.type = "func" -> replace(After(Tail(toks), call))
               [] OTHER -> [ok |-> TRUE, out |-> <<>>,
                            rest |-> With(<<CallbackFunc(actuals[m.params[1]])>>, {})
                                     \o After(Tail(toks), call)]

\* CppMacroExpanderNaive::Expand(): on failure out is what had been written.
NaiveExpand(toks, keep) ==
  LET tok == Head(toks)
      then(step) == IF ~step.ok THEN Fail
                    ELSE LET r == NaiveExpand(step.rest, keep)
                         IN  [r EXCEPT !.out = step.out \o @]
  IN  IF toks = <<>> THEN Ok(<<>>)
      ELSE then(IF tok.k = "id"
                THEN NaiveAt(toks, Macro(tok), GetMacroArguments(Tail(toks), Trim),
                             TrimLeft(Tail(toks)))
                ELSE [ok |-> TRUE, rest |-> Tail(toks),
                      out |-> IF tok.k # "space" \/ keep THEN <<tok>> ELSE <<>>])

-----------------------------------------------------------------------------
\* CppMacroExpander::Expand().
ExpandMacro ==
  /\ expanded.by = "none"
  /\ LET r == CbvExpand(macro_case.input, {}, <<>>)
     IN  expanded' = IF r.ok THEN [by |-> "cbv", out |-> r.out]
                     ELSE [by |-> "naive",
                           out |-> Bare(NaiveExpand(With(macro_case.input, {}),
                                                    macro_case.keep).out)]
  /\ UNCHANGED macro_case

ExpanderInit(cases) == macro_case \in cases /\ expanded = [by |-> "none", out |-> <<>>]

-----------------------------------------------------------------------------
\* Where the fast expander does not give up it has done what the precise one
\* does: only spaces may differ (it keeps those at the end of an argument).
ExpandersAgree ==
  expanded.by = "cbv" =>
    LET r == NaiveExpand(With(macro_case.input, {}), macro_case.keep)
    IN  r.ok /\ NoSpace(Bare(r.out)) = NoSpace(expanded.out)

\* The operators of Substitute(), for words a and b of the macro table: ##
\* pastes arguments as they are written and the result is expanded again, #
\* spells its argument as it is written, __VA_OPT__ and __VA_ARGS__ give back the
\* list they were called with.  Cat, Str and List are X ## Y, #X and
\* X __VA_OPT__(,) __VA_ARGS__.
OperatorLaws ==
  LET word(w) == [k |-> "id", v |-> w]
      out(toks) == Bare(NaiveExpand(With(toks, {}), FALSE).out)
      call(f, args) ==
        <<word(<<f>>), Punct("(")>>
        \o FlattenSeq([i \in DOMAIN args |->
             IF i = 1 THEN <<args[1]>> ELSE <<Punct(","), Space, args[i]>>])
        \o <<Punct(")")>>
      laws(a, b) ==
        {<<call("Cat", <<word(a), word(b)>>), <<word(a \o b)>>>>,
         <<call("Str", <<word(a)>>), <<[k |-> "str", v |-> a]>>>>,
         <<call("List", <<word(a)>>), <<word(a)>>>>,
         <<call("List", <<word(a), word(b)>>), <<word(a), Punct(","), word(b)>>>>}
  IN  expanded.by # "none" =>
        \A a, b \in Words : \A law \in laws(a, b) :
          out(law[1]) = out(law[2])

\* Macro expansion is right: the two expanders agree where both are used, and the
\* precise one obeys the laws of its operators.
ExpansionIsRight == ExpandersAgree /\ OperatorLaws
==============================================================================
