------------------------------- MODULE MCInclude -------------------------------
(* Small source trees, macro tables and expressions for the include processor,
   and small instances of the cache of what it finds. *)
EXTENDS CppReference, CppMacroExpander, CppIntegerConstantEvaluator, DepsCache

VARIABLE focus  \* which part of the include processor runs

Plain(op) == [op |-> op]
Named(op, m) == [op |-> op, name |-> m]
Inc(op, delim, n) == [op |-> op, delim |-> delim, name |-> n]
Cond(op, neg, kind, n) == [op |-> op, cond |-> [neg |-> neg, kind |-> kind, name |-> n]]
Else1 == Plain("else")
Endif == Plain("endif")

Simple == {Named("define", "M"), Named("undef", "M"), Inc("include", "\"", "b"),
           Inc("include", "<", "a"), Inc("include_next", "<", "a"), Plain("other")}
Few == {Named("define", "M"), Inc("include", "\"", "b")}
Opens == {Named("ifdef", "M"), Named("ifndef", "G"), Cond("if", TRUE, "defined", "G"),
          Cond("if", FALSE, "defined", "M"), Cond("if", FALSE, "has", "b"),
          Cond("if", FALSE, "value", "M")}
Elses == {Else1, Cond("elif", FALSE, "defined", "M"), Cond("elif", FALSE, "has", "b")}
Maybe(S) == {<<>>} \cup {<<s>> : s \in S}

Groups ==
  {<<o>> \o x \o <<Endif>> : o \in Opens, x \in Maybe(Simple)}
  \cup {<<o>> \o x \o <<e>> \o y \o <<Endif>> :
          o \in Opens, x \in Maybe(Few), e \in Elses, y \in Maybe(Few)}
  \cup {<<o>> \o <<e>> \o x \o <<Else1>> \o y \o <<Endif>> :
          o \in Opens, e \in Elses \ {Else1}, x \in Maybe(Few), y \in Maybe(Few)}
  \cup {<<o, p>> \o x \o <<Endif, Else1>> \o y \o <<Endif>> :
          o \in Opens, p \in Opens, x \in Maybe(Few), y \in Maybe(Few)}
Items == Groups \cup {<<s>> : s \in Simple}

\* Headers as they are: plain, guarded in several ways, once only.
Bodies ==
  Items
  \cup {<<Named("ifndef", "G"), Named("define", "G")>> \o x \o <<Endif>> : x \in Items}
  \cup {<<Plain("once")>> \o x : x \in Items}
  \cup {<<Cond("if", TRUE, "defined", "G")>> \o x \o <<Endif>> : x \in Items}
  \cup {<<Named("ifndef", "G"), Named("define", "G"), Else1>> \o x \o <<Endif>> :
          x \in Items}
  \cup {x \o <<Named("define", "G")>> : x \in Items}
BodiesB == {<<>>, <<Named("undef", "G")>>,
            <<Named("ifndef", "H"), Named("define", "H"), Inc("include", "<", "a"),
              Endif>>}
Mains == {<<Inc("include", "\"", "a"), Named("define", "M"), Inc("include", "<", "a")>>,
          <<Inc("import", "\"", "a"), Named("undef", "G"), Inc("include", "\"", "a")>>}
Main2 == <<Inc("include", "\"", "b"), Inc("include", "<", "b"), Inc("include", "<", "a")>>

\* Directory 1 is an -iquote directory; "b" of a header in 2 is the one next to it.
Tree(p, m, a, b) ==
  (<<0, "pre">> :> p) @@ (<<0, "main">> :> m)
  @@ (<<1, "b">> :> <<Named("define", "M")>>)
  @@ (<<2, "a">> :> a) @@ (<<2, "b">> :> b) @@ (<<3, "a">> :> <<Named("define", "M")>>)
Small == {Tree(<<>>, m, a, b) : m \in Mains, a \in Bodies, b \in BodiesB}
         \cup {Tree(<<Inc("include", "<", "a")>>, Main2, a, <<>>) : a \in Bodies}

\* A header that imports another one and is included twice.
ImportB == <<Inc("import", "\"", "a"), Named("ifdef", "M"), Inc("include", "<", "c"), Endif>>
Imports ==
  {Tree(p, <<Inc("include", "<", "b"), Named("define", "M"), Inc("include", "<", "b")>>,
        <<Plain("once")>>, ImportB) @@ (<<2, "c">> :> <<>>) :
     p \in {<<>>, <<Inc("include", "<", "a")>>}}
NoneAtAll == {}
Idle == {Tree(<<>>, <<>>, <<>>, <<>>)}
Root == <<<<0, "pre">>, <<0, "main">>>>

-----------------------------------------------------------------------------
\* Macro tables with F(X), A and the operators, and token lists to expand.
Id(n) == [k |-> "id", v |-> <<n>>]
X == [k |-> "param", v |-> <<"X">>]
Y == [k |-> "param", v |-> <<"Y">>]
Va == [k |-> "va", v |-> VaArgs]
Num == [k |-> "num", v |-> <<"1">>]
Obj(body) == [type |-> "obj", params |-> <<>>, vararg |-> FALSE, body |-> body]
Func(params, body) == [type |-> "func", params |-> params, vararg |-> FALSE, body |-> body]
Upto(S, n) == UNION {[1..m -> S] : m \in 0..n}
BodiesF == Upto({X, Id("A"), Id("F"), Punct("("), Punct(")")}, 3)
           \cup {<<X, Punct(","), Id("F")>>, <<Id("Has"), Punct("("), X, Punct(")")>>,
                 <<Id("F"), Punct("("), X, Punct(")"), Id("A")>>,
                 <<Id("A"), Punct("("), X, Punct(","), Id("A"), Punct(")")>>}
BodiesA == Upto({Id("F"), Punct("("), Punct(")"), Num}, 2)
           \cup {<<Id("A")>>, <<Num, Punct(","), Num>>, <<Id("defined"), Id("F")>>,
                 <<Id("F"), Punct("("), Num, Punct(")")>>}
Operators ==
  (<<"Cat">> :> Func(<<<<"X">>, <<"Y">>>>, <<X, [k |-> "glue", v |-> <<"##">>], Y>>))
  @@ (<<"Str">> :> Func(<<<<"X">>>>, <<[k |-> "sharp", v |-> <<"#">>], X>>))
  @@ (<<"List">> :> [type |-> "func", params |-> <<<<"X">>>>, vararg |-> TRUE,
        body |-> <<X, [k |-> "vaopt", v |-> <<"__VA_OPT__">>], Punct("("), Punct(","),
                   Punct(")"), Va>>])
  @@ (<<"Has">> :> [type |-> "callback_func", params |-> <<<<"X">>>>, vararg |-> FALSE,
                    body |-> <<>>])
  @@ (<<"A", "F">> :> Obj(<<Num>>))
Call(f, toks) == <<Id(f), Space, Punct("(")>> \o toks \o <<Punct(")")>>
Inputs == {Call("F", <<Id("A"), Space>>), Call("F", Call("F", <<Num>>)), Call("A", <<Id("A")>>),
           Call("F", <<>>) \o Call("Has", <<Id("A")>>)}
Cases == {[table |-> (<<"F">> :> Func(<<<<"X">>>>, f)) @@ (<<"A">> :> Obj(a)) @@ Operators,
           input |-> i, keep |-> a = <<>>] : f \in BodiesF, a \in BodiesA, i \in Inputs}
W == {<<"A">>, <<"F">>, <<"B">>}

-----------------------------------------------------------------------------
\* Expressions of two and three operators, with signs, parentheses and ?:.
N(n) == <<[k |-> "num", t |-> n]>>
U(n) == <<[k |-> "unum", t |-> n]>>
P(c) == <<[k |-> "punct", t |-> c]>>
O(o) == <<[k |-> "op", t |-> o]>>
Ops == DOMAIN PrecedenceOf
Ops1 == {"*", "-", "<<", "<", "==", "&", "&&", "||"}
Few1 == {N(3), O("-") \o N(2), U(2)}
Nums == {N(1), N(3), O("-") \o N(2), P("!") \o N(2), U(2), P("~") \o N(2)}
Edges == {N(0), N(1), N(5), N(7), N(8), N(127), O("-") \o N(1), O("-") \o N(127),
          U(0), U(1), U(3), U(128), U(255), O("-") \o U(1)}
Par(e) == P("(") \o e \o P(")")
Exprs ==
  {a \o O(o) \o b \o O(p) \o c : a \in Nums, b \in Few1, c \in {N(2)}, o \in Ops, p \in Ops}
  \cup {a \o O(o) \o N(2) \o O(p) \o N(3) \o O(q) \o N(1) : a \in Nums, o \in Ops1, p \in Ops1, q \in Ops1}
  \cup {a \o O(o) \o Par(N(1) \o O(p) \o b) : a \in Nums, b \in Few1, o \in Ops, p \in Ops1}
  \cup {O("-") \o Par(a \o O(o) \o N(2)) \o O(p) \o b : a \in Nums, b \in Few1, o \in Ops, p \in Ops1}
  \cup {a \o O(o) \o N(3) \o P("?") \o b \o O(p) \o N(3) \o P(":") \o N(2) \o O("-") \o N(3) :
          a \in Nums, b \in Few1, o \in Ops1, p \in Ops1}
  \cup {a \o O(o) \o b : a \in Edges, b \in Edges, o \in Ops}
  \cup {a \o O(o) \o N(1) \o O(p) \o b : a \in {N(0), N(1)}, b \in Edges,
                                         o \in {"&&", "||"}, p \in {"/", "%", "<<"}}

-----------------------------------------------------------------------------
\* Two tasks with one input file, which includes h; h is x or, without x, y, and x may
\* include y.  With one identifier, where x may appear; with two, over a restart, where
\* a file changes or loaded_ is whatever it is.
Places == "h" :> <<"x", "y">> @@ "k" :> <<"y">>
SourceVersions == "m" :> {{"h"}} @@ "x" :> {{}, {"k"}} @@ "y" :> {{}}
Plan(idents, absent, n, r, again) ==
  [ident |-> idents, absent |-> absent, edits |-> n, restarts |-> r, again |-> again]
SomeDepsPlans == {Plan(<<1, 1>>, {"x"}, 1, 0, {}), Plan(<<1, 2>>, {}, 1, 1, {1}),
                  Plan(<<1, 2>>, {}, 0, 1, {1, 2})}

\* Nobody looks for files.
NoDeps ==
  /\ deps_plan = Plan(<<1, 1>>, {}, 0, 0, {}) /\ deps = [t \in DepsTasks |-> EndDeps]
  /\ source = [f \in Sources |-> [stat |-> 1, dirs |-> {}]]
  /\ include_cache = <<>> /\ deps_table = NoTable /\ name_id = NoNames
  /\ loaded = TRUE /\ load = "done"
  /\ saved = [ok |-> FALSE, table |-> NoTable, names |-> NoNames]
  /\ saving = FALSE /\ edits = 0 /\ restarts = 0

-----------------------------------------------------------------------------
\* One part runs; the others stay in one of their initial states.
IdleCase == {[table |-> <<>>, input |-> <<>>, keep |-> FALSE]}
Init ==
  \/ focus = "parser" /\ ParserInit(Texts) /\ ExpanderInit(IdleCase) /\ EvaluatorInit({<<>>}) /\ NoDeps
  \/ focus = "expander" /\ ParserInit(Idle) /\ ExpanderInit(MacroCases) /\ EvaluatorInit({<<>>}) /\ NoDeps
  \/ focus = "evaluator" /\ ParserInit(Idle) /\ ExpanderInit(IdleCase) /\ EvaluatorInit(Expressions) /\ NoDeps
  \/ focus = "deps" /\ ParserInit(Idle) /\ ExpanderInit(IdleCase) /\ EvaluatorInit({<<>>}) /\ DepsInit

Next ==
  /\ \/ focus = "parser" /\ ParserNext /\ UNCHANGED <<expander_vars, evaluator_vars, deps_vars>>
     \/ focus = "expander" /\ ExpandMacro /\ UNCHANGED <<parser_vars, evaluator_vars, deps_vars>>
     \/ focus = "evaluator" /\ GetValue /\ UNCHANGED <<parser_vars, expander_vars, deps_vars>>
     \/ focus = "deps" /\ DepsNext /\ UNCHANGED <<parser_vars, expander_vars, evaluator_vars>>
  /\ UNCHANGED focus

Spec == Init /\ [][Next]_<<focus, parser_vars, expander_vars, evaluator_vars, deps_vars>>
================================================================================
