----------------------------- MODULE CppReference -----------------------------
(***************************************************************************)
(* What a preprocessor reads of a source tree, written down by recursion   *)
(* over files and conditional groups: no optimized lists, no include       *)
(* guards, no flags that survive a directive.  The yardstick of CppParser. *)
(***************************************************************************)
EXTENDS CppParser

\* Conditionals open before position k of a group that starts at i.
Nest(t, i, k) == Open(t, k - 1) - Open(t, i - 1)

\* Positions of the branches of the group that starts at i, and of its #endif.
Marks(t, i) ==
  LET here == {k \in (i + 1)..Len(t) : /\ t[k].op \in {"elif", "else", "endif"}
                                       /\ Nest(t, i, k) = 1}
      end == Min({k \in here : t[k].op = "endif"})
  IN  SetToSortSeq({i} \cup {k \in here : k <= end}, <)

\* The first of the directories that has the file.
RefFind(d, in) ==
  LET from == CASE d.op = "include_next" -> in.index + 1
                [] d.delim = "<" -> BracketDir
                [] OTHER -> 1
      near == IF d.delim = "\"" /\ d.op # "include_next"
              THEN <<[file |-> <<in.file[1], d.name>>, index |-> in.index]>>
              ELSE <<>>
      far == [i \in 1..(NDirs + 1 - from) |->
                [file |-> <<from + i - 1, d.name>>, index |-> from + i - 1]]
      found == SelectSeq(near \o far, LAMBDA c : c.file \in DOMAIN text)
  IN  IF found = <<>> THEN NotFound ELSE Head(found)

RefHas(c, in) == RefFind([op |-> "has", delim |-> "\"", name |-> c.name], in)

RefTrue(d, st, in) ==
  CASE d.op = "ifdef" -> d.name \in st.macros
    [] d.op = "ifndef" -> d.name \notin st.macros
    [] d.op \in {"else", "endif"} -> TRUE
    [] d.cond.kind = "has" -> d.cond.neg # (RefHas(d.cond, in) # NotFound)
    [] OTHER -> d.cond.neg # (d.cond.name \in st.macros)

RefReads(d, in) ==
  IF d.op \in {"if", "elif"} /\ d.cond.kind = "has" /\ RefHas(d.cond, in) # NotFound
  THEN {RefHas(d.cond, in).file} ELSE {}

RECURSIVE RefRun(_, _, _, _)
\* The state after directives i..j of the file in.
RefRun(st, in, i, j) ==
  LET t == text[in.file]
      d == t[i]
      f == RefFind(d, in)
      marks == Marks(t, i)
      chosen == Min({m \in DOMAIN marks : RefTrue(t[marks[m]], st, in)})
      tried == [st EXCEPT !.included =
                  @ \cup UNION {RefReads(t[marks[m]], in) : m \in 1..chosen}]
      branch == IF t[marks[chosen]].op = "endif" THEN tried
                ELSE RefRun(tried, in, marks[chosen] + 1, marks[chosen + 1] - 1)
      deeper == [file |-> f.file, index |-> f.index, depth |-> in.depth + 1]
      entered == [st EXCEPT !.included = @ \cup {f.file},
                            !.once = IF d.op = "import" THEN @ \cup {f.file} ELSE @]
      rest(s) == RefRun(s, in, i + 1, j)
  IN  IF i > j THEN st
      ELSE CASE d.op \in IfOps -> RefRun(branch, in, Last(marks) + 1, j)
             [] d.op = "define" -> rest([st EXCEPT !.macros = @ \cup {d.name}])
             [] d.op = "undef" -> rest([st EXCEPT !.macros = @ \ {d.name}])
             [] d.op = "once" -> rest([st EXCEPT !.once = @ \cup {in.file}])
             [] d.op = "other" -> rest(st)
             [] f = NotFound -> rest([st EXCEPT !.missing = TRUE])
             [] f.file \in st.once -> rest(st)
             [] in.depth >= DepthLimit -> rest([st EXCEPT !.deep = TRUE])
             [] OTHER -> rest(RefRun(entered, deeper, 1, Len(text[f.file])))

\* The state after all roots.
Reference ==
  FoldLeft(LAMBDA st, f :
             RefRun(st, [file |-> f, index |-> f[1], depth |-> 1], 1, Len(text[f])),
           [macros |-> {}, once |-> {}, included |-> ToSet(Front(Roots)),
            missing |-> FALSE, deep |-> FALSE],
           Roots)

\* Optimized lists, include guards and the flags of the condition stack leave
\* the result as it is: the parser reads exactly the headers the preprocessor
\* reads, ends with the same macros, and fails if a header is missing.  Include
\* chains as deep as the limit are left out: there the preprocessor fails.
ReadsTheSameFiles ==
  result # "running" =>
    LET r == Reference
    IN  /\ r.missing => result = "failed"
        /\ ~r.missing /\ ~r.deep =>
             result = "ok" /\ included = r.included /\ macros = r.macros
===============================================================================
