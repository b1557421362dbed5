------------------------------ MODULE CppParser ------------------------------
(***************************************************************************)
(* The include processor (client/cxx/include_processor): the headers a     *)
(* translation unit reads, found without running the compiler.             *)
(*                                                                         *)
(* A header is parsed once into a list of directives; IncludeCache         *)
(* optimizes the list and looks for an include guard.  CppParser runs the  *)
(* lists with a stack of inputs, a stack of conditions and a macro table,  *)
(* and skips a header it takes for already processed.                      *)
(*                                                                         *)
(* A file is <<directory, name>>; directory 0 is that of the source file,  *)
(* 1..NDirs are include_dirs.  A macro is defined or not.                  *)
(***************************************************************************)
EXTENDS Integers, FiniteSets, Sequences, SequencesExt, FiniteSetsExt

CONSTANTS
  Texts,       \* source trees: functions from the files to their directives
  Roots,       \* the -include files and the source file, in order
  NDirs,       \* include directories 1..NDirs
  BracketDir,  \* bracket_include_dir_index_: those before it are -iquote
  DepthLimit   \* kIncludeFileDepthLimit

IfOps == {"if", "ifdef", "ifndef"}

\* Conditionals still open after the first n directives of a list.
Open(list, n) ==
  Cardinality({i \in 1..n : list[i].op \in IfOps})
  - Cardinality({i \in 1..n : list[i].op = "endif"})

\* Every #endif of a file has its #if, and every #if its #endif.
WellNested(list) ==
  /\ \A n \in 0..Len(list) : Open(list, n) >= 0
  /\ Open(list, Len(list)) = 0

ASSUME ParserAssumption ==
  /\ NDirs \in Nat /\ BracketDir \in 1..(NDirs + 1) /\ DepthLimit \in Nat \ {0}
  /\ Roots # <<>> /\ Roots \in Seq(ToSet(Roots))
  /\ \A t \in Texts : ToSet(Roots) \subseteq DOMAIN t
ASSUME TextsAssumption ==
  \A t \in Texts : \A f \in DOMAIN t :
    f[1] \in 0..NDirs /\ t[f] \in Seq(ToSet(t[f])) /\ WellNested(t[f])

VARIABLES
  text,       \* the source tree
  item,       \* IncludeItem of each file: optimized directives, guard
  todo,       \* root_includes_with_index that are not processed yet
  inputs,     \* inputs_
  conditions, \* conditions_
  in_false,   \* condition_in_false_depth_
  macros,     \* macro_env_: the defined macros
  once,       \* pragma_once_fileset_
  guard_of,   \* include_guard_ident_
  included,   \* shared_include_files_
  disabled,   \* disabled_
  result      \* of GetIncludeFiles: "running", "ok" or "failed"

env == <<macros, once, guard_of>>
tree == <<text, item, todo, result>>
parser_vars == <<tree, inputs, conditions, in_false, env, included, disabled>>

Nil == "none"  \* no include guard
NotFound == [file |-> <<>>, index |-> 0]

-----------------------------------------------------------------------------
(***************************************************************************)
(* CppDirectiveOptimizer.                                                  *)
(***************************************************************************)
\* An #if or #elif without __has_include: evaluating it has no effect.
Quiet(d) == d.cond.kind # "has"

IsDroppableElse(d) == d.op = "else" \/ (d.op = "elif" /\ Quiet(d))

IsDroppableIf(d) == d.op \in {"ifdef", "ifndef"} \/ (d.op = "if" /\ Quiet(d))

DropElses(list) ==
  SubSeq(list, 1, Max({0} \cup {i \in DOMAIN list : ~IsDroppableElse(list[i])}))

\* Mutant: the #endif of a group without directives stays.
OptimizeStepKeepsEndif(list, d) ==
  LET kept == DropElses(list)
  IN  IF d.op = "endif" /\ kept # <<>> /\ IsDroppableIf(Last(kept))
      THEN Append(Front(kept), d) ELSE Append(list, d)

\* One pass of the loop of Optimize(): at #endif, empty branches before it go,
\* and the whole group if no directive is left in it; #if defined becomes
\* #ifdef or #ifndef.
OptimizeStep(list, d) ==
  LET kept == DropElses(list)
  IN  CASE d.op = "endif" ->
             IF kept # <<>> /\ IsDroppableIf(Last(kept))
             THEN Front(kept) ELSE Append(kept, d)
        [] d.op = "if" /\ d.cond.kind = "defined" ->
             Append(list, [op |-> IF d.cond.neg THEN "ifndef" ELSE "ifdef",
                           name |-> d.cond.name])
        [] OTHER -> Append(list, d)

Optimize(list) ==
  LET optimized[n \in 0..Len(list)] ==
        IF n = 0 THEN <<>> ELSE OptimizeStep(optimized[n - 1], list[n])
  IN  optimized[Len(list)]

-----------------------------------------------------------------------------
(***************************************************************************)
(* IncludeGuardDetector.                                                   *)
(***************************************************************************)
GuardIdent(d) ==
  IF d.op = "ifndef" THEN d.name
  ELSE IF d.op = "if" /\ d.cond.kind = "defined" /\ d.cond.neg THEN d.cond.name
  ELSE Nil

\* Mutant: an #else of the guard itself is overlooked.
GuardStepNoElse(s, d) ==
  CASE d.op \in IfOps ->
         [ok |-> s.ok /\ (s.depth > 0 \/ (GuardIdent(d) # Nil /\ s.ident = Nil)),
          depth |-> s.depth + 1,
          ident |-> IF s.depth = 0 THEN GuardIdent(d) ELSE s.ident]
    [] d.op \in {"elif", "else"} -> s
    [] d.op = "endif" -> [s EXCEPT !.depth = @ - 1, !.ok = @ /\ s.depth > 0]
    [] OTHER -> [s EXCEPT !.ok = @ /\ s.depth > 0]

\* State::OnProcess...: the guard must be the only thing at the top level.
GuardStep(s, d) ==
  CASE d.op \in IfOps ->
         [ok |-> s.ok /\ (s.depth > 0 \/ (GuardIdent(d) # Nil /\ s.ident = Nil)),
          depth |-> s.depth + 1,
          ident |-> IF s.depth = 0 THEN GuardIdent(d) ELSE s.ident]
    [] d.op \in {"elif", "else"} -> [s EXCEPT !.ok = @ /\ s.depth > 1]
    [] d.op = "endif" -> [s EXCEPT !.depth = @ - 1, !.ok = @ /\ s.depth > 0]
    [] OTHER -> [s EXCEPT !.ok = @ /\ s.depth > 0]

DetectGuard(list) ==
  LET s == FoldLeft(GuardStep, [ok |-> TRUE, depth |-> 0, ident |-> Nil], list)
  IN  IF s.ok /\ s.depth = 0 THEN s.ident ELSE Nil

\* Item::CreateFromFile().
IncludeItem(list) ==
  [directives |-> Optimize(list), guard |-> DetectGuard(Optimize(list))]

-----------------------------------------------------------------------------
(***************************************************************************)
(* Looking for a file.                                                     *)
(***************************************************************************)
DirsWith(n) == {d \in 1..NDirs : <<d, n>> \in DOMAIN text}

\* IncludeFileFinder::Lookup(): the first directory from i that has the name;
\* the search starts at the first one that has it at all.
Lookup(n, i) ==
  LET start == Max({i, Min(DirsWith(n))})
      hits == {d \in DirsWith(n) : d >= start}
  IN  IF DirsWith(n) = {} \/ hits = {} THEN 0 ELSE Min(hits)

Top == Last(inputs)

\* The file a directive of the current input names, with the index it is
\* given, or NotFound: "..." is looked for next to the current file first.
Find(d) ==
  LET near == <<Top.file[1], d.name>>
      from == CASE d.op = "include_next" -> Top.index + 1
                [] d.delim = "<" -> BracketDir
                [] OTHER -> 1
      far == Lookup(d.name, from)
  IN  IF d.delim = "\"" /\ d.op # "include_next" /\ near \in DOMAIN text
      THEN [file |-> near, index |-> Top.index]
      ELSE IF far = 0 THEN NotFound
      ELSE [file |-> <<far, d.name>>, index |-> far]

\* IsProcessedFileInternal().
IsProcessedFile(f) ==
  f \in once \/ (f \in DOMAIN guard_of /\ guard_of[f] \in macros)

\* EvalCondition(): __has_include also makes the file it finds an input.
Has(c) == Find([op |-> "has", delim |-> "\"", name |-> c.name])

EvalCondition(c) ==
  (c.neg # CASE c.kind = "has" -> Has(c) # NotFound
             [] OTHER -> c.name \in macros)

Reads(c) == IF c.kind = "has" /\ Has(c) # NotFound THEN {Has(c).file} ELSE {}

-----------------------------------------------------------------------------
(***************************************************************************)
(* CppParser::ProcessDirectives().  Each action consumes one directive.    *)
(***************************************************************************)
Directives(in) == IF in.root THEN text[in.file] ELSE item[in.file].directives

Exhausted == Top.pos > Len(Directives(Top))
Directive == Directives(Top)[Top.pos]
CurrentCondition == conditions # <<>> => Last(conditions).cond

\* The next directive is one of ops.
At(ops) ==
  result = "running" /\ inputs # <<>> /\ ~Exhausted /\ Directive.op \in ops

Consumed == [inputs EXCEPT ![Len(inputs)].pos = @ + 1]

\* include_guard_ident_ after the current input, whose guard is g.
Remember(g) ==
  guard_of' = [f \in DOMAIN guard_of \cup {Top.file} |->
                 IF f = Top.file THEN g ELSE guard_of[f]]

PopInput ==
  /\ result = "running" /\ inputs # <<>> /\ Exhausted
  /\ IF ~Top.root /\ item[Top.file].guard \in macros
     THEN Remember(item[Top.file].guard) ELSE UNCHANGED guard_of
  /\ inputs' = Front(inputs)
  /\ UNCHANGED <<tree, conditions, in_false, macros, once, included, disabled>>

\* Mutant: AddFileInput() does not look at the depth of inputs_.
ProcessIncludeAnyDepth ==
  /\ At({"include", "include_next", "import"}) /\ CurrentCondition
  /\ LET f == Find(Directive)
         new == f # NotFound /\ ~IsProcessedFile(f.file)
         push == new
     IN  /\ inputs' = IF push
                      THEN Append(Consumed, [file |-> f.file, index |-> f.index,
                                             pos |-> 1, root |-> FALSE])
                      ELSE Consumed
         /\ included' = IF new THEN included \cup {f.file} ELSE included
         /\ disabled' = (disabled \/ f = NotFound \/ (new /\ ~push))
         /\ once' = IF Directive.op = "import" /\ f # NotFound
                    THEN once \cup {Last(inputs').file} ELSE once
  /\ UNCHANGED <<tree, conditions, in_false, macros, guard_of>>

\* ProcessIncludeInternal() with HandleInclude() and AddFileInput().  #import
\* marks the file that is then on top of inputs_.
ProcessInclude ==
  /\ At({"include", "include_next", "import"}) /\ CurrentCondition
  /\ LET f == Find(Directive)
         new == f # NotFound /\ ~IsProcessedFile(f.file)
         push == new /\ Len(inputs) < DepthLimit
     IN  /\ inputs' = IF push
                      THEN Append(Consumed, [file |-> f.file, index |-> f.index,
                                             pos |-> 1, root |-> FALSE])
                      ELSE Consumed
         /\ included' = IF new THEN included \cup {f.file} ELSE included
         /\ disabled' = (disabled \/ f = NotFound \/ (new /\ ~push))
         /\ once' = IF Directive.op = "import" /\ f # NotFound
                    THEN once \cup {Last(inputs').file} ELSE once
  /\ UNCHANGED <<tree, conditions, in_false, macros, guard_of>>

ProcessDefine ==
  /\ At({"define", "undef"}) /\ CurrentCondition
  /\ inputs' = Consumed
  /\ macros' = IF Directive.op = "define" THEN macros \cup {Directive.name}
                                         ELSE macros \ {Directive.name}
  /\ UNCHANGED <<tree, conditions, in_false, once, guard_of, included, disabled>>

\* ProcessPragma(): #pragma once; every other pragma, and #error, is ignored.
ProcessPragma ==
  /\ At({"once", "other"}) /\ CurrentCondition
  /\ inputs' = Consumed
  /\ once' = IF Directive.op = "once" THEN once \cup {Top.file} ELSE once
  /\ UNCHANGED <<tree, conditions, in_false, macros, guard_of, included, disabled>>

\* ProcessDirectiveInFalseCondition().
SkipDirective ==
  /\ At({"include", "include_next", "import", "define", "undef", "once", "other"})
  /\ ~CurrentCondition
  /\ inputs' = Consumed
  /\ UNCHANGED <<tree, conditions, in_false, env, included, disabled>>

\* ProcessIfdef(), ProcessIfndef(), ProcessIf(), ProcessConditionInFalse().
ProcessIf ==
  /\ At(IfOps)
  /\ inputs' = Consumed
  /\ LET d == Directive
         v == CASE d.op = "ifdef" -> d.name \in macros
                [] d.op = "ifndef" -> d.name \notin macros
                [] d.op = "if" -> EvalCondition(d.cond)
     IN  IF CurrentCondition
         THEN /\ conditions' = Append(conditions, [cond |-> v, taken |-> v])
              /\ included' = included \cup (IF d.op = "if" THEN Reads(d.cond) ELSE {})
              /\ UNCHANGED in_false
         ELSE in_false' = in_false + 1 /\ UNCHANGED <<conditions, included>>
  /\ UNCHANGED <<tree, env, disabled>>

\* An #else or #elif of the innermost condition that was entered, if any.
Branch == in_false = 0 /\ conditions # <<>>

Else(c) == ~c.cond /\ ~c.taken

ProcessElse ==
  /\ At({"else"})
  /\ inputs' = Consumed
  /\ conditions' = IF Branch
                   THEN [conditions EXCEPT ![Len(conditions)].cond =
                           Else(Last(conditions))]
                   ELSE conditions
  /\ UNCHANGED <<tree, in_false, env, included, disabled>>

ProcessElif ==
  /\ At({"elif"})
  /\ inputs' = Consumed
  /\ IF Branch /\ ~Last(conditions).taken
     THEN LET v == EvalCondition(Directive.cond)
          IN  /\ conditions' = Append(Front(conditions), [cond |-> v, taken |-> v])
              /\ included' = included \cup Reads(Directive.cond)
     ELSE /\ conditions' = IF Branch
                           THEN [conditions EXCEPT ![Len(conditions)].cond = FALSE]
                           ELSE conditions
          /\ UNCHANGED included
  /\ UNCHANGED <<tree, in_false, env, disabled>>

ProcessEndif ==
  /\ At({"endif"})
  /\ inputs' = Consumed
  /\ IF in_false > 0
     THEN in_false' = in_false - 1 /\ UNCHANGED conditions
     ELSE /\ conditions' = IF conditions = <<>> THEN <<>> ELSE Front(conditions)
          /\ UNCHANGED in_false
  /\ UNCHANGED <<tree, env, included, disabled>>

-----------------------------------------------------------------------------
\* GetIncludeFiles(): the roots one after the other, in one parser.  They are
\* neither optimized nor guarded.
NextRoot ==
  /\ result = "running" /\ inputs = <<>>
  /\ IF disabled \/ todo = <<>>
     THEN /\ result' = IF disabled THEN "failed" ELSE "ok"
          /\ UNCHANGED <<inputs, todo>>
     ELSE /\ inputs' = <<[file |-> Head(todo), index |-> Head(todo)[1], pos |-> 1,
                         root |-> TRUE]>>
          /\ todo' = Tail(todo)
          /\ UNCHANGED result
  /\ UNCHANGED <<text, item, conditions, in_false, env, included, disabled>>

ParserInit(texts) ==
  /\ text \in texts
  /\ item = [f \in DOMAIN text |-> IncludeItem(text[f])]
  /\ todo = Roots
  /\ inputs = <<>> /\ conditions = <<>> /\ in_false = 0
  /\ macros = {} /\ once = {} /\ guard_of = <<>>
  /\ included = ToSet(Front(Roots))
  /\ disabled = FALSE
  /\ result = "running"

ParserNext ==
  \/ PopInput \/ ProcessInclude \/ ProcessDefine \/ ProcessPragma
  \/ SkipDirective \/ ProcessIf \/ ProcessElse \/ ProcessElif \/ ProcessEndif
  \/ NextRoot

ParserSpec == ParserInit(Texts) /\ [][ParserNext]_parser_vars

-----------------------------------------------------------------------------
(***************************************************************************)
(* Properties.                                                             *)
(***************************************************************************)
\* The type invariant of the parser.
ParserTypeOK ==
  /\ DOMAIN item = DOMAIN text
  /\ \A in \in ToSet(inputs) : in.file \in DOMAIN text /\ in.index \in 0..NDirs
                              /\ in.pos \in 1..(Len(Directives(in)) + 1)
  /\ \A c \in ToSet(conditions) : c.cond \in BOOLEAN /\ c.taken \in BOOLEAN
  /\ in_false \in Nat /\ Len(inputs) <= DepthLimit
  /\ once \cup included \cup DOMAIN guard_of \subseteq DOMAIN text
  /\ disabled \in BOOLEAN /\ result \in {"running", "ok", "failed"}

\* Conditionals open in all the files being read.
OpenInInputs ==
  LET open[n \in 0..Len(inputs)] ==
        IF n = 0 THEN 0
        ELSE open[n - 1] + Open(Directives(inputs[n]), inputs[n].pos - 1)
  IN  open[Len(inputs)]

\* The stack of conditions and the count of skipped ones together are exactly
\* the conditionals open in the files being read, though the optimizer took
\* some away in headers: no header leaves a condition behind for its includer.
NestingMatches ==
  /\ Len(conditions) + in_false = OpenInInputs
  /\ in_false > 0 => ~CurrentCondition

\* The stacks of the parser hold what they should: inputs no deeper than the
\* limit, each within its own directives, and the conditions open in them.
StacksMatch == ParserTypeOK /\ NestingMatches
==============================================================================
