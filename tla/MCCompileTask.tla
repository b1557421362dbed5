---------------------------- MODULE MCCompileTask -----------------------------
(* Settings of a compile task to check CompileTask with. *)
EXTENDS CompileTask

Sides == {{}, {"fallback"}, {"use_local"}, {"fallback", "use_local"},
          {"fallback", "use_local", "heavy"}, {"verify_output"},
          {"verify_output", "fallback", "use_local"}}
Extras == {{}, {"linking"}, {"store_local"}, {"fail_fast"}, {"precompiling"},
           {"linking", "store_local"}}

\* How the two sides may run, each with what changes the stages, and settings
\* that keep both sides running on purpose.
Usual == {s \cup x : s \in Sides, x \in Extras}
         \cup {{"fallback", "use_local", "precompiling", "gch"},
               {"fallback", "use_local", "dont_kill"}}
HeavyNoFallback == {{"use_local", "heavy"}}
===============================================================================
