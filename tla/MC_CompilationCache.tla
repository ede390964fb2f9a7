---- MODULE MC_CompilationCache ----
(* An instance of CompilationCache for TLC. *)
EXTENDS CompilationCache

\* Entries of different sizes: of the two together, which exceed the limit by 1, an old
\* small one has to go and an old large one stays.
SizesOfTwo == <<1, 2>>

\* cache_entries without a limit, and with one that ends it before the rows do.
CountArguments == {-1, 1}
====
