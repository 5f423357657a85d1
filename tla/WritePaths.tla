----------------------------- MODULE WritePaths -----------------------------
(***************************************************************************)
(* The test by which the orchestrator decides that two write paths of the  *)
(* plan cannot name the same file, and, as a reference for it, what files  *)
(* a write path names.  A path is a sequence of symbols: "/" separates     *)
(* directories, "*" is a glob metacharacter, "**" its directory-crossing   *)
(* form, any other symbol is a run of literal characters.                  *)
(***************************************************************************)
EXTENDS Integers, Sequences, SequencesExt

Meta == {"*", "**"}
Everything == <<"**">>

\* A leading separator is dropped (so is "./"; blanks and backslashes are
\* spelling, which the symbols abstract from).
normaliseWritePath(p) == IF p # <<>> /\ Head(p) = "/" THEN Tail(p) ELSE p

\* The path up to its first metacharacter.
literalPrefix(p) ==
  LET literal == {n \in 0 .. Len(p) : \A i \in 1 .. n : p[i] \notin Meta}
  IN  SubSeq(p, 1, CHOOSE n \in literal : \A m \in literal : m <= n)

\* Is short the path long or one of its directories?
pathPrefixMatch(short, long) ==
  \/ short = <<>>
  \/ short = long
  \/ IsPrefix(short, long) /\ (Last(short) = "/" \/ long[Len(short) + 1] = "/")

pathsIntersect(p, q) ==
  LET a == normaliseWritePath(p)
      b == normaliseWritePath(q)
  IN  \/ {a, b} \cap {<<>>, Everything} # {}
      \/ pathPrefixMatch(literalPrefix(a), literalPrefix(b))
      \/ pathPrefixMatch(literalPrefix(b), literalPrefix(a))

-----------------------------------------------------------------------------
(* The reference: glob matching by dynamic programming over the two        *)
(* prefixes.  A path that names a directory names what is below it.        *)

Glob(p, f) ==
  LET match[i \in 0 .. Len(p), j \in 0 .. Len(f)] ==
        IF i = 0 THEN j = 0
        ELSE IF p[i] \in Meta
             THEN \/ match[i - 1, j]
                  \/ j > 0 /\ (p[i] = "**" \/ f[j] # "/") /\ match[i, j - 1]
             ELSE j > 0 /\ p[i] = f[j] /\ match[i - 1, j - 1]
  IN  match[Len(p), Len(f)]

Names(p, f) ==
  LET q == normaliseWritePath(p)
      directoryEnds == {k \in 1 .. Len(f) : k = Len(f) \/ "/" \in {f[k], f[k + 1]}}
  IN  q = <<>> \/ \E k \in directoryEnds : Glob(q, SubSeq(f, 1, k))
=============================================================================
