-------------------------------- MODULE Glob --------------------------------
(***************************************************************************)
(* matchGlob of the subscriber registry (internal/broker/registry.go)      *)
(* against a declarative reading of its comment, for patterns and names    *)
(* that grow letter by letter.                                             *)
(***************************************************************************)
EXTENDS Naturals, Sequences

CONSTANTS Letters,     \* characters of names
          MaxPattern,  \* bound on the length of a pattern
          MaxName      \* bound on the length of a name

VARIABLES pattern, name

vars == <<pattern, name>>

Suffix(s, i) == SubSeq(s, i, Len(s))

RECURSIVE MatchGlobRec(_, _)

\* Mutant of TryEverySuffix: a star takes at least one letter.
TryProperSuffix(p, n) == \E i \in 2..(Len(n) + 1) : MatchGlobRec(p, Suffix(n, i))

(* The loop after a run of stars: some suffix of the name, the empty one   *)
(* included, matches the rest of the pattern.                              *)
TryEverySuffix(p, n) == \E i \in 1..(Len(n) + 1) : MatchGlobRec(p, Suffix(n, i))

(* Stars are collapsed one by one, and a trailing star matches the rest;   *)
(* a star that is not followed by a star tries every suffix.               *)
MatchGlobRec(p, n) ==
  IF p = <<>> THEN n = <<>>
  ELSE IF p[1] = "*"
  THEN \/ Len(p) = 1
       \/ IF p[2] = "*" THEN MatchGlobRec(Tail(p), n) ELSE TryEverySuffix(Tail(p), n)
  ELSE n # <<>> /\ (p[1] = "?" \/ p[1] = n[1]) /\ MatchGlobRec(Tail(p), Tail(n))

Init == pattern = <<>> /\ name = <<>>

GrowPattern == /\ Len(pattern) < MaxPattern
               /\ \E x \in Letters \cup {"*", "?"} : pattern' = Append(pattern, x)
               /\ UNCHANGED name

GrowName == /\ Len(name) < MaxName
            /\ \E x \in Letters : name' = Append(name, x)
            /\ UNCHANGED pattern

Next == GrowPattern \/ GrowName

Spec == Init /\ [][Next]_vars

-----------------------------------------------------------------------------

(* A way of laying name n out over pattern p: position i of the name falls *)
(* to position f[i] of the pattern.                                        *)
LaysOut(f, p, n) ==
  /\ \A i, j \in DOMAIN n : i < j => f[i] <= f[j]
  /\ \A i \in DOMAIN n : p[f[i]] \in {"*", "?", n[i]}
  /\ \A k \in DOMAIN p : p[k] # "*" =>
       \E i \in DOMAIN n : f[i] = k /\ \A j \in DOMAIN n : f[j] = k => j = i

(* "'*' matches any sequence of characters, including '/' and empty        *)
(* string. '?' matches any single character. All other characters are      *)
(* matched literally" (registry.go:21-23): the backtracking search finds a *)
(* match exactly when the name can be laid out over the pattern.           *)
MatchesAsDocumented ==
  MatchGlobRec(pattern, name) <=>
    \E f \in [DOMAIN name -> DOMAIN pattern] : LaysOut(f, pattern, name)
=============================================================================
