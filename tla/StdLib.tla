------------------------------- MODULE StdLib -------------------------------
(***************************************************************************)
(* What the C++ library does in the few calls whose result the asio web    *)
(* server's answers depend on: std::stoull, and the lexical operations of  *)
(* std::filesystem::path.  A path is the sequence of its elements, as the  *)
(* library iterates over it: "/" first when it is absolute, and a last ""  *)
(* when it ends with a separator.  A call that may throw, or may return    *)
(* nothing, gives the set of its results: one, or none.                    *)
(***************************************************************************)
EXTENDS Integers, Sequences, SequencesExt

CONSTANT Word   \* 2^w, for a size_t of w bits

ASSUME WordAssumption == Word \in Nat \ {0}

\* A text that is read as a number: its sign, its digits, and whether other
\* characters follow them.  No digits at all is `none'.
Numeral(sign, digits) == [sign |-> sign, digits |-> digits, rest |-> FALSE]
NoNumeral == [sign |-> "", digits |-> -1, rest |-> TRUE]

\* std::stoull, and the callers' test that it consumed the whole text.  It
\* reads a sign, and what the sign negates wraps.
Stoull(text) ==
  IF text.rest \/ text.digits \notin 0 .. Word - 1 THEN {}
  ELSE {IF text.sign = "-" THEN (Word - text.digits) % Word ELSE text.digits}

\* The names in a path.  Those that are read here are listed because the provers
\* do not know that a literal is a string.
Name == STRING \cup {"/", "", ".", "..", "config", "server.ini"}
Paths == Seq(Name)

Root == <<"/">>

\* What is no name of a file: a separator, nothing, and the two kinds of dots.
Special == {"/", "", ".", ".."}

\* An absolute path without dots and without a separator behind it.
IsNormal(path) ==
  /\ path \in Paths /\ path # <<>> /\ path[1] = "/"
  /\ \A i \in 2 .. Len(path) : path[i] \notin Special

IsAbsolute(path) == path # <<>> /\ Head(path) = "/"
WithoutSlash(path) == IF path # <<>> /\ Last(path) = "" THEN Front(path) ELSE path

\* operator/ : an absolute right side replaces the left one.
Join(base, path) ==
  IF IsAbsolute(path) THEN path
  ELSE WithoutSlash(base) \o (IF path = <<>> THEN <<"">> ELSE path)

ParentPath(path) == IF path = Root THEN Root ELSE Front(path)

\* One more name of an absolute path: ".." drops the one before it, and stays at
\* the root.
Walk(normal, name) ==
  CASE name \in {"/", "", "."} -> normal
    [] name = ".."             -> ParentPath(normal)
    [] OTHER                   -> Append(normal, name)

Walked(path) ==
  LET after[n \in 0 .. Len(path)] == IF n = 0 THEN Root ELSE Walk(after[n - 1], path[n])
  IN  after

\* lexically_normal of an absolute path: ".." leaves a separator behind, as "."
\* does.
LexicallyNormal(path) ==
  LET normal == Walked(path)[Len(path)]
  IN  IF normal # Root /\ Last(path) \in {"", ".", ".."} THEN Append(normal, "") ELSE normal

\* How many elements two paths have in common before they differ.
Mismatch(path, base) ==
  LET Agree(n) == n <= Len(base) /\ n <= Len(path) /\ path[n] = base[n]
  IN  CHOOSE n \in 0 .. Len(base) : ~Agree(n + 1) /\ \A k \in 1 .. n : Agree(k)

\* lexically_relative of two normal absolute paths.
LexicallyRelative(path, base) ==
  LET common == Mismatch(path, base)
      up == WithoutSlash(SubSeq(base, common + 1, Len(base)))
      down == SubSeq(path, common + 1, Len(path))
  IN  IF up = <<>> /\ (down = <<>> \/ Head(down) = "") THEN <<".">>
      ELSE [i \in DOMAIN up |-> ".."] \o down

\* std::filesystem::absolute.
Absolute(cwd, path) == Join(cwd, path)
=============================================================================
