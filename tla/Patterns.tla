------------------------------ MODULE Patterns ------------------------------
(* The two pattern languages of the server: the globs of SCAN (the engine's   *)
(* wildcard_matches, a table filled row by row) and the grant patterns of the *)
(* roles (auth/pattern.rs).  A text is a sequence of characters.              *)
EXTENDS Naturals, Sequences

Wild == "*"

Single == "?"

(* row[j]: the pattern read so far matches the first j characters of value.   *)
NextRow(row, symbol, value) ==
  LET next[j \in 0..Len(value)] ==
        CASE symbol = Wild -> row[j] \/ (j > 0 /\ next[j - 1])
          [] symbol = Single -> j > 0 /\ row[j - 1]
          [] OTHER -> j > 0 /\ row[j - 1] /\ value[j] = symbol
  IN next

GlobMatches(pattern, value) ==
  LET row[i \in 0..Len(pattern)] ==
        IF i = 0 THEN [j \in 0..Len(value) |-> j = 0]
        ELSE NextRow(row[i - 1], pattern[i], value)
  IN row[Len(pattern)][Len(value)]

----------------------------------------------------------------------------
FirstStar(pattern) ==
  CHOOSE i \in 1..Len(pattern) :
    pattern[i] = Wild /\ \A j \in 1..i - 1 : pattern[j] # Wild

HasStar(pattern) == \E i \in 1..Len(pattern) : pattern[i] = Wild

(* str::starts_with and str::ends_with.                                       *)
StartsWith(text, prefix) ==
  Len(prefix) <= Len(text) /\ SubSeq(text, 1, Len(prefix)) = prefix

EndsWith(text, suffix) ==
  /\ Len(suffix) <= Len(text)
  /\ SubSeq(text, Len(text) - Len(suffix) + 1, Len(text)) = suffix

GrantMatches(pattern, key) ==
  IF ~HasStar(pattern) THEN pattern = key
  ELSE LET i == FirstStar(pattern)
       IN /\ StartsWith(key, SubSeq(pattern, 1, i - 1))
          /\ EndsWith(key, SubSeq(pattern, i + 1, Len(pattern)))

(* str::trim_end_matches('*').                                                *)
TrimStars(pattern) ==
  LET kept == {i \in 1..Len(pattern) : pattern[i] # Wild}
  IN SubSeq(pattern, 1, IF kept = {} THEN 0 ELSE CHOOSE i \in kept : \A j \in kept : j <= i)

(* Mutant: a grant on every prefix of the requested pattern.                  *)
CoversWithoutStar(grant, requested) ==
  \/ grant = <<Wild>> \/ grant = requested
  \/ (requested # <<Wild>> /\ StartsWith(requested, TrimStars(grant)))

PatternCovers(grant, requested) ==
  \/ grant = <<Wild>> \/ grant = requested
  \/ /\ requested # <<Wild>>
     /\ EndsWith(grant, <<Wild>>)
     /\ StartsWith(requested, TrimStars(grant))

----------------------------------------------------------------------------
Letters == {"a", "b"}

MaxLength == 3    \* a bound on the patterns and the keys that are compared

Texts(symbols) == UNION {[1..n -> symbols] : n \in 0..MaxLength}

(* The keys that SCAN lists for each pattern.                                 *)
Listed ==
  [requested \in Texts(Letters \union {Wild, Single}) |->
     {key \in Texts(Letters) : GlobMatches(requested, key)}]

=============================================================================
