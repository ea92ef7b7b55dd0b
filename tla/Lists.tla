------------------------------- MODULE Lists -------------------------------
(* What the code does with Array.filter.                                      *)
EXTENDS Naturals, Sequences

\* The elements of s that are in S, in the order of s.
Kept(s, S) ==
  LET kept[n \in 0 .. Len(s)] ==
        IF n = 0 THEN << >>
        ELSE IF s[n] \in S THEN Append(kept[n - 1], s[n]) ELSE kept[n - 1]
  IN  kept[Len(s)]

\* The elements of s at the places that are in I, in the order of s.
Chosen(s, I) ==
  LET places == Kept([i \in 1 .. Len(s) |-> i], I)
  IN  [n \in DOMAIN places |-> s[places[n]]]

=============================================================================
