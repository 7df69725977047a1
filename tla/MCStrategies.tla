---------------------------- MODULE MCStrategies ----------------------------
(* Small instances of Strategies for TLC. *)
EXTENDS Strategies

Texts(chars, n) == UNION {[1 .. k -> chars] : k \in 0 .. n}

A == 65
a == 97
b == 98
E_acute == 201
e_acute == 233
BeforeSurrogates == 55295
AfterSurrogates == 57344

\* A word of eight letters, so that two edits are allowed, with some of its
\* typing errors, alone and among other words.
Long == <<a, a, b, a, b, b, a, b>>
Typos ==
  {Long, <<a, b, a, a, b, b, a, b>>, <<a, b, a, b, a, b, a, b>>, <<b, b, b, a, b, b, a, b>>,
   <<b, b, a, a, b, b, a, b>>, <<a, a, b, b, b, a>>, <<a, a, b, a, b, b, a, b, a, a>>,
   <<a, Space>> \o Long, <<b, b, b, b, Space, a, a, b, a, b, b>>}

MCIndexes ==
  {Texts({Space, a, b}, 4), Texts({Percent, Underscore, a}, 3), Texts({Backslash, Percent, a}, 3),
   Texts({Quote, a}, 5), Texts({a, A, e_acute, E_acute}, 3), Texts({a, b}, 6),
   Texts({a, BeforeSurrogates, AfterSurrogates, MaxChar}, 3), Typos}
=============================================================================
