------------------------------ MODULE MCDiscovery ------------------------------
(***************************************************************************)
(* Every line of up to four characters, with and without its newline, and  *)
(* every sequence of up to five words, on one line or on several.          *)
(***************************************************************************)
EXTENDS Discovery

Strings(chars, n) == UNION {[1 .. i -> chars] : i \in 0 .. n}

Texts == Strings({"d", " ", "'", "\"", "\\", "#", "="}, 4)
Words == Strings({"d", "m", "p", "x"}, 5) \ {<<>>}

MCLaterFiles == {<<>>, <<<<"d", " ", "m", " ", "p">>>>}

MCFiles ==
  MCLaterFiles
    \cup {<<Append(t, "\n")>> : t \in Texts}
    \cup {<<t>> : t \in Texts \ {<<>>}}
    \cup {[i \in DOMAIN w |-> <<w[i], "\n">>] : w \in Words}
    \cup {<<[i \in 1 .. 2 * Len(w) |-> IF i % 2 = 1 THEN w[(i + 1) \div 2] ELSE " "]>> : w \in Words}

MCDirs == {{2}, {1, 2, 3}}
MCNodeSets == {{}, {"ppdev", "devport"}, {"udev", "io"}, {"devport"}}

\* "lp", "parport0" and "parport1".
MCNumber == [n \in {1, 2, 3} |-> n - 2]
=============================================================================
