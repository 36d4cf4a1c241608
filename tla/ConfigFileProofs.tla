--------------------------- MODULE ConfigFileProofs ---------------------------
(***************************************************************************)
(* What the library makes of its configuration file, for every file.  The  *)
(* lookahead of disallow, which keeps one or two words back, loses no      *)
(* place where "disallow method ppdev" may begin.  The tokens of get_token *)
(* are those the manual page spells out: its two loops, the one that looks *)
(* for the end of a token and the one that copies it, are followed from    *)
(* character to character beside a reader that keeps a token open.         *)
(***************************************************************************)
EXTENDS ConfigFile, TLAPS, WellFoundedInduction, SequenceTheorems

\* Which word is awaited is what the last words returned call for.
Awaits ==
  /\ where = "method" => tokens # <<>> /\ tokens[Len(tokens)] = DisallowWord
  /\ where = "name" => /\ Len(tokens) > 1
                       /\ tokens[Len(tokens) - 1] = DisallowWord
                       /\ tokens[Len(tokens)] = MethodWord
  /\ where = "word" => \/ tokens = <<>>
                       \/ /\ tokens[Len(tokens)] # DisallowWord
                          /\ Len(tokens) > 1 => ~ /\ tokens[Len(tokens) - 1] = DisallowWord
                                                  /\ tokens[Len(tokens)] = MethodWord

IsSequence(s) == s \in Seq({s[i] : i \in DOMAIN s})

IInv ==
  /\ where \in {"word", "method", "name", "end", "stuck"}
  /\ IsSequence(tokens)
  /\ Awaits
  /\ DisallowAsDocumented

\* The three words differ.
LEMMA WordsDiffer ==
  /\ DisallowWord # MethodWord
  /\ DisallowWord # PpdevWord
  /\ MethodWord # PpdevWord
BY DEF DisallowWord, MethodWord, PpdevWord

\* One more word leaves the words before it where they are.
LEMMA OneMore ==
  ASSUME NEW s, IsSequence(s), NEW t
  PROVE  /\ IsSequence(Append(s, t))
         /\ Len(s) \in Nat /\ Len(Append(s, t)) = Len(s) + 1
         /\ \A i \in 1 .. Len(s) : Append(s, t)[i] = s[i]
         /\ Append(s, t)[Len(s) + 1] = t
         /\ s = <<>> <=> Len(s) = 0
<1> DEFINE S == {s[i] : i \in DOMAIN s} \cup {t}
           u == Append(s, t)
<1>1. s \in Seq(S)
  BY DEF IsSequence
<1> HIDE DEF S
<1> t \in S
  BY DEF S
<1>2. /\ u \in Seq(S) /\ Len(s) \in Nat /\ Len(u) = Len(s) + 1
      /\ \A i \in 1 .. Len(s) : u[i] = s[i]
      /\ u[Len(s) + 1] = t
      /\ s = <<>> <=> Len(s) = 0
  BY <1>1
<1>3. IsSequence(u)
  BY <1>2 DEF IsSequence
<1> QED
  BY <1>2, <1>3

-----------------------------------------------------------------------------
\* Before the first word nothing is awaited.
LEMMA InitEstablishes == Init => IInv
<1> SUFFICES ASSUME Init PROVE IInv
  OBVIOUS
<1>1. tokens = <<>> /\ Len(tokens) = 0 /\ where = "word" /\ disallow = FALSE
  BY DEF Init
<1>2. IsSequence(tokens)
  BY <1>1 DEF IsSequence
<1>3. DisallowAsDocumented
  BY <1>1 DEF DisallowAsDocumented
<1> QED
  BY <1>1, <1>2, <1>3 DEF IInv, Awaits

\* The step that returns a word.
LEMMA TokenPreserves == IInv /\ Token => IInv'
<1> DEFINE t == Copied(line, Start, Stop(line, End(line, Start)))
           n == Len(tokens)
<1> SUFFICES ASSUME IInv, Token PROVE IInv'
  OBVIOUS
<1>1. /\ tokens' = Append(tokens, t) /\ where \notin {"end", "stuck"} /\ where' = Parse(t)
      /\ disallow' = (disallow \/ (where = "name" /\ t = PpdevWord))
  BY DEF Token, Going
<1> HIDE DEF t
<1>2. /\ IsSequence(tokens') /\ n \in Nat /\ Len(tokens') = n + 1
      /\ \A i \in 1 .. n : tokens'[i] = tokens[i]
      /\ tokens'[n + 1] = t
      /\ tokens = <<>> <=> n = 0
      /\ tokens' # <<>>
  BY <1>1, OneMore, Len(<<>>) = 0 DEF IInv
<1>3. where \in {"word", "method", "name"} /\ where' \in {"word", "method", "name"}
  BY <1>1 DEF IInv, Parse, Word
<1>4. Awaits'
  <2>1. CASE where' = "method"
    BY <2>1, <1>1, <1>2 DEF Awaits, Parse, Word
  <2>2. CASE where' = "name"
    BY <2>2, <1>1, <1>2, <1>3 DEF IInv, Awaits, Parse, Word
  <2>3. CASE where' = "word"
    <3>1. t # DisallowWord
      BY <2>3, <1>1, <1>3, WordsDiffer DEF Parse, Word
    <3>2. ASSUME n > 0, tokens[n] = DisallowWord, t = MethodWord PROVE FALSE
      BY <3>2, <2>3, <1>1, <1>2, <1>3, WordsDiffer DEF IInv, Awaits, Parse, Word
    <3> QED
      BY <2>3, <3>1, <3>2, <1>2 DEF Awaits
  <2> QED
    BY <2>1, <2>2, <2>3, <1>3
<1>5. DisallowAsDocumented'
  <2> DEFINE At(s, i) == /\ s[i] = DisallowWord /\ s[i + 1] = MethodWord
                         /\ s[i + 2] = PpdevWord
             Last == n > 1 /\ tokens[n - 1] = DisallowWord /\ tokens[n] = MethodWord
  <2>1. Last <=> where = "name"
    BY <1>2, <1>3, WordsDiffer DEF IInv, Awaits
  <2>2. ASSUME NEW i \in 1 .. n - 2 PROVE At(tokens, i) <=> At(tokens', i)
    BY <1>2
  <2>3. n > 1 => (At(tokens', n - 1) <=> Last /\ t = PpdevWord)
    <3>1. n > 1 => /\ n - 1 \in 1 .. n /\ n \in 1 .. n
                   /\ (n - 1) + 1 = n /\ (n - 1) + 2 = n + 1
      BY <1>2
    <3> QED
      BY <3>1, <1>2
  <2>4. (\E i \in 1 .. n - 1 : At(tokens', i))
          <=> (\E i \in 1 .. n - 2 : At(tokens, i)) \/ (Last /\ t = PpdevWord)
    BY <2>2, <2>3, <1>2
  <2>5. disallow <=> \E i \in 1 .. n - 2 : At(tokens, i)
    BY DEF IInv, DisallowAsDocumented
  <2>6. disallow' <=> \E i \in 1 .. n - 1 : At(tokens', i)
    BY <2>1, <2>4, <2>5, <1>1
  <2>7. Len(tokens') - 2 = n - 1
    BY <1>2
  <2> QED
    BY <2>6, <2>7 DEF DisallowAsDocumented
<1> QED
  BY <1>2, <1>3, <1>4, <1>5 DEF IInv

\* A line read or skipped returns no word, and the end of the file awaits none.
LEMMA StepPreserves == IInv /\ [Next]_vars => IInv'
<1> SUFFICES ASSUME IInv, [Next]_vars PROVE IInv'
  OBVIOUS
<1>1. CASE Fgets \/ SkipLine \/ UNCHANGED vars
  <2>1. where' = where /\ tokens' = tokens /\ disallow' = disallow
    BY <1>1 DEF Fgets, SkipLine, vars
  <2> QED
    BY <2>1 DEF IInv, Awaits, DisallowAsDocumented, IsSequence
<1>2. CASE EndOfFile
  BY <1>2 DEF IInv, Awaits, DisallowAsDocumented, IsSequence, EndOfFile
<1>4. CASE ReadBehind
  BY <1>4 DEF IInv, Awaits, DisallowAsDocumented, IsSequence, ReadBehind
<1>3. CASE Token
  BY <1>3, TokenPreserves
<1> QED
  BY <1>1, <1>2, <1>3, <1>4 DEF Next

\* conf.c disallows ppdev exactly when the words of the file, whatever they are and
\* however long it is, have "disallow method ppdev" in a row.
THEOREM DisallowIsRight == Spec => []DisallowAsDocumented
<1>1. IInv => DisallowAsDocumented
  BY DEF IInv
<1> QED
  BY <1>1, InitEstablishes, StepPreserves, PTL DEF Spec

-----------------------------------------------------------------------------
(* Induction, for sets. *)

\* Every set of naturals that is not empty has a least element.
LEMMA Least ==
  ASSUME NEW T, T \subseteq Nat, T # {}
  PROVE  \E x \in T : \A y \in T : x <= y
<1> DEFINE R == OpToRel(<, Nat)
<1>1. PICK x \in T : \A y \in T : ~ (<<y, x>> \in R)
  BY WFMin, NatLessThanWellFounded
<1>2. \A y, z \in Nat : <<y, z>> \in R <=> y < z
  BY DEF OpToRel
<1> HIDE DEF R
<1>3. \A y \in T : ~ (y < x)
  BY <1>1, <1>2
<1> QED
  BY <1>3

\* What holds of 0 and, with a number, of the next holds of every number.
LEMMA SetInduction ==
  ASSUME NEW S, 0 \in S, \A n \in Nat : n \in S => n + 1 \in S
  PROVE  Nat \subseteq S
<1> DEFINE T == {n \in Nat : n \notin S}
<1> SUFFICES ASSUME T # {} PROVE FALSE
  OBVIOUS
<1>1. PICK x \in T : \A y \in T : x <= y
  <2>1. T \subseteq Nat
    OBVIOUS
  <2> HIDE DEF T
  <2> QED
    BY <2>1, Least
<1>2. x \in Nat /\ x # 0 /\ x - 1 \in Nat /\ ~(x <= x - 1) /\ (x - 1) + 1 = x
  OBVIOUS
<1> QED
  BY <1>1, <1>2

\* A set of naturals with a bound has a largest element.
LEMMA Largest ==
  ASSUME NEW T, T \subseteq Nat, T # {}, NEW m \in Nat, \A x \in T : x <= m
  PROVE  \E x \in T : \A y \in T : y <= x
<1> DEFINE D == {d \in Nat : m - d \in T}
<1>1. \A x \in T : m - x \in D
  OBVIOUS
<1>2. PICK d \in D : \A c \in D : d <= c
  <2>1. D \subseteq Nat /\ D # {}
    BY <1>1
  <2> HIDE DEF D
  <2> QED
    BY <2>1, Least
<1>3. ASSUME NEW y \in T PROVE y <= m - d
  <2>1. d <= m - y
    BY <1>1, <1>2
  <2> QED
    BY <2>1
<1> QED
  BY <1>2, <1>3

-----------------------------------------------------------------------------
(* The loops of get_token, and the reader, as equations. *)

\* One turn of the loop of End, whose rest is f.
EndStep(f, l, s, i, q) ==
  IF i > Len(l) THEN i
  ELSE IF Escapes(q, l[i]) THEN f[i + 2][q]
  ELSE IF Quote(q, l[i]) = "none" /\ l[i] \in Ifs THEN i
  ELSE IF Quote(q, l[i]) = "none" /\ l[i] \in TokenChars
       THEN IF i = s THEN i + 1 ELSE i
  ELSE f[i + 1][Quote(q, l[i])]

EndFcn(l, s) == CHOOSE f : f = [i \in Nat |-> [q \in Quotes |-> EndStep(f, l, s, i, q)]]

\* The end of a token is where the loop stops that begins at its first character.
LEMMA EndIs == \A l, s : End(l, s) = EndFcn(l, s)[s]["none"]
BY DEF End, EndFcn, EndStep

\* The quotes are open or closed.
LEMMA QuoteType == \A ch : \A q \in Quotes : Quote(q, ch) \in Quotes
BY DEF Quote, Quotes

\* The loop comes to an end from every place, as it begins behind the line.
LEMMA EndEquation ==
  ASSUME NEW l, Len(l) \in Nat, NEW s
  PROVE  \A i \in Nat, q \in Quotes :
           EndFcn(l, s)[i][q] = EndStep(EndFcn(l, s), l, s, i, q)
<1> DEFINE n == Len(l)
           Fcns == [Nat -> [Quotes -> Nat]]
           Done(f, k) == \A i \in Nat, q \in Quotes :
                           i + k > n => f[i][q] = EndStep(f, l, s, i, q)
           S == {k \in Nat : \E f \in Fcns : Done(f, k)}
<1>1. 0 \in S
  <2> DEFINE f == [i \in Nat |-> [q \in Quotes |-> i]]
  <2>1. f \in Fcns
    OBVIOUS
  <2>2. Done(f, 0)
    BY DEF EndStep
  <2> QED
    BY <2>1, <2>2
<1>2. ASSUME NEW k \in Nat, k \in S PROVE k + 1 \in S
  <2>1. PICK f \in Fcns : Done(f, k)
    BY <1>2
  <2> DEFINE h == [i \in Nat |-> [q \in Quotes |->
                     IF i + (k + 1) > n THEN EndStep(f, l, s, i, q) ELSE 0]]
  <2>2. \A i \in Nat, q \in Quotes :
          h[i][q] = IF i + (k + 1) > n THEN EndStep(f, l, s, i, q) ELSE 0
    OBVIOUS
  <2>3. ASSUME NEW i \in Nat, NEW q \in Quotes PROVE EndStep(f, l, s, i, q) \in Nat
    <3>1. \A j \in Nat, p \in Quotes : f[j][p] \in Nat
      OBVIOUS
    <3>2. i + 1 \in Nat /\ i + 2 \in Nat
      OBVIOUS
    <3> QED
      BY <3>1, <3>2, QuoteType DEF EndStep
  <2>4. h \in Fcns
    BY <2>3
  <2> HIDE DEF h
  <2>5. ASSUME NEW i \in Nat, NEW q \in Quotes, i + k > n PROVE h[i][q] = f[i][q]
    BY <2>1, <2>2, <2>5
  <2>6. ASSUME NEW i \in Nat, NEW q \in Quotes, i + (k + 1) > n
        PROVE  h[i][q] = EndStep(h, l, s, i, q)
    <3>1. h[i][q] = EndStep(f, l, s, i, q)
      BY <2>2, <2>6
    <3>2. \A p \in Quotes : h[i + 1][p] = f[i + 1][p] /\ h[i + 2][p] = f[i + 2][p]
      <4>1. i + 1 \in Nat /\ (i + 1) + k > n /\ i + 2 \in Nat /\ (i + 2) + k > n
        BY <2>6
      <4> QED
        BY <4>1, <2>5
    <3> QED
      BY <3>1, <3>2, QuoteType DEF EndStep
  <2>7. Done(h, k + 1)
    BY <2>6
  <2> HIDE DEF Done, Fcns
  <2> QED
    BY <2>4, <2>7
<1>3. PICK f \in Fcns : \A i \in Nat, q \in Quotes : f[i][q] = EndStep(f, l, s, i, q)
  <2>1. n + 1 \in S
    <3> HIDE DEF S
    <3> QED
      BY <1>1, <1>2, SetInduction
  <2>2. PICK f \in Fcns : Done(f, n + 1)
    <3> HIDE DEF Done, Fcns
    <3> QED
      BY <2>1
  <2>3. \A i \in Nat : i + (n + 1) > n
    OBVIOUS
  <2> QED
    BY <2>2, <2>3
<1>4. f = [i \in Nat |-> [q \in Quotes |-> EndStep(f, l, s, i, q)]]
  BY <1>3
<1>5. EndFcn(l, s) = [i \in Nat |-> [q \in Quotes |-> EndStep(EndFcn(l, s), l, s, i, q)]]
  BY <1>4, Zenon DEF EndFcn
<1>6. \A g : g = [i \in Nat |-> [q \in Quotes |-> EndStep(g, l, s, i, q)]]
           => \A i \in Nat, q \in Quotes : g[i][q] = EndStep(g, l, s, i, q)
  <2> SUFFICES ASSUME NEW g, NEW i \in Nat, NEW q \in Quotes,
                      g = [j \in Nat |-> [p \in Quotes |-> EndStep(g, l, s, j, p)]]
               PROVE  g[i][q] = EndStep(g, l, s, i, q)
    OBVIOUS
  <2>1. g[i] = [p \in Quotes |-> EndStep(g, l, s, i, p)]
    OBVIOUS
  <2> QED
    BY <2>1
<1> QED
  BY <1>5, <1>6, Zenon

\* One turn of the loop of Copied.
CopyStep(f, l, end, i, q) ==
  IF i >= end THEN <<>>
  ELSE IF Escapes(q, l[i]) THEN (IF i < end - 1 THEN <<l[i + 1]>> ELSE <<>>) \o f[i + 2][q]
  ELSE IF Quote(q, l[i]) # q THEN f[i + 1][Quote(q, l[i])]
  ELSE <<l[i]>> \o f[i + 1][q]

CopyFcn(l, end) ==
  CHOOSE f : f = [i \in Nat |-> [q \in Quotes |-> CopyStep(f, l, end, i, q)]]

\* The token is what the loop copies that begins at its first character.
LEMMA CopiedIs == \A l, s, end : Copied(l, s, end) = CopyFcn(l, end)[s]["none"]
BY DEF Copied, CopyFcn, CopyStep

\* So does the loop that copies.
LEMMA CopyEquation ==
  ASSUME NEW l, NEW end \in Nat
  PROVE  \A i \in Nat, q \in Quotes :
           CopyFcn(l, end)[i][q] = CopyStep(CopyFcn(l, end), l, end, i, q)
<1> DEFINE Done(f, k) == \A i \in Nat, q \in Quotes :
                           i + k >= end => f[i][q] = CopyStep(f, l, end, i, q)
           Shape(f) == f = [i \in Nat |-> [q \in Quotes |-> f[i][q]]]
           S == {k \in Nat : \E f : Shape(f) /\ Done(f, k)}
<1>1. 0 \in S
  <2> DEFINE f == [i \in Nat |-> [q \in Quotes |-> <<>>]]
  <2>1. Shape(f)
    OBVIOUS
  <2>2. Done(f, 0)
    BY DEF CopyStep
  <2> HIDE DEF f
  <2> QED
    BY <2>1, <2>2
<1>2. ASSUME NEW k \in Nat, k \in S PROVE k + 1 \in S
  <2>1. PICK f : Shape(f) /\ Done(f, k)
    BY <1>2
  <2> DEFINE h == [i \in Nat |-> [q \in Quotes |->
                     IF i + (k + 1) >= end THEN CopyStep(f, l, end, i, q) ELSE <<>>]]
  <2>2. \A i \in Nat, q \in Quotes :
          h[i][q] = IF i + (k + 1) >= end THEN CopyStep(f, l, end, i, q) ELSE <<>>
    OBVIOUS
  <2>3. Shape(h)
    OBVIOUS
  <2> HIDE DEF h, Shape
  <2>4. ASSUME NEW i \in Nat, NEW q \in Quotes, i + k >= end PROVE h[i][q] = f[i][q]
    BY <2>1, <2>2, <2>4
  <2>5. ASSUME NEW i \in Nat, NEW q \in Quotes, i + (k + 1) >= end
        PROVE  h[i][q] = CopyStep(h, l, end, i, q)
    <3>1. h[i][q] = CopyStep(f, l, end, i, q)
      BY <2>2, <2>5
    <3>2. \A p \in Quotes : h[i + 1][p] = f[i + 1][p] /\ h[i + 2][p] = f[i + 2][p]
      <4>1. i + 1 \in Nat /\ (i + 1) + k >= end /\ i + 2 \in Nat /\ (i + 2) + k >= end
        BY <2>5
      <4> QED
        BY <4>1, <2>4
    <3> QED
      BY <3>1, <3>2, QuoteType DEF CopyStep
  <2>6. Done(h, k + 1)
    BY <2>5
  <2> HIDE DEF Done
  <2> QED
    BY <2>3, <2>6
<1>3. PICK f : Shape(f) /\ \A i \in Nat, q \in Quotes : f[i][q] = CopyStep(f, l, end, i, q)
  <2>1. end \in S
    <3> HIDE DEF S
    <3> QED
      BY <1>1, <1>2, SetInduction
  <2>2. PICK f : Shape(f) /\ Done(f, end)
    <3> HIDE DEF Done, Shape
    <3> QED
      BY <2>1
  <2>3. \A i \in Nat : i + end >= end
    OBVIOUS
  <2> HIDE DEF Shape
  <2> QED
    BY <2>2, <2>3
<1>4. f = [i \in Nat |-> [q \in Quotes |-> CopyStep(f, l, end, i, q)]]
  BY <1>3
<1>5. CopyFcn(l, end) = [i \in Nat |-> [q \in Quotes |-> CopyStep(CopyFcn(l, end), l, end, i, q)]]
  BY <1>4, Zenon DEF CopyFcn
<1>6. \A g : g = [i \in Nat |-> [q \in Quotes |-> CopyStep(g, l, end, i, q)]]
           => \A i \in Nat, q \in Quotes : g[i][q] = CopyStep(g, l, end, i, q)
  OBVIOUS
<1> QED
  BY <1>5, <1>6, Zenon

\* The reader in front of the character behind place i.
ReadFcn(l) ==
  CHOOSE f : f = [i \in 0 .. Len(l) |-> IF i = 0 THEN Reader ELSE Reads(f[i - 1], l[i])]

\* A line spells what the reader has behind its last character, and a comment is glued
\* to a token that it has open.
LEMMA DocumentedIs ==
  ASSUME NEW l
  PROVE  /\ Documented(l) = Closed(ReadFcn(l)[Len(l)]).out
         /\ Glued(l) <=> \E i \in 1 .. Len(l) : l[i] = "#" /\
              LET r == ReadFcn(l)[i - 1] IN
              r.open /\ r.quote = "none" /\ ~r.escape /\ ~r.comment
<1>1. Read(l) = ReadFcn(l)
  BY DEF Read, ReadFcn
<1> QED
  BY <1>1 DEF Documented, Glued

\* The reader goes from character to character.
LEMMA ReadEquation ==
  ASSUME NEW l, Len(l) \in Nat
  PROVE  /\ ReadFcn(l)[0] = Reader
         /\ \A i \in 1 .. Len(l) : ReadFcn(l)[i] = Reads(ReadFcn(l)[i - 1], l[i])
<1> DEFINE Is(f, k) == f = [i \in 0 .. k |-> IF i = 0 THEN Reader ELSE Reads(f[i - 1], l[i])]
           S == {k \in Nat : \E f : Is(f, k)}
<1>1. 0 \in S
  <2> DEFINE f == [i \in 0 .. 0 |-> Reader]
  <2>1. Is(f, 0)
    OBVIOUS
  <2> QED
    BY <2>1
<1>2. ASSUME NEW k \in Nat, k \in S PROVE k + 1 \in S
  <2>1. PICK f : Is(f, k)
    BY <1>2
  <2> DEFINE h == [i \in 0 .. k + 1 |-> IF i <= k THEN f[i] ELSE Reads(f[k], l[k + 1])]
  <2>2. \A i \in 0 .. k : h[i] = f[i]
    OBVIOUS
  <2>3. h[k + 1] = Reads(f[k], l[k + 1])
    OBVIOUS
  <2>4. \A i \in 0 .. k + 1 : h[i] = IF i = 0 THEN Reader ELSE Reads(h[i - 1], l[i])
    <3> SUFFICES ASSUME NEW i \in 0 .. k + 1
                 PROVE  h[i] = IF i = 0 THEN Reader ELSE Reads(h[i - 1], l[i])
      OBVIOUS
    <3> HIDE DEF h
    <3>1. CASE i <= k
      <4>1. f[i] = IF i = 0 THEN Reader ELSE Reads(f[i - 1], l[i])
        BY <2>1, <3>1
      <4> QED
        BY <4>1, <2>2, <3>1
    <3>2. CASE i = k + 1
      BY <3>2, <2>2, <2>3
    <3> QED
      BY <3>1, <3>2
  <2>5. Is(h, k + 1)
    BY <2>4
  <2> HIDE DEF Is, h
  <2> QED
    BY <2>5
<1>3. PICK f : Is(f, Len(l))
  <2>1. Len(l) \in S
    <3> HIDE DEF S
    <3> QED
      BY <1>1, <1>2, SetInduction
  <2> QED
    BY <2>1
<1>4. Is(ReadFcn(l), Len(l))
  BY <1>3, Zenon DEF ReadFcn
<1> QED
  BY <1>4

-----------------------------------------------------------------------------
(* Lines. *)

Char == STRING

\* A line: some characters.
Text(l) == l \in Seq(Char) /\ l # <<>>

\* A line has characters.
LEMMA TextFacts ==
  ASSUME NEW l, Text(l)
  PROVE  Len(l) \in Nat \ {0} /\ \A i \in 1 .. Len(l) : l[i] \in Char
BY DEF Text

\* The end of a token is never in front of its beginning, nor further behind the line
\* than a backslash takes it.
LEMMA EndBounds ==
  ASSUME NEW l, Text(l), NEW s
  PROVE  \A i \in 1 .. Len(l) + 2, q \in Quotes : EndFcn(l, s)[i][q] \in i .. Len(l) + 2
<1> DEFINE n == Len(l)
           E == EndFcn(l, s)
           Bounded(k) == \A i \in 1 .. n + 2, q \in Quotes : i + k > n => E[i][q] \in i .. n + 2
           S == {k \in Nat : Bounded(k)}
<1>1. /\ n \in Nat \ {0}
      /\ \A i \in Nat, q \in Quotes : E[i][q] = EndStep(E, l, s, i, q)
  BY TextFacts, EndEquation
<1> HIDE DEF n, E
<1>2. Bounded(0)
  BY <1>1 DEF EndStep, n
<1>3. ASSUME NEW k \in Nat, Bounded(k) PROVE Bounded(k + 1)
  <2> SUFFICES ASSUME NEW i \in 1 .. n + 2, NEW q \in Quotes, i + (k + 1) > n
               PROVE  E[i][q] \in i .. n + 2
    OBVIOUS
  <2>1. E[i][q] = EndStep(E, l, s, i, q)
    BY <1>1
  <2>2. CASE i > n
    BY <2>1, <2>2, <1>1 DEF EndStep, n
  <2>3. ASSUME i <= n, NEW p \in Quotes PROVE E[i + 1][p] \in i .. n + 2
    <3>1. i + 1 \in 1 .. n + 2 /\ (i + 1) + k > n
      BY <2>3, <1>1
    <3>2. E[i + 1][p] \in i + 1 .. n + 2
      BY <3>1, <1>3
    <3> QED
      BY <3>2, <1>1
  <2>4. ASSUME i <= n, Escapes(q, l[i]) PROVE E[i + 2][q] \in i .. n + 2
    <3>1. i + 2 \in 1 .. n + 2 /\ (i + 2) + k > n
      BY <2>4, <1>1
    <3>2. E[i + 2][q] \in i + 2 .. n + 2
      BY <3>1, <1>3
    <3> QED
      BY <3>2, <1>1
  <2> QED
    BY <2>1, <2>2, <2>3, <2>4, <1>1, QuoteType DEF EndStep, n
<1>4. n + 2 \in S
  <2>1. 0 \in S /\ \A k \in Nat : k \in S => k + 1 \in S
    <3> HIDE DEF Bounded
    <3> QED
      BY <1>2, <1>3
  <2> HIDE DEF S
  <2> QED
    BY <2>1, <1>1, SetInduction
<1> QED
  BY <1>1, <1>4 DEF n, E

\* It is behind the line only where a backslash takes it.
LEMMA EndBehind ==
  ASSUME NEW l, Text(l), NEW s
  PROVE  \A i \in 1 .. Len(l) + 1, q \in Quotes :
           EndFcn(l, s)[i][q] = Len(l) + 2 => l[Len(l)] = "\\"
<1> DEFINE n == Len(l)
           E == EndFcn(l, s)
           Held(k) == \A i \in 1 .. n + 1, q \in Quotes :
                        i + k > n => (E[i][q] = n + 2 => l[n] = "\\")
           S == {k \in Nat : Held(k)}
<1>1. /\ n \in Nat \ {0}
      /\ \A i \in Nat, q \in Quotes : E[i][q] = EndStep(E, l, s, i, q)
  BY TextFacts, EndEquation
<1> HIDE DEF n, E
<1>2. Held(0)
  BY <1>1 DEF EndStep, n
<1>3. ASSUME NEW k \in Nat, Held(k) PROVE Held(k + 1)
  <2> SUFFICES ASSUME NEW i \in 1 .. n + 1, NEW q \in Quotes, i + (k + 1) > n,
                      E[i][q] = n + 2
               PROVE  l[n] = "\\"
    OBVIOUS
  <2>1. E[i][q] = EndStep(E, l, s, i, q) /\ i <= n
    BY <1>1 DEF EndStep, n
  <2>2. ASSUME NEW p \in Quotes, E[i + 1][p] = n + 2 PROVE l[n] = "\\"
    <3>1. i + 1 \in 1 .. n + 1 /\ (i + 1) + k > n
      BY <2>1, <1>1
    <3> QED
      BY <3>1, <2>2, <1>3
  <2>3. ASSUME Escapes(q, l[i]), E[i + 2][q] = n + 2 PROVE l[n] = "\\"
    <3>1. CASE i = n
      BY <3>1, <2>3 DEF Escapes
    <3>2. CASE i # n
      <4>1. i + 2 \in 1 .. n + 1 /\ (i + 2) + k > n
        BY <2>1, <3>2, <1>1
      <4> QED
        BY <4>1, <2>3, <1>3
    <3> QED
      BY <3>1, <3>2
  <2> QED
    BY <2>1, <2>2, <2>3, <1>1, QuoteType DEF EndStep, n
<1>4. n + 1 \in S
  <2>1. 0 \in S /\ \A k \in Nat : k \in S => k + 1 \in S
    <3> HIDE DEF Held
    <3> QED
      BY <1>2, <1>3
  <2> HIDE DEF S
  <2> QED
    BY <2>1, <1>1, SetInduction
<1> QED
  BY <1>1, <1>4 DEF n, E

\* A token is a string.
LEMMA CopyType ==
  ASSUME NEW l, Text(l), NEW end \in 1 .. Len(l) + 1
  PROVE  \A i \in 1 .. Len(l) + 1, q \in Quotes : CopyFcn(l, end)[i][q] \in Seq(Char)
<1> DEFINE n == Len(l)
           C == CopyFcn(l, end)
           Typed(k) == \A i \in Nat \ {0}, q \in Quotes : i + k >= end => C[i][q] \in Seq(Char)
           S == {k \in Nat : Typed(k)}
<1>1. /\ n \in Nat \ {0} /\ end \in Nat
      /\ \A i \in 1 .. n : l[i] \in Char
      /\ \A i \in Nat, q \in Quotes : C[i][q] = CopyStep(C, l, end, i, q)
  BY TextFacts, CopyEquation
<1>2. end <= n + 1
  OBVIOUS
<1> HIDE DEF n, C
<1>3. Typed(0)
  <2> SUFFICES ASSUME NEW i \in Nat, NEW q \in Quotes, i + 0 >= end
               PROVE  C[i][q] \in Seq(Char)
    OBVIOUS
  <2>1. C[i][q] = CopyStep(C, l, end, i, q) /\ i >= end
    BY <1>1
  <2>2. C[i][q] = <<>>
    BY <2>1 DEF CopyStep
  <2> QED
    BY <2>2
<1>4. ASSUME NEW k \in Nat, Typed(k) PROVE Typed(k + 1)
  <2> SUFFICES ASSUME NEW i \in Nat \ {0}, NEW q \in Quotes, i + (k + 1) >= end
               PROVE  C[i][q] \in Seq(Char)
    OBVIOUS
  <2>1. C[i][q] = CopyStep(C, l, end, i, q)
    BY <1>1
  <2>2. CASE i >= end
    BY <2>1, <2>2 DEF CopyStep
  <2>3. CASE i < end
    <3>1. \A p \in Quotes : C[i + 1][p] \in Seq(Char) /\ C[i + 2][p] \in Seq(Char)
      <4>1. /\ i + 1 \in Nat \ {0} /\ (i + 1) + k >= end
            /\ i + 2 \in Nat \ {0} /\ (i + 2) + k >= end
        BY <1>1
      <4> QED
        BY <4>1, <1>4
    <3>2. <<l[i]>> \in Seq(Char)
      BY <2>3, <1>1, <1>2
    <3>3. (IF i < end - 1 THEN <<l[i + 1]>> ELSE <<>>) \in Seq(Char)
      <4>1. CASE i < end - 1
        <5>1. i + 1 \in 1 .. n
          BY <4>1, <1>1, <1>2
        <5>2. <<l[i + 1]>> \in Seq(Char)
          BY <5>1, <1>1
        <5> QED
          BY <4>1, <5>2
      <4>2. <<>> \in Seq(Char)
        OBVIOUS
      <4> QED
        BY <4>1, <4>2
    <3>4. \A u, v \in Seq(Char) : u \o v \in Seq(Char)
      OBVIOUS
    <3>5. ~(i >= end)
      BY <2>3, <1>1
    <3> QED
      BY <2>1, <3>1, <3>2, <3>3, <3>4, <3>5, QuoteType DEF CopyStep
  <2> QED
    BY <2>2, <2>3, <1>1
<1>5. end \in S
  <2>1. 0 \in S /\ \A k \in Nat : k \in S => k + 1 \in S
    <3> HIDE DEF Typed
    <3> QED
      BY <1>3, <1>4
  <2> HIDE DEF S
  <2> QED
    BY <2>1, <1>1, SetInduction
<1> QED
  BY <1>1, <1>5 DEF n, C

\* What the reader may have.
Strings == Seq(Char)
Lists == Seq(Strings)
Readers == [out : Lists, token : Strings, open : BOOLEAN, quote : Quotes, escape : BOOLEAN,
            comment : BOOLEAN]

\* Strings and lists of them grow at their end.
LEMMA ListFacts ==
  /\ <<>> \in Strings /\ <<>> \in Lists
  /\ \A t \in Strings : \A ch \in Char : Append(t, ch) \in Strings
  /\ \A ch \in Char : <<ch>> \in Strings
  /\ \A o \in Lists : \A t \in Strings : Append(o, t) \in Lists
<1>1. \A S : <<>> \in Seq(S) /\ \A s \in Seq(S) : \A e \in S : Append(s, e) \in Seq(S)
  OBVIOUS
<1>2. \A S : \A e \in S : <<e>> \in Seq(S)
  OBVIOUS
<1> QED
  BY <1>1, <1>2, Zenon DEF Strings, Lists

\* Closing a token keeps the reader's type,
LEMMA ClosedType == \A r \in Readers : Closed(r) \in Readers
BY ListFacts DEF Readers, Closed

\* and so does a character,
LEMMA ReadsType == \A r \in Readers : \A ch \in Char : Reads(r, ch) \in Readers
<1> SUFFICES ASSUME NEW r \in Readers, NEW ch \in Char PROVE Reads(r, ch) \in Readers
  OBVIOUS
<1>1. [Closed(r) EXCEPT !.out = Append(@, <<ch>>)] \in Readers
  BY ClosedType, ListFacts DEF Readers
<1>2. [r EXCEPT !.token = Append(@, ch), !.escape = FALSE] \in Readers
  BY ListFacts DEF Readers
<1>3. [r EXCEPT !.token = Append(@, ch), !.open = TRUE] \in Readers
  BY ListFacts DEF Readers
<1>4. [r EXCEPT !.escape = TRUE, !.open = TRUE] \in Readers
  BY DEF Readers
<1>5. [r EXCEPT !.quote = Quote(@, ch), !.open = TRUE] \in Readers
  BY QuoteType DEF Readers
<1>6. [Closed(r) EXCEPT !.comment = TRUE] \in Readers
  BY ClosedType DEF Readers
<1> QED
  BY <1>1, <1>2, <1>3, <1>4, <1>5, <1>6, ClosedType, Zenon DEF Reads

\* and so a line.
LEMMA ReadType ==
  ASSUME NEW l, Text(l)
  PROVE  \A i \in 0 .. Len(l) : ReadFcn(l)[i] \in Readers
<1> DEFINE n == Len(l)
           R == ReadFcn(l)
           S == {k \in Nat : k <= n => R[k] \in Readers}
<1>1. /\ n \in Nat /\ \A i \in 1 .. n : l[i] \in Char
      /\ R[0] = Reader /\ \A i \in 1 .. n : R[i] = Reads(R[i - 1], l[i])
  BY TextFacts, ReadEquation
<1> HIDE DEF n, R
<1>2. 0 \in S
  <2>1. Reader \in Readers
    BY ListFacts DEF Reader, Readers, Quotes
  <2> QED
    BY <2>1, <1>1
<1>3. ASSUME NEW k \in Nat, k \in S PROVE k + 1 \in S
  <2>1. CASE k + 1 <= n
    <3>1. R[k] \in Readers /\ l[k + 1] \in Char /\ R[k + 1] = Reads(R[k], l[k + 1])
      BY <2>1, <1>1, <1>3
    <3>2. R[k + 1] \in Readers
      BY <3>1, ReadsType
    <3> QED
      BY <3>2
  <2> QED
    BY <2>1, <1>1
<1>4. Nat \subseteq S
  <2> HIDE DEF S
  <2> QED
    BY <1>2, <1>3, SetInduction
<1> QED
  BY <1>1, <1>4 DEF n, R

-----------------------------------------------------------------------------
(* What get_token passes over, and what the reader makes of it. *)

\* No comment, no quotes and no backslash are open.
Clean(r) == ~r.comment /\ ~r.escape /\ r.quote = "none"

\* The reader where a call of get_token begins: a token of which the last call has
\* found the end may still be open, but the next character closes it.
Ready(l, a) == LET r == ReadFcn(l)[a - 1] IN
  /\ Clean(r)
  /\ ~r.open => r.token = <<>>
  /\ r.open => l[a] \in Ifs \cup TokenChars

\* White space, the marks { } = and the hash sign are none of the quotes or the backslash.
LEMMA PlainChars ==
  /\ \A ch \in Ifs \cup TokenChars \cup {"#"} : \A q \in Quotes :
       ~Escapes(q, ch) /\ Quote(q, ch) = q
  /\ "#" \notin Ifs \cup TokenChars
  /\ Ifs \cap TokenChars = {}
BY DEF Ifs, TokenChars, Escapes, Quote, Quotes

\* A closed token is at the end of the list, and there is none to close then.
LEMMA ClosedFacts ==
  ASSUME NEW r \in Readers
  PROVE  /\ Closed(r) \in Readers /\ ~Closed(r).open /\ Closed(Closed(r)) = Closed(r)
         /\ Clean(r) => Clean(Closed(r))
         /\ (~r.open => r.token = <<>>) => Closed(r).token = <<>>
         /\ ~r.open => Closed(r) = r
         /\ r.open => Closed(r).out = Append(r.out, r.token)
<1>1. CASE r.open
  <2>1. Closed(r) = [r EXCEPT !.out = Append(@, r.token), !.token = <<>>, !.open = FALSE]
    BY <1>1 DEF Closed
  <2>2. /\ ~Closed(r).open /\ Closed(r).token = <<>> /\ Closed(r).out = Append(r.out, r.token)
        /\ Closed(r).comment = r.comment /\ Closed(r).escape = r.escape
        /\ Closed(r).quote = r.quote
    BY <2>1 DEF Readers
  <2>3. Closed(Closed(r)) = Closed(r)
    BY <2>2 DEF Closed
  <2> QED
    BY <1>1, <2>2, <2>3, ClosedType DEF Clean
<1>2. CASE ~r.open
  BY <1>2, ClosedType DEF Closed
<1> QED
  BY <1>1, <1>2

\* White space closes a token.
LEMMA ReadsBlank ==
  ASSUME NEW r \in Readers, Clean(r), NEW ch \in Ifs
  PROVE  Reads(r, ch) = Closed(r)
BY PlainChars DEF Reads, Clean, Quotes

\* A mark closes a token and is one.
LEMMA ReadsMark ==
  ASSUME NEW r \in Readers, Clean(r), NEW ch \in TokenChars
  PROVE  Reads(r, ch) = [Closed(r) EXCEPT !.out = Append(@, <<ch>>)]
BY PlainChars DEF Reads, Clean, Quotes

\* A hash sign between tokens begins a comment.
LEMMA ReadsHash ==
  ASSUME NEW r \in Readers, Clean(r), ~r.open
  PROVE  Reads(r, "#") = [r EXCEPT !.comment = TRUE]
BY PlainChars DEF Reads, Closed, Clean, Quotes

\* White space closes the token before it and does nothing more.
LEMMA WhiteSpace ==
  ASSUME NEW l, Text(l), NEW a \in 1 .. Len(l), Ready(l, a),
         NEW s \in a + 1 .. Len(l) + 1, \A j \in a .. s - 1 : l[j] \in Ifs
  PROVE  ReadFcn(l)[s - 1] = Closed(ReadFcn(l)[a - 1])
<1> DEFINE n == Len(l)
           R == ReadFcn(l)
           S == {k \in Nat : a + k < s => R[a + k] = Closed(R[a - 1])}
<1>1. /\ n \in Nat /\ a \in Nat \ {0} /\ s \in Nat
      /\ \A i \in 1 .. n : R[i] = Reads(R[i - 1], l[i])
      /\ \A i \in 0 .. n : R[i] \in Readers
  BY TextFacts, ReadEquation, ReadType
<1>2. a <= n /\ s <= n + 1 /\ a < s /\ a - 1 \in 0 .. n
  BY <1>1
<1>3. Clean(R[a - 1])
  BY DEF Ready
<1> HIDE DEF n, R
<1>4. 0 \in S
  <2>1. l[a] \in Ifs /\ R[a] = Reads(R[a - 1], l[a]) /\ R[a - 1] \in Readers
    BY <1>1, <1>2
  <2>2. R[a] = Closed(R[a - 1])
    BY <1>3, <2>1, ReadsBlank
  <2> QED
    BY <2>2, <1>1
<1>5. ASSUME NEW k \in Nat, k \in S PROVE k + 1 \in S
  <2> SUFFICES ASSUME a + (k + 1) < s PROVE R[a + (k + 1)] = Closed(R[a - 1])
    OBVIOUS
  <2>1. R[a + k] = Closed(R[a - 1])
    BY <1>1, <1>5
  <2>2. Closed(R[a - 1]) \in Readers /\ Clean(Closed(R[a - 1]))
         /\ Closed(Closed(R[a - 1])) = Closed(R[a - 1])
    BY <1>1, <1>2, <1>3, ClosedFacts
  <2>3. a + (k + 1) \in 1 .. n /\ a + (k + 1) \in a .. s - 1 /\ (a + (k + 1)) - 1 = a + k
    BY <1>1, <1>2
  <2>4. R[a + (k + 1)] = Reads(R[a + k], l[a + (k + 1)]) /\ l[a + (k + 1)] \in Ifs
    BY <1>1, <2>3
  <2> QED
    BY <2>1, <2>2, <2>4, ReadsBlank
<1>6. s - 1 - a \in S
  <2>1. s - 1 - a \in Nat
    BY <1>1, <1>2
  <2> HIDE DEF S
  <2> QED
    BY <1>4, <1>5, <2>1, SetInduction
<1>7. a + (s - 1 - a) = s - 1 /\ a + (s - 1 - a) < s
  BY <1>1
<1> QED
  BY <1>6, <1>7 DEF R

\* A comment reaches to the end of the line.
LEMMA CommentRead ==
  ASSUME NEW l, Text(l), NEW s \in 1 .. Len(l), Clean(ReadFcn(l)[s - 1]),
         ~ReadFcn(l)[s - 1].open, l[s] = "#"
  PROVE  Closed(ReadFcn(l)[Len(l)]).out = ReadFcn(l)[s - 1].out
<1> DEFINE n == Len(l)
           R == ReadFcn(l)
           c == [R[s - 1] EXCEPT !.comment = TRUE]
           S == {k \in Nat : s + k <= n => R[s + k] = c}
<1>1. /\ n \in Nat /\ s \in Nat \ {0} /\ s <= n /\ s - 1 \in 0 .. n
      /\ \A i \in 1 .. n : R[i] = Reads(R[i - 1], l[i])
      /\ \A i \in 0 .. n : R[i] \in Readers
      /\ Clean(R[s - 1]) /\ ~R[s - 1].open
  BY TextFacts, ReadEquation, ReadType
<1>2. c.comment /\ ~c.open /\ c.out = R[s - 1].out
  BY <1>1 DEF Readers
<1>3. R[s] = c
  <2>1. R[s - 1] \in Readers /\ R[s] = Reads(R[s - 1], "#")
    BY <1>1
  <2> QED
    BY <1>1, <2>1, ReadsHash
<1> HIDE DEF n, R, c
<1>4. 0 \in S
  BY <1>1, <1>3
<1>5. ASSUME NEW k \in Nat, k \in S PROVE k + 1 \in S
  <2> SUFFICES ASSUME s + (k + 1) <= n PROVE R[s + (k + 1)] = c
    OBVIOUS
  <2>1. R[s + k] = c
    BY <1>1, <1>5
  <2>2. s + (k + 1) \in 1 .. n /\ (s + (k + 1)) - 1 = s + k
    BY <1>1
  <2>3. R[s + (k + 1)] = Reads(R[s + k], l[s + (k + 1)])
    BY <1>1, <2>2
  <2> QED
    BY <1>2, <2>1, <2>3 DEF Reads
<1>6. R[n] = c
  <2>1. n - s \in Nat /\ s + (n - s) = n
    BY <1>1
  <2>2. n - s \in S
    <3> HIDE DEF S
    <3> QED
      BY <1>4, <1>5, <2>1, SetInduction
  <2> QED
    BY <2>1, <2>2, <1>1
<1> QED
  BY <1>2, <1>6 DEF Closed, n, R

-----------------------------------------------------------------------------
(* A token of other characters than the marks. *)

\* The last character in front of place i.
Before(l, i) == IF i > Len(l) THEN Len(l) ELSE i - 1

\* Where the loop that looks for the end, the loop that copies and the reader are at
\* place i of the token that begins at s, with quotes q: the end is still to come,
\* and what the reader has and what is still to be copied make the token.
Midway(l, s, i, q) ==
  LET r == ReadFcn(l)[Before(l, i)]
      copy == CopyFcn(l, Stop(l, End(l, s)))
  IN  /\ EndFcn(l, s)[i][q] = End(l, s)
      /\ ~r.comment /\ (r.escape <=> i > Len(l) + 1) /\ r.quote = q /\ (r.open <=> i > s)
      /\ r.out = ReadFcn(l)[s - 1].out
      /\ r.token \o copy[i][q] = copy[s]["none"]

\* A character moves from the front of the rest to the end of what there is.
LEMMA Concatenation ==
  \A t, u \in Seq(Char) : \A ch \in Char : t \o (<<ch>> \o u) = Append(t, ch) \o u
<1> TAKE t, u \in Seq(Char)
<1> TAKE ch \in Char
<1>1. <<ch>> \in Seq(Char)
  OBVIOUS
<1>2. Append(t, ch) = t \o <<ch>>
  BY AppendIsConcat
<1>3. t \o (<<ch>> \o u) = (t \o <<ch>>) \o u
  BY <1>1, ConcatAssociative
<1> QED
  BY <1>2, <1>3

\* The three go on together, by one character or, at a backslash, by two.
LEMMA ScanStep ==
  ASSUME NEW l, Text(l), ~Glued(l), NEW s \in 1 .. Len(l),
         l[s] \notin Ifs \cup TokenChars \cup {"#"},
         NEW i \in s .. End(l, s) - 1, NEW q \in Quotes, Midway(l, s, i, q),
         End(l, s) \in 1 .. Len(l) + 2
  PROVE  \E j \in i + 1 .. End(l, s) : \E p \in Quotes : Midway(l, s, j, p)
<1> DEFINE n == Len(l)
           end == End(l, s)
           stop == Stop(l, end)
           E == EndFcn(l, s)
           C == CopyFcn(l, stop)
           R == ReadFcn(l)
           r == R[i - 1]
           ch == l[i]
<1>1. /\ n \in Nat \ {0} /\ end \in Nat /\ end <= n + 2 /\ s \in Nat \ {0} /\ i \in Nat \ {0}
      /\ s <= i /\ i < end /\ i <= n /\ i - 1 \in 0 .. n /\ i \in 1 .. n
  <2>1. n \in Nat \ {0} /\ end \in Nat /\ end <= n + 2 /\ s \in Nat \ {0} /\ i \in Nat \ {0}
         /\ s <= i /\ i < end
    BY TextFacts
  <2>2. E[i][q] = EndStep(E, l, s, i, q) /\ E[i][q] = end
    BY <2>1, EndEquation DEF Midway
  <2>3. i <= n
    <3> HIDE DEF E, end
    <3> QED
      BY <2>1, <2>2 DEF EndStep
  <2> QED
    BY <2>1, <2>3
<1>2. \A j \in 1 .. n : l[j] \in Char
  BY TextFacts
<1>20. /\ stop \in 1 .. n + 1 /\ stop \in Nat /\ i < stop
       /\ \A j \in Nat : j <= n => (j < stop <=> j < end)
       /\ stop = IF end > n + 1 THEN n + 1 ELSE end
  <2> HIDE DEF end, n
  <2> QED
    BY <1>1 DEF Stop, n
<1>3. E[i][q] = EndStep(E, l, s, i, q) /\ \A j \in Nat : C[j][q] = CopyStep(C, l, stop, j, q)
  <2> HIDE DEF stop
  <2> QED
    BY <1>1, <1>20, EndEquation, CopyEquation
<1>4. \A j \in 1 .. n + 2, p \in Quotes : E[j][p] \in j .. n + 2
  BY EndBounds
<1>5. \A j \in 1 .. n + 1, p \in Quotes : C[j][p] \in Seq(Char)
  <2> HIDE DEF stop
  <2> QED
    BY <1>20, CopyType
<1>6. \A j \in 1 .. n : R[j] = Reads(R[j - 1], l[j])
  BY ReadEquation, <1>1
<1>7. \A j \in 0 .. n : R[j] \in Readers
  BY ReadType
<1>8. /\ E[i][q] = end
      /\ ~r.comment /\ ~r.escape /\ r.quote = q /\ (r.open <=> i > s)
      /\ r.out = R[s - 1].out
      /\ r.token \o C[i][q] = C[s]["none"]
  <2>1. Before(l, i) = i - 1 /\ ~(i > Len(l) + 1)
    BY <1>1 DEF Before
  <2> QED
    BY <2>1 DEF Midway
<1>9. /\ r \in Readers /\ r.token \in Seq(Char) /\ r.out \in Lists
      /\ R[i] = Reads(r, ch) /\ ch \in Char
  BY <1>1, <1>2, <1>6, <1>7 DEF Readers, Strings
<1>10. ASSUME NEW j \in Nat, NEW p \in Quotes, E[j][p] = end, j > s,
              NEW k \in Nat, k = Before(l, j),
              ~R[k].comment, R[k].escape <=> j > n + 1, R[k].quote = p, R[k].open,
              R[k].out = R[s - 1].out,
              R[k].token \o C[j][p] = C[s]["none"]
       PROVE  Midway(l, s, j, p)
  BY <1>10 DEF Midway
<1>21. ~(ch = "#" /\ r.open /\ q = "none")
  <2> SUFFICES ASSUME ch = "#", r.open, q = "none" PROVE FALSE
    OBVIOUS
  <2>1. Glued(l)
    BY <1>1, <1>8, DocumentedIs
  <2> QED
    BY <2>1
<1> HIDE DEF n, end, stop, E, C, R, r, ch
<1>11. CASE Escapes(q, ch)
  <2>1. E[i + 2][q] = end
    BY <1>1, <1>3, <1>8, <1>11 DEF EndStep, n, ch
  <2>2. i + 2 \in 1 .. n + 2 /\ i + 2 \in Nat /\ i + 2 > s
    BY <1>1
  <2>3. i + 2 <= end
    <3>1. E[i + 2][q] \in i + 2 .. n + 2
      BY <2>2, <1>4
    <3> QED
      BY <3>1, <2>1
  <2>4. i + 2 \in i + 1 .. end
    BY <1>1, <2>3
  <2>5. R[i] = [r EXCEPT !.escape = TRUE, !.open = TRUE]
    BY <1>8, <1>9, <1>11 DEF Reads
  <2>6. R[i].escape /\ ~R[i].comment /\ R[i].open /\ R[i].token = r.token /\ R[i].out = r.out
         /\ R[i].quote = q
    BY <2>5, <1>8, <1>9 DEF Readers
  <2>7. C[i][q] = (IF i < stop - 1 THEN <<l[i + 1]>> ELSE <<>>) \o C[i + 2][q]
    <3>1. ~(i >= stop)
      BY <1>1, <1>20
    <3> QED
      BY <1>1, <1>3, <1>11, <3>1 DEF CopyStep, ch
  <2>8. CASE i = n
    <3>1. end = n + 2 /\ stop = n + 1
      BY <2>3, <2>8, <1>1, <1>20
    <3>2. C[i + 2][q] = <<>>
      <4>1. i + 2 >= stop
        BY <2>8, <3>1, <1>1
      <4> QED
        BY <2>2, <4>1, <1>3 DEF CopyStep
    <3>3. C[i][q] = <<>>
      <4>1. ~(i < stop - 1) /\ <<>> \o <<>> = <<>>
        BY <2>8, <3>1, <1>1
      <4> QED
        BY <2>7, <3>2, <4>1
    <3>4. Before(l, i + 2) = i /\ i + 2 > n + 1
      BY <2>8, <1>1 DEF Before, n
    <3>5. R[i].token \o C[i + 2][q] = C[s]["none"]
      BY <2>6, <3>2, <3>3, <1>8
    <3>6. R[i].out = R[s - 1].out
      BY <2>6, <1>8
    <3>7. Midway(l, s, i + 2, q)
      <4>1. i \in Nat /\ (R[i].escape <=> i + 2 > n + 1) /\ i = Before(l, i + 2)
        BY <2>6, <3>4, <1>1
      <4> QED
        BY <2>1, <2>2, <2>6, <3>5, <3>6, <4>1, <1>10
    <3> QED
      BY <2>4, <3>7 DEF end
  <2>9. CASE i # n
    <3>1. i + 2 \in 1 .. n + 1 /\ i + 1 \in 1 .. n
      BY <2>9, <1>1
    <3>2. C[i][q] = <<l[i + 1]>> \o C[i + 2][q]
      <4>1. i < stop - 1
        BY <2>3, <2>9, <1>1, <1>20
      <4> QED
        BY <2>7, <4>1
    <3>3. R[i + 1] = Reads(R[i], l[i + 1])
      <4>1. (i + 1) - 1 = i
        BY <1>1
      <4> QED
        BY <1>6, <3>1, <4>1
    <3>4. R[i] \in Readers
      BY <1>1, <1>7
    <3>5. R[i + 1] = [R[i] EXCEPT !.token = Append(@, l[i + 1]), !.escape = FALSE]
      BY <3>3, <2>6 DEF Reads
    <3>6. /\ ~R[i + 1].comment /\ ~R[i + 1].escape /\ R[i + 1].quote = q /\ R[i + 1].open
          /\ R[i + 1].out = R[s - 1].out /\ R[i + 1].token = Append(r.token, l[i + 1])
      BY <2>6, <3>4, <3>5, <1>8 DEF Readers
    <3>7. Append(r.token, l[i + 1]) \o C[i + 2][q] = C[s]["none"]
      <4>1. l[i + 1] \in Char /\ C[i + 2][q] \in Seq(Char) /\ r.token \in Seq(Char)
        BY <3>1, <1>2, <1>5, <1>9
      <4>2. r.token \o (<<l[i + 1]>> \o C[i + 2][q]) = Append(r.token, l[i + 1]) \o C[i + 2][q]
        BY <4>1, Concatenation, Zenon
      <4> QED
        BY <4>2, <3>2, <1>8
    <3>8. i + 1 = Before(l, i + 2) /\ i + 1 \in Nat /\ ~(i + 2 > n + 1)
      BY <2>9, <1>1 DEF Before, n
    <3>9. R[i + 1].token \o C[i + 2][q] = C[s]["none"]
      BY <3>6, <3>7
    <3>10. R[i + 1].escape <=> i + 2 > n + 1
      BY <3>6, <3>8
    <3>11. Midway(l, s, i + 2, q)
      BY <1>10, <2>1, <2>2, <3>6, <3>8, <3>9, <3>10
    <3> QED
      BY <2>4, <3>11 DEF end
  <2> QED
    BY <2>8, <2>9
<1>12. CASE ~Escapes(q, ch)
  <2> DEFINE p == Quote(q, ch)
  <2>1. E[i + 1][p] = end /\ ~(p = "none" /\ ch \in Ifs) /\ ~(p = "none" /\ ch \in TokenChars)
    <3>1. i = s => ch \notin TokenChars
      BY DEF ch
    <3> QED
      BY <1>1, <1>3, <1>8, <1>12, <3>1 DEF EndStep, n, ch
  <2>2. p \in Quotes /\ i + 1 \in 1 .. n + 1 /\ i + 1 \in i + 1 .. end
    BY <1>1, QuoteType
  <2>3. /\ ~R[i].comment /\ ~R[i].escape /\ R[i].quote = p /\ R[i].open
        /\ R[i].out = R[s - 1].out
        /\ R[i].token = IF p # q THEN r.token ELSE Append(r.token, ch)
    <3>1. CASE p # q
      <4>1. R[i] = [r EXCEPT !.quote = Quote(@, ch), !.open = TRUE]
        BY <3>1, <1>8, <1>9, <1>12 DEF Reads
      <4> QED
        BY <4>1, <3>1, <1>8, <1>9 DEF Readers
    <3>2. CASE p = q
      <4>1. ~(q = "none" /\ ch = "#")
        <5>1. CASE i = s
          BY <5>1 DEF ch
        <5>2. CASE i # s
          BY <5>2, <1>1, <1>8, <1>21
        <5> QED
          BY <5>1, <5>2
      <4>2. R[i] = [r EXCEPT !.token = Append(@, ch), !.open = TRUE]
        BY <3>2, <2>1, <4>1, <1>8, <1>9, <1>12 DEF Reads
      <4> QED
        BY <4>2, <3>2, <1>8, <1>9 DEF Readers
    <3> QED
      BY <3>1, <3>2
  <2>4. R[i].token \o C[i + 1][p] = C[s]["none"]
    <3>1. C[i][q] = IF p # q THEN C[i + 1][p] ELSE <<ch>> \o C[i + 1][p]
      <4>1. ~(i >= stop) /\ C[i][q] = CopyStep(C, l, stop, i, q)
        BY <1>1, <1>3, <1>20
      <4> QED
        BY <4>1, <1>12 DEF CopyStep, ch
    <3>2. C[i + 1][p] \in Seq(Char)
      BY <1>5, <2>2
    <3>3. r.token \o (<<ch>> \o C[i + 1][p]) = Append(r.token, ch) \o C[i + 1][p]
      <4>1. r.token \in Seq(Char) /\ ch \in Char
        BY <1>9
      <4> HIDE DEF p
      <4> QED
        BY <3>2, <4>1, Concatenation, Zenon
    <3> HIDE DEF p
    <3> QED
      BY <3>1, <3>3, <2>3, <1>8, Zenon
  <2>5. i + 1 > s /\ i + 1 \in Nat /\ i \in Nat /\ i = Before(l, i + 1) /\ ~(i + 1 > n + 1)
    BY <1>1 DEF Before, n
  <2>6. Midway(l, s, i + 1, p)
    <3> HIDE DEF p
    <3> QED
      BY <1>10, <2>1, <2>2, <2>3, <2>4, <2>5
  <2> QED
    BY <2>2, <2>6 DEF end
<1> QED
  BY <1>11, <1>12

\* At the end of the token the reader has it, as get_token returns it.
LEMMA WordRead ==
  ASSUME NEW l, Text(l), ~Glued(l), NEW s \in 1 .. Len(l),
         l[s] \notin Ifs \cup TokenChars \cup {"#"},
         Clean(ReadFcn(l)[s - 1]), ~ReadFcn(l)[s - 1].open, ReadFcn(l)[s - 1].token = <<>>
  PROVE  LET end == End(l, s)
             r == ReadFcn(l)[Before(l, end)]
         IN  /\ end \in s + 1 .. Len(l) + 2
             /\ r.open /\ r.out = ReadFcn(l)[s - 1].out
             /\ r.token = Copied(l, s, Stop(l, end))
             /\ end <= Len(l) => Clean(r) /\ l[end] \in Ifs \cup TokenChars
<1> DEFINE n == Len(l)
           end == End(l, s)
           stop == Stop(l, end)
           E == EndFcn(l, s)
           C == CopyFcn(l, stop)
           R == ReadFcn(l)
           T == {i \in s .. end : \E q \in Quotes : Midway(l, s, i, q)}
<1>1. /\ n \in Nat \ {0} /\ s \in Nat \ {0} /\ s <= n /\ s \in 1 .. n + 1
  BY TextFacts
<1>2. \A i \in Nat, q \in Quotes : E[i][q] = EndStep(E, l, s, i, q)
  BY EndEquation, <1>1
<1>3. \A i \in 1 .. n + 2, q \in Quotes : E[i][q] \in i .. n + 2
  BY EndBounds
<1>4. end = E[s]["none"] /\ "none" \in Quotes
  BY EndIs DEF Quotes
<1>5. end \in s + 1 .. n + 2
  <2> HIDE DEF n, E, end
  <2>1. E[s]["none"] = EndStep(E, l, s, s, "none")
    BY <1>1, <1>2, <1>4
  <2>2. Quote("none", l[s]) \in Quotes
    BY <1>4, QuoteType
  <2>3. E[s + 1][Quote("none", l[s])] \in s + 1 .. n + 2
    BY <1>1, <1>3, <2>2
  <2>4. CASE Escapes("none", l[s])
    <3>1. s + 2 \in 1 .. n + 2
      BY <1>1
    <3>2. E[s + 2]["none"] \in s + 2 .. n + 2
      BY <3>1, <1>3, <1>4
    <3> QED
      BY <2>1, <2>4, <3>2, <1>1, <1>4 DEF EndStep, n
  <2>5. CASE ~Escapes("none", l[s])
    BY <2>1, <2>3, <2>5, <1>1, <1>4 DEF EndStep, n
  <2> QED
    BY <2>4, <2>5
<1>6. end \in Nat \ {0} /\ end \in 1 .. n + 2 /\ s <= end
  BY <1>1, <1>5
<1>20. stop \in 1 .. n + 1 /\ stop \in Nat /\ stop <= end
  <2> HIDE DEF end, n
  <2> QED
    BY <1>1, <1>6 DEF Stop, n
<1>7. /\ \A i \in Nat, q \in Quotes : C[i][q] = CopyStep(C, l, stop, i, q)
      /\ C[s]["none"] \in Seq(Char)
  <2> HIDE DEF stop
  <2> QED
    BY <1>1, <1>4, <1>20, CopyEquation, CopyType
<1>8. Midway(l, s, s, "none")
  <2>1. <<>> \o C[s]["none"] = C[s]["none"]
    <3> HIDE DEF C
    <3> QED
      BY <1>7, ConcatEmptySeq
  <2>2. Before(l, s) = s - 1 /\ ~(s > Len(l) + 1) /\ ~(s > s)
    BY <1>1 DEF Before
  <2>3. EndFcn(l, s)[s]["none"] = End(l, s)
    BY <1>4
  <2> HIDE DEF n, end, stop, E, T
  <2> QED
    BY <2>1, <2>2, <2>3 DEF Midway, Clean, C, stop, end
<1>9. PICK m \in T : \A i \in T : i <= m
  <2>1. T \subseteq Nat /\ s \in T /\ \A i \in T : i <= end
    BY <1>1, <1>4, <1>6, <1>8
  <2> HIDE DEF T, end
  <2> QED
    BY <2>1, <1>6, Largest
<1>10. PICK q \in Quotes : Midway(l, s, m, q)
  OBVIOUS
<1>11. m = end
  <2> SUFFICES ASSUME m # end PROVE FALSE
    OBVIOUS
  <2>1. m \in s .. end - 1
    BY <1>1, <1>6
  <2>2. PICK j \in m + 1 .. end : \E p \in Quotes : Midway(l, s, j, p)
    BY <2>1, <1>6, <1>10, ScanStep
  <2>3. j \in T /\ ~(j <= m)
    BY <2>1, <2>2, <1>1, <1>6
  <2> QED
    BY <2>3, <1>9
<1> DEFINE r == R[Before(l, end)]
<1>12. /\ E[end][q] = end
       /\ ~r.comment /\ (r.escape <=> end > n + 1) /\ r.quote = q /\ r.open
       /\ r.out = R[s - 1].out /\ r.token \o C[end][q] = C[s]["none"]
  <2>1. end > s
    BY <1>5, <1>1
  <2> QED
    BY <2>1, <1>10, <1>11 DEF Midway
<1>13. r.token \in Seq(Char)
  <2>1. Before(l, end) \in 0 .. n
    <3> HIDE DEF end
    <3> QED
      BY <1>1, <1>6 DEF Before
  <2>2. r \in Readers
    BY <2>1, ReadType
  <2> QED
    BY <2>2 DEF Readers, Strings
<1> HIDE DEF r
<1>14. r.token = Copied(l, s, stop)
  <2> HIDE DEF C, R, end, stop
  <2>1. C[end][q] = CopyStep(C, l, stop, end, q)
    BY <1>6, <1>7
  <2>2. C[end][q] = <<>>
    BY <2>1, <1>6, <1>20 DEF CopyStep
  <2>3. r.token \o <<>> = r.token
    BY <1>13, ConcatEmptySeq
  <2> QED
    BY <2>2, <2>3, <1>12, CopiedIs DEF C
<1>15. ASSUME end <= n PROVE q = "none" /\ l[end] \in Ifs \cup TokenChars
  <2> HIDE DEF n, E, end
  <2>1. E[end][q] = EndStep(E, l, s, end, q)
    BY <1>2, <1>6
  <2>2. ~Escapes(q, l[end])
    <3> SUFFICES ASSUME Escapes(q, l[end]) PROVE FALSE
      OBVIOUS
    <3>1. end + 2 \in 1 .. n + 2
      BY <1>15, <1>6, <1>1
    <3>2. E[end + 2][q] \in end + 2 .. n + 2
      BY <3>1, <1>3
    <3>3. E[end][q] = E[end + 2][q]
      BY <2>1, <1>15, <1>6, <1>1 DEF EndStep, n
    <3> QED
      BY <3>2, <3>3, <1>12, <1>6, <1>1
  <2>3. E[end + 1][Quote(q, l[end])] # end
    <3>1. end + 1 \in 1 .. n + 2
      BY <1>15, <1>6, <1>1
    <3>2. E[end + 1][Quote(q, l[end])] \in end + 1 .. n + 2
      BY <3>1, <1>3, QuoteType
    <3> QED
      BY <3>2, <1>6, <1>1
  <2>4. Quote(q, l[end]) = "none" /\ l[end] \in Ifs \cup TokenChars
    BY <2>1, <2>2, <2>3, <1>12, <1>15, <1>6, <1>1 DEF EndStep, n
  <2> QED
    BY <2>4, PlainChars
<1>16. end <= n => Clean(r)
  <2> HIDE DEF end, n
  <2> QED
    BY <1>1, <1>6, <1>12, <1>15 DEF Clean
<1> QED
  BY <1>5, <1>12, <1>14, <1>15, <1>16 DEF r

\* One of the characters { } = is a token of its own.
LEMMA MarkRead ==
  ASSUME NEW l, Text(l), NEW s \in 1 .. Len(l), l[s] \in TokenChars,
         Clean(ReadFcn(l)[s - 1]), ~ReadFcn(l)[s - 1].open => ReadFcn(l)[s - 1].token = <<>>
  PROVE  /\ End(l, s) = s + 1 /\ Copied(l, s, s + 1) = <<l[s]>>
         /\ Clean(ReadFcn(l)[s]) /\ ~ReadFcn(l)[s].open /\ ReadFcn(l)[s].token = <<>>
         /\ ReadFcn(l)[s].out = Append(Closed(ReadFcn(l)[s - 1]).out, <<l[s]>>)
<1> DEFINE n == Len(l)
           E == EndFcn(l, s)
           C == CopyFcn(l, s + 1)
           R == ReadFcn(l)
<1>1. /\ n \in Nat \ {0} /\ s \in Nat \ {0} /\ s <= n /\ s - 1 \in 0 .. n /\ "none" \in Quotes
      /\ l[s] \in Char
  BY TextFacts DEF Quotes
<1>2. /\ E[s]["none"] = EndStep(E, l, s, s, "none")
      /\ C[s]["none"] = CopyStep(C, l, s + 1, s, "none")
      /\ C[s + 1]["none"] = CopyStep(C, l, s + 1, s + 1, "none")
      /\ R[s] = Reads(R[s - 1], l[s]) /\ R[s - 1] \in Readers
  <2>1. s + 1 \in Nat /\ s \in Nat /\ s \in 1 .. n
    BY <1>1
  <2> QED
    BY <1>1, <2>1, EndEquation, CopyEquation, ReadEquation, ReadType
<1>3. ~Escapes("none", l[s]) /\ Quote("none", l[s]) = "none" /\ l[s] \notin Ifs
  BY <1>1, PlainChars
<1>4. End(l, s) = s + 1
  <2> HIDE DEF E
  <2>1. E[s]["none"] = s + 1
    BY <1>1, <1>2, <1>3 DEF EndStep
  <2> QED
    BY <2>1, EndIs DEF E
<1>5. Copied(l, s, s + 1) = <<l[s]>>
  <2> HIDE DEF C
  <2>1. C[s + 1]["none"] = <<>>
    BY <1>1, <1>2 DEF CopyStep
  <2>2. C[s]["none"] = <<l[s]>> \o C[s + 1]["none"]
    BY <1>1, <1>2, <1>3 DEF CopyStep
  <2>3. <<l[s]>> \o <<>> = <<l[s]>>
    OBVIOUS
  <2> QED
    BY <2>1, <2>2, <2>3, CopiedIs DEF C
<1>6. R[s] = [Closed(R[s - 1]) EXCEPT !.out = Append(@, <<l[s]>>)]
  BY <1>2, ReadsMark
<1>7. /\ Closed(R[s - 1]) \in Readers /\ ~Closed(R[s - 1]).open /\ Clean(Closed(R[s - 1]))
      /\ Closed(R[s - 1]).token = <<>>
  BY <1>2, ClosedFacts
<1> HIDE DEF R
<1>8. /\ Clean(R[s]) /\ ~R[s].open /\ R[s].token = <<>>
      /\ R[s].out = Append(Closed(R[s - 1]).out, <<l[s]>>)
  BY <1>6, <1>7 DEF Clean, Readers
<1> QED
  BY <1>4, <1>5, <1>8 DEF R

-----------------------------------------------------------------------------
(* One call of get_token. *)

\* s is the first place from a on that is no white space.
Starts(l, a, s) ==
  /\ s \in a .. Len(l) + 1
  /\ s > Len(l) \/ l[s] \notin Ifs
  /\ \A j \in a .. s - 1 : l[j] \in Ifs

\* get_token passes over all of the white space.
LEMMA StartStarts == at \in 1 .. Len(line) + 1 /\ Len(line) \in Nat => Starts(line, at, Start)
<1> SUFFICES ASSUME at \in 1 .. Len(line) + 1, Len(line) \in Nat PROVE Starts(line, at, Start)
  OBVIOUS
<1> DEFINE n == Len(line)
           T == {i \in at .. n + 1 : \A j \in at .. i - 1 : line[j] \in Ifs}
<1> HIDE DEF n
<1>1. n \in Nat /\ at \in Nat /\ at <= n + 1
  BY DEF n
<1>2. PICK m \in T : \A i \in T : i <= m
  <2>1. T \subseteq Nat /\ at \in T /\ n + 1 \in Nat /\ \A i \in T : i <= n + 1
    BY <1>1
  <2>2. T # {}
    BY <2>1
  <2> HIDE DEF T
  <2> QED
    BY <2>1, <2>2, Largest
<1>3. m > n \/ line[m] \notin Ifs
  <2> SUFFICES ASSUME m <= n, line[m] \in Ifs PROVE FALSE
    BY <1>1
  <2>1. m + 1 \in T
    BY <1>1
  <2> QED
    BY <2>1, <1>1, <1>2
<1>4. \E i \in at .. n + 1 :
        /\ i > n \/ line[i] \notin Ifs
        /\ \A j \in at .. i - 1 : line[j] \in Ifs
  BY <1>3
<1> QED
  BY <1>4 DEF Start, Starts, n

\* White space leaves the reader where a token, a comment or the end of the line is.
LEMMA StartRead ==
  ASSUME NEW l, Text(l), NEW a \in 1 .. Len(l), Ready(l, a), NEW s, Starts(l, a, s)
  PROVE  LET r == ReadFcn(l)[s - 1] IN
         /\ Clean(r) /\ Closed(r).out = Closed(ReadFcn(l)[a - 1]).out
         /\ ~r.open => r.token = <<>>
         /\ r.open => s = a /\ (s <= Len(l) => l[s] \in TokenChars)
<1>1. /\ Len(l) \in Nat /\ a \in Nat /\ s \in Nat /\ a - 1 \in 0 .. Len(l)
      /\ ReadFcn(l)[a - 1] \in Readers
  <2>1. Len(l) \in Nat /\ a - 1 \in 0 .. Len(l)
    BY TextFacts
  <2> QED
    BY <2>1, ReadType DEF Starts
<1>2. CASE s = a
  BY <1>1, <1>2 DEF Starts, Ready
<1>3. CASE s # a
  <2>1. s \in a + 1 .. Len(l) + 1 /\ \A j \in a .. s - 1 : l[j] \in Ifs
    BY <1>1, <1>3 DEF Starts
  <2>2. ReadFcn(l)[s - 1] = Closed(ReadFcn(l)[a - 1])
    BY <2>1, WhiteSpace
  <2> QED
    BY <2>2, <1>1, ClosedFacts DEF Ready
<1> QED
  BY <1>2, <1>3

\* What get_token skips spells nothing.
LEMMA NothingRead ==
  ASSUME NEW l, Text(l), NEW a \in 1 .. Len(l), Ready(l, a), NEW s, Starts(l, a, s),
         s <= Len(l) => l[s] = "#"
  PROVE  Closed(ReadFcn(l)[Len(l)]).out = Closed(ReadFcn(l)[a - 1]).out
<1> DEFINE r == ReadFcn(l)[s - 1]
<1>1. /\ Clean(r) /\ Closed(r).out = Closed(ReadFcn(l)[a - 1]).out
      /\ r.open /\ s <= Len(l) => l[s] \in TokenChars
  BY StartRead
<1>2. Len(l) \in Nat /\ a \in Nat \ {0} /\ s \in a .. Len(l) + 1
  BY TextFacts DEF Starts
<1>3. CASE s > Len(l)
  <2>1. s - 1 = Len(l)
    BY <1>2, <1>3
  <2> QED
    BY <2>1, <1>1
<1>4. CASE s <= Len(l)
  <2>1. ~r.open /\ s \in 1 .. Len(l) /\ l[s] = "#"
    BY <1>1, <1>2, <1>4, PlainChars
  <2>2. Closed(ReadFcn(l)[Len(l)]).out = r.out
    BY <2>1, <1>1, CommentRead
  <2> QED
    BY <2>1, <2>2, <1>1 DEF Closed
<1> QED
  BY <1>2, <1>3, <1>4

\* What it returns is a string, and it leaves its place in the line or a step behind it.
LEMMA TokenBounds ==
  ASSUME NEW l, Text(l), NEW s \in 1 .. Len(l)
  PROVE  /\ End(l, s) \in 1 .. Len(l) + 2 /\ Stop(l, End(l, s)) \in 1 .. Len(l) + 1
         /\ Copied(l, s, Stop(l, End(l, s))) \in Strings
<1> DEFINE n == Len(l)
           end == End(l, s)
<1>1. n \in Nat \ {0} /\ s \in 1 .. n + 2 /\ s \in 1 .. n + 1 /\ "none" \in Quotes
  BY TextFacts DEF Quotes
<1>2. EndFcn(l, s)[s]["none"] \in s .. n + 2
  BY <1>1, EndBounds
<1>3. end \in 1 .. n + 2
  BY <1>1, <1>2, EndIs
<1> HIDE DEF end, n
<1>4. Stop(l, end) \in 1 .. n + 1
  BY <1>1, <1>3 DEF Stop, n
<1>5. \A e \in 1 .. n + 1 : Copied(l, s, e) \in Strings
  BY <1>1, CopyType, CopiedIs DEF Strings, n
<1> QED
  BY <1>3, <1>4, <1>5 DEF n, end

\* It is the next token the line spells, and its place is where the reader closes that
\* token.
LEMMA TokenRead ==
  ASSUME NEW l, Text(l), ~Glued(l), NEW a \in 1 .. Len(l), Ready(l, a), NEW s, Starts(l, a, s),
         s <= Len(l), l[s] # "#"
  PROVE  LET end == End(l, s)
             r == ReadFcn(l)[Before(l, end)]
         IN  /\ Closed(r).out = Append(Closed(ReadFcn(l)[a - 1]).out, Copied(l, s, Stop(l, end)))
             /\ end <= Len(l) => Ready(l, end)
<1> DEFINE n == Len(l)
           end == End(l, s)
           r0 == ReadFcn(l)[s - 1]
           r == ReadFcn(l)[Before(l, end)]
<1>1. /\ Clean(r0) /\ Closed(r0).out = Closed(ReadFcn(l)[a - 1]).out
      /\ ~r0.open => r0.token = <<>>
      /\ r0.open => l[s] \in TokenChars
  BY StartRead
<1>2. n \in Nat \ {0} /\ a \in Nat \ {0} /\ s \in a .. n /\ s \in 1 .. n /\ l[s] \notin Ifs
  BY TextFacts DEF Starts
<1>3. CASE l[s] \in TokenChars
  <2>1. /\ end = s + 1 /\ Copied(l, s, s + 1) = <<l[s]>>
        /\ Clean(ReadFcn(l)[s]) /\ ~ReadFcn(l)[s].open /\ ReadFcn(l)[s].token = <<>>
        /\ ReadFcn(l)[s].out = Append(Closed(r0).out, <<l[s]>>)
    BY <1>1, <1>2, <1>3, MarkRead
  <2> HIDE DEF end
  <2>2. Before(l, end) = s /\ end - 1 = s /\ Stop(l, end) = s + 1
    BY <1>2, <2>1 DEF Before, Stop
  <2>3. Closed(r).out = Append(Closed(r0).out, Copied(l, s, Stop(l, end)))
    BY <2>1, <2>2 DEF Closed
  <2>4. Ready(l, end)
    BY <2>1, <2>2 DEF Ready
  <2> QED
    BY <2>3, <2>4, <1>1 DEF end
<1>4. CASE l[s] \notin TokenChars
  <2>1. ~r0.open /\ l[s] \notin Ifs \cup TokenChars \cup {"#"}
    BY <1>1, <1>2, <1>4
  <2>2. /\ end \in s + 1 .. n + 2
        /\ r.open /\ r.out = r0.out /\ r.token = Copied(l, s, Stop(l, end))
        /\ end <= n => Clean(r) /\ l[end] \in Ifs \cup TokenChars
    BY <1>1, <1>2, <2>1, WordRead
  <2>3. /\ Before(l, end) \in 0 .. n /\ s - 1 \in 0 .. n
        /\ end <= n => Before(l, end) = end - 1
    <3> HIDE DEF end, n
    <3> QED
      BY <1>2, <2>2 DEF Before, n
  <2>4. r \in Readers /\ r0 \in Readers
    BY <2>3, ReadType
  <2>5. Closed(r).out = Append(Closed(r0).out, Copied(l, s, Stop(l, end)))
    <3> HIDE DEF r, r0, end
    <3>1. Closed(r).out = Append(r.out, r.token) /\ Closed(r0) = r0
      BY <2>1, <2>2, <2>4, ClosedFacts
    <3> QED
      BY <2>2, <3>1
  <2>6. end <= n => Ready(l, end)
    BY <2>2, <2>3 DEF Ready
  <2> QED
    BY <2>5, <2>6, <1>1
<1> QED
  BY <1>3, <1>4

-----------------------------------------------------------------------------
(* The tokens of a line. *)

Lines == {l \in Strings : Text(l)}

\* o is the rest of t behind its first h.
EndsIn(t, h, o) == Len(t) = h + Len(o) /\ \A i \in 1 .. Len(o) : t[h + i] = o[i]

\* One more token on both keeps the one the rest of the other.
LEMMA EndsInNext ==
  ASSUME NEW t \in Lists, NEW o \in Lists, NEW w \in Strings, NEW h \in Nat, EndsIn(t, h, o)
  PROVE  EndsIn(Append(t, w), h, Append(o, w))
<1> DEFINE u == Append(t, w)
           v == Append(o, w)
<1>1. /\ Len(t) \in Nat /\ Len(o) \in Nat
      /\ Len(u) = Len(t) + 1 /\ Len(v) = Len(o) + 1
      /\ \A i \in 1 .. Len(t) : u[i] = t[i]
      /\ \A i \in 1 .. Len(o) : v[i] = o[i]
      /\ u[Len(t) + 1] = w /\ v[Len(o) + 1] = w
  BY DEF Lists
<1>5. Len(t) = h + Len(o) /\ \A i \in 1 .. Len(o) : t[h + i] = o[i]
  BY DEF EndsIn
<1> HIDE DEF u, v
<1>2. ASSUME NEW i \in 1 .. Len(v) PROVE u[h + i] = v[i]
  <2>1. CASE i = Len(o) + 1
    <3>1. h + i = Len(t) + 1
      BY <2>1, <1>1, <1>5
    <3> QED
      BY <2>1, <3>1, <1>1, <1>5
  <2>2. CASE i \in 1 .. Len(o)
    <3>1. h + i \in 1 .. Len(t)
      BY <2>2, <1>1, <1>5
    <3> QED
      BY <2>2, <3>1, <1>1, <1>5
  <2> QED
    BY <2>1, <2>2, <1>1
<1>3. Len(u) = h + Len(v)
  BY <1>1, <1>5
<1>4. EndsIn(u, h, v)
  BY <1>2, <1>3, Zenon DEF EndsIn
<1> QED
  BY <1>4 DEF u, v

\* What the line has spelled so far are the tokens returned since it was read.
LineInv ==
  /\ file \in Seq(Lines) /\ tokens \in Lists /\ had \in Nat
  /\ at \in 1 .. Len(line) + 2
  /\ line # <<>> =>
       /\ line \in Lines
       /\ ~Glued(line) =>
            /\ EndsIn(tokens, had, Closed(ReadFcn(line)[Before(line, at)]).out)
            /\ at <= Len(line) => Ready(line, at)

\* Files are what fgets can return.
FilesAreLines == Files \subseteq Seq(Lines)

\* Before the first line there is nothing to say.
LEMMA LineInit == FilesAreLines /\ Init => LineInv
BY ListFacts DEF FilesAreLines, Init, LineInv

\* A step reads a line, skips the rest of it, returns its next token, or goes on behind it.
LEMMA LineStep == LineInv /\ [Next]_vars => LineInv'
<1> SUFFICES ASSUME LineInv, [Next]_vars PROVE LineInv'
  OBVIOUS
<1> DEFINE R == ReadFcn(line)
<1>1. CASE EndOfFile \/ UNCHANGED vars
  BY <1>1 DEF EndOfFile, vars, LineInv
<1>2. CASE Fgets
  <2>1. /\ line' = Head(file) /\ file' = Tail(file) /\ at' = 1 /\ tokens' = tokens
        /\ had' = Len(tokens) /\ file # <<>>
    BY <1>2 DEF Fgets
  <2>2. line' \in Lines /\ file' \in Seq(Lines)
    <3>1. \A S : \A f \in Seq(S) : f # <<>> => Head(f) \in S /\ Tail(f) \in Seq(S)
      OBVIOUS
    <3> QED
      BY <2>1, <3>1, Zenon DEF LineInv
  <2>3. Text(line') /\ Len(line') \in Nat \ {0}
    BY <2>2, TextFacts DEF Lines
  <2>4. ReadFcn(line')[0] = Reader
    BY <2>3, ReadEquation
  <2>5. at' - 1 = 0 /\ Before(line', at') = 0
    BY <2>1, <2>3 DEF Before
  <2>6. Closed(Reader).out = <<>> /\ Clean(Reader) /\ ~Reader.open /\ Reader.token = <<>>
    BY DEF Closed, Clean, Reader
  <2>7. EndsIn(tokens', had', <<>>) /\ had' \in Nat
    <3>1. Len(tokens) \in Nat /\ Len(<<>>) = 0
      BY DEF LineInv, Lists
    <3> QED
      BY <2>1, <3>1 DEF EndsIn
  <2>8. EndsIn(tokens', had', Closed(ReadFcn(line')[Before(line', at')]).out) /\ Ready(line', at')
    BY <2>4, <2>5, <2>6, <2>7 DEF Ready
  <2>9. at' \in 1 .. Len(line') + 2
    BY <2>1, <2>3
  <2>10. tokens' \in Lists
    BY <2>1 DEF LineInv
  <2> QED
    BY <2>2, <2>7, <2>8, <2>9, <2>10 DEF LineInv
<1>3. ASSUME at <= Len(line)
      PROVE  /\ line # <<>> /\ Text(line) /\ line \in Lines /\ Len(line) \in Nat \ {0}
             /\ at \in 1 .. Len(line) /\ Starts(line, at, Start)
             /\ ~Glued(line) =>
                  /\ Ready(line, at) /\ EndsIn(tokens, had, Closed(R[at - 1]).out)
                  /\ Closed(R[at - 1]).out \in Lists
  <2>1. line # <<>>
    <3> SUFFICES ASSUME line = <<>> PROVE FALSE
      OBVIOUS
    <3>1. Len(line) = 0
      OBVIOUS
    <3> QED
      BY <1>3, <3>1 DEF LineInv
  <2>2. Text(line) /\ line \in Lines
    BY <2>1 DEF LineInv, Lines
  <2>3. /\ Len(line) \in Nat \ {0} /\ at \in 1 .. Len(line) /\ at - 1 \in 0 .. Len(line)
        /\ Before(line, at) = at - 1
    BY <1>3, <2>2, TextFacts DEF LineInv, Before
  <2>4. Starts(line, at, Start)
    BY <2>3, StartStarts
  <2>5. Closed(R[at - 1]).out \in Lists
    <3>1. Closed(R[at - 1]) \in Readers
      BY <2>2, <2>3, ReadType, ClosedType
    <3> QED
      BY <3>1 DEF Readers
  <2> QED
    BY <1>3, <2>1, <2>2, <2>3, <2>4, <2>5 DEF LineInv
<1>4. CASE SkipLine
  <2>1. /\ at <= Len(line) /\ at' = Len(line) + 1 /\ Comment
        /\ UNCHANGED <<file, line, tokens, had>>
    BY <1>4 DEF SkipLine
  <2>2. at' \in 1 .. Len(line') + 2 /\ Before(line, at') = Len(line) /\ ~(at' <= Len(line'))
    BY <2>1, <1>3 DEF Before
  <2>3. ~Glued(line) => Closed(R[Len(line)]).out = Closed(R[at - 1]).out
    BY <2>1, <1>3, NothingRead DEF Comment
  <2> HIDE DEF R
  <2>4. ~Glued(line') =>
          EndsIn(tokens', had', Closed(ReadFcn(line')[Before(line', at')]).out)
    BY <2>1, <2>2, <2>3, <1>3 DEF R
  <2>5. file' \in Seq(Lines) /\ tokens' \in Lists /\ had' \in Nat /\ line' \in Lines
    BY <2>1, <1>3 DEF LineInv
  <2> QED
    BY <2>2, <2>4, <2>5 DEF LineInv
<1>5. CASE Token
  <2> DEFINE end == End(line, Start)
             token == Copied(line, Start, Stop(line, end))
  <2>1. /\ at <= Len(line) /\ at' = end /\ ~Comment /\ tokens' = Append(tokens, token)
        /\ file' = file /\ line' = line /\ had' = had
    BY <1>5 DEF Token
  <2>2. Start \in 1 .. Len(line) /\ line[Start] # "#"
    BY <2>1, <1>3 DEF Comment, Starts
  <2>3. end \in 1 .. Len(line) + 2 /\ token \in Strings
    BY <2>1, <2>2, <1>3, TokenBounds
  <2>4. ASSUME ~Glued(line)
        PROVE  /\ Closed(R[Before(line, end)]).out = Append(Closed(R[at - 1]).out, token)
               /\ end <= Len(line) => Ready(line, end)
    <3>1. /\ Text(line) /\ at \in 1 .. Len(line) /\ Ready(line, at)
          /\ Starts(line, at, Start) /\ Start <= Len(line)
      BY <2>1, <2>2, <2>4, <1>3
    <3> QED
      BY <2>2, <2>4, <3>1, TokenRead
  <2> HIDE DEF end, token, R
  <2>5. ~Glued(line) => EndsIn(tokens', had, Closed(R[Before(line, end)]).out)
    BY <2>1, <2>3, <2>4, <1>3, EndsInNext DEF LineInv
  <2>6. /\ file' \in Seq(Lines) /\ tokens' \in Lists /\ had' \in Nat /\ line' \in Lines
        /\ at' \in 1 .. Len(line') + 2
    BY <2>1, <2>3, <1>3, ListFacts DEF LineInv
  <2>7. ~Glued(line') =>
          /\ EndsIn(tokens', had', Closed(ReadFcn(line')[Before(line', at')]).out)
          /\ at' <= Len(line') => Ready(line', at')
    BY <2>1, <2>4, <2>5 DEF R
  <2> QED
    BY <2>6, <2>7 DEF LineInv
<1>6. CASE ReadBehind
  <2>1. /\ at > Len(line) + 1 /\ at' \in {at, Len(line) + 1}
        /\ UNCHANGED <<file, line, tokens, had>>
    BY <1>6 DEF ReadBehind, Behind
  <2>2. CASE line = <<>>
    <3>1. Len(line) = 0
      BY <2>2
    <3> QED
      BY <2>1, <2>2, <3>1 DEF LineInv
  <2>3. CASE line # <<>>
    <3>1. Len(line) \in Nat \ {0}
      BY <2>3, TextFacts DEF LineInv, Lines
    <3>2. at \in 1 .. Len(line) + 2
      BY DEF LineInv
    <3>3. at' \in 1 .. Len(line) + 2 /\ at > Len(line) /\ at' > Len(line)
      <4> DEFINE n == Len(line)
      <4> HIDE DEF n
      <4>1. n \in Nat /\ at \in 1 .. n + 2 /\ at > n + 1 /\ at' \in {at, n + 1}
        BY <2>1, <3>1, <3>2 DEF n
      <4>2. CASE at' = at
        BY <4>1, <4>2 DEF n
      <4>3. CASE at' = n + 1
        BY <4>1, <4>3 DEF n
      <4> QED
        BY <4>1, <4>2, <4>3
    <3>4. /\ Before(line, at) = Len(line) /\ Before(line, at') = Len(line)
          /\ ~(at' <= Len(line))
      BY <3>1, <3>3 DEF Before
    <3> QED
      BY <2>1, <2>3, <3>3, <3>4 DEF LineInv
  <2> QED
    BY <2>2, <2>3
<1> QED
  BY <1>1, <1>2, <1>4, <1>5, <1>6 DEF Next

\* At the end of the line it has spelled all of its tokens.
LEMMA LineEnds == LineInv => TokensAsDocumented
<1> SUFFICES ASSUME LineInv, at > Len(line), line # <<>>, ~Glued(line) PROVE LineSpelled
  BY DEF TokensAsDocumented
<1> DEFINE new == Documented(line)
<1>1. Text(line) /\ Len(line) \in Nat
  BY TextFacts DEF LineInv, Lines
<1>2. Before(line, at) = Len(line)
  BY <1>1 DEF Before
<1>3. EndsIn(tokens, had, new)
  BY <1>2, DocumentedIs DEF LineInv
<1>4. new \in Lists
  <2>1. ReadFcn(line)[Len(line)] \in Readers
    BY <1>1, ReadType
  <2>2. Closed(ReadFcn(line)[Len(line)]) \in Readers
    BY <2>1, ClosedType
  <2> QED
    BY <2>2, DocumentedIs DEF Readers
<1> HIDE DEF new
<1>5. \A S : \A t, o \in Seq(S), h \in Nat : EndsIn(t, h, o) =>
        h <= Len(t) /\ SubSeq(t, h + 1, Len(t)) = o
  BY DEF EndsIn
<1> QED
  BY <1>3, <1>4, <1>5 DEF LineInv, LineSpelled, Lists, new

\* get_token returns the tokens that the manual page spells out, for every line of every
\* file in which no comment is glued to a token, also where it then goes on behind a
\* backslash at the end.
THEOREM TokensAreRight == ASSUME FilesAreLines PROVE Spec => []TokensAsDocumented
<1> USE FilesAreLines
<1> QED
  BY LineInit, LineStep, LineEnds, PTL DEF Spec

\* The place is in the line or just behind it, or behind a backslash.
LEMMA PlaceStep == IInv /\ LineInv /\ TypeOK /\ [Next]_vars => TypeOK'
<1> SUFFICES ASSUME IInv, LineInv, TypeOK, [Next]_vars PROVE TypeOK'
  OBVIOUS
<1>1. /\ where' \in {"word", "method", "name", "end", "stuck"}
      /\ at' \in 1 .. Len(line') + 2
  BY StepPreserves, LineStep DEF IInv, LineInv
<1>2. CASE Fgets
  <2>1. at' = 1 /\ line' \in Lines /\ where' \notin {"end", "stuck"} /\ disallow' = disallow
    <3>1. \A S : \A f \in Seq(S) : f # <<>> => Head(f) \in S
      OBVIOUS
    <3> QED
      BY <1>2, <3>1, Zenon DEF Fgets, Going, LineInv
  <2>2. Len(line') \in Nat
    BY <2>1, TextFacts DEF Lines
  <2> QED
    BY <1>1, <2>1, <2>2 DEF TypeOK, Behind
<1>3. CASE EndOfFile
  BY <1>1, <1>3 DEF TypeOK, Behind, EndOfFile
<1>4. CASE SkipLine
  <2>1. at' = Len(line') + 1 /\ where' \notin {"end", "stuck"} /\ disallow' = disallow
    BY <1>4 DEF SkipLine, Going
  <2>2. Len(line') \in Int
    BY <1>4, TextFacts, Len(<<>>) = 0 DEF SkipLine, LineInv, Lines
  <2> QED
    BY <1>1, <2>1, <2>2 DEF TypeOK, Behind
<1>5. CASE ReadBehind
  <2>1. UNCHANGED <<line, disallow>> /\ Behind /\ line # <<>> /\ line[Len(line)] = "\\"
    BY <1>5 DEF ReadBehind, TypeOK
  <2>2. \/ at' = Len(line) + 1 /\ where' # "stuck"
        \/ at' = at
    BY <1>5 DEF ReadBehind, Going
  <2> QED
    BY <1>1, <2>1, <2>2 DEF TypeOK, Behind
<1>6. CASE Token
  <2>1. /\ line' = line /\ at' = End(line, Start) /\ at \in 1 .. Len(line)
        /\ where' # "stuck" /\ disallow' \in BOOLEAN /\ ~Comment
    BY <1>6, StepPreserves DEF Token, Going, LineInv, TypeOK, Parse, Word
  <2>2. line # <<>> /\ Text(line) /\ Len(line) \in Nat \ {0}
    BY <2>1, TextFacts, Len(<<>>) = 0 DEF LineInv, Lines
  <2>3. Start \in 1 .. Len(line) + 1 /\ Start <= Len(line)
    BY <2>1, <2>2, StartStarts DEF Starts, Comment
  <2>4. at' = Len(line) + 2 => line[Len(line)] = "\\"
    BY <2>1, <2>2, <2>3, EndBehind, EndIs, "none" \in Quotes DEF Quotes
  <2>5. at' > Len(line) + 1 => at' = Len(line) + 2
    BY <1>1, <2>1, <2>2
  <2> QED
    BY <1>1, <2>1, <2>2, <2>4, <2>5 DEF TypeOK, Behind
<1>7. CASE UNCHANGED vars
  BY <1>7 DEF TypeOK, Behind, vars
<1> QED
  BY <1>2, <1>3, <1>4, <1>5, <1>6, <1>7 DEF Next
=============================================================================
