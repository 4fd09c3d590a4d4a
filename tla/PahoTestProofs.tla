--------------------------- MODULE PahoTestProofs ---------------------------
(***************************************************************************)
(* The safety properties of the end-to-end test, for any number of tokens, *)
(* calls, kills and messages, any input files and any payloads.            *)
(*                                                                         *)
(* ReturnMeansDelivered is a matter of the publisher alone: a step of the  *)
(* test is a step of the publisher or leaves it alone.  The others speak   *)
(* of what FileReader reads, line by line, and need to know what getline,  *)
(* read and getLastMessage make of a file of records that a kill may have  *)
(* cut anywhere.  Lines and FlattenSeq are recursive functions: what they  *)
(* return is proved by induction, which is here a fact about sets of       *)
(* naturals (SetInduction) and of sequences (SeqInduction).                *)
(***************************************************************************)
EXTENDS PahoTest, Integers, WellFoundedInduction, SequenceTheorems, FiniteSetTheorems, TLAPS

-----------------------------------------------------------------------------
(* Induction, and getline: the lines of a text. *)

(* Every nonempty set of naturals has a least element. *)
LEMMA Least ==
  ASSUME NEW S \in SUBSET Nat, S # {}
  PROVE  \E m \in S : \A k \in S : m <= k
<1> DEFINE R == OpToRel(<, Nat)
<1>1. IsWellFoundedOn(R, Nat)
  BY NatLessThanWellFounded, Zenon
<1> HIDE DEF R
<1>2. PICK m \in S : \A k \in S : <<k, m>> \notin R
  BY <1>1, WFMin, Zenon
<1> USE DEF R
<1>3. \A k \in S : ~(k < m)
  BY <1>2, Zenon DEF OpToRel
<1> QED
  BY <1>3

(* Induction on the naturals, for a set that contains 0 and all            *)
(* successors.                                                             *)
LEMMA SetInduction ==
  ASSUME NEW S \in SUBSET Nat, 0 \in S, \A n \in S : n + 1 \in S
  PROVE  S = Nat
<1> SUFFICES ASSUME Nat \ S # {} PROVE FALSE
  OBVIOUS
<1>1. PICK m \in Nat \ S : \A k \in Nat \ S : m <= k
  BY Least
<1>2. m # 0 /\ m - 1 \in Nat
  BY <1>1
<1>3. m - 1 \in S
  BY <1>1, <1>2
<1> QED
  BY <1>1, <1>2, <1>3

(* Induction on sequences, for a set closed under Append. *)
LEMMA SeqInduction ==
  ASSUME NEW C, NEW S \in SUBSET Seq(C), <<>> \in S,
         \A s \in S, c \in C : Append(s, c) \in S
  PROVE  S = Seq(C)
<1> DEFINE T == {n \in Nat : \A s \in Seq(C) : Len(s) = n => s \in S}
<1>1. 0 \in T
  <2>1. \A s \in Seq(C) : Len(s) = 0 => s = <<>>
    OBVIOUS
  <2> QED
    BY <2>1
<1>2. ASSUME NEW n \in T PROVE n + 1 \in T
  <2> SUFFICES ASSUME NEW s \in Seq(C), Len(s) = n + 1 PROVE s \in S
    OBVIOUS
  <2>1. n \in Nat /\ s # <<>>
    OBVIOUS
  <2>2. PICK f \in Seq(C), c \in C : s = Append(f, c)
    BY <2>1, SequenceEmptyOrAppend
  <2>3. Len(f) = n
    BY <2>1, <2>2
  <2>4. f \in S
    BY <2>1, <2>3
  <2> QED
    BY <2>2, <2>4
<1>3. T = Nat
  <2> HIDE DEF T
  <2>1. T \in SUBSET Nat
    BY DEF T
  <2> QED
    BY <1>1, <1>2, <2>1, SetInduction
<1>4. ASSUME NEW s \in Seq(C) PROVE s \in S
  <2>1. Len(s) \in T
    BY <1>3
  <2> QED
    BY <2>1
<1> QED
  BY <1>4

(* One character more: what getline makes of it. *)
ReadOne(lines, text, n) ==
  IF text[n] = EndLine THEN lines
  ELSE IF n = 1 \/ text[n - 1] = EndLine THEN Append(lines, <<text[n]>>)
  ELSE Front(lines) \o <<Append(Last(lines), text[n])>>

(* What the recursion of Lines defines on 0..k. *)
Reads(f, text, k) ==
  f = [n \in 0..k |-> IF n = 0 THEN <<>> ELSE ReadOne(f[n - 1], text, n)]

(* A function the recursion defines, at a place. *)
LEMMA ReadsAt ==
  ASSUME NEW f, NEW text, NEW k \in Nat, Reads(f, text, k), NEW n \in 0..k
  PROVE  f[n] = IF n = 0 THEN <<>> ELSE ReadOne(f[n - 1], text, n)
  BY Zenon DEF Reads

(* The last step of the recursion. *)
LEMMA ReadsLast ==
  ASSUME NEW f, NEW text, NEW n \in Nat, Reads(f, text, n + 1)
  PROVE  f[n + 1] = ReadOne(f[n], text, n + 1)
<1>1. n + 1 \in Nat /\ n + 1 \in 0..(n + 1) /\ n + 1 # 0 /\ n + 1 - 1 = n
  OBVIOUS
<1>2. f[n + 1] = IF n + 1 = 0 THEN <<>> ELSE ReadOne(f[n + 1 - 1], text, n + 1)
  BY <1>1, ReadsAt
<1> QED
  BY <1>1, <1>2

(* The recursion defines a function. *)
LEMMA ReadsExists ==
  ASSUME NEW text, NEW k \in Nat
  PROVE  \E f : Reads(f, text, k)
<1> DEFINE S == {n \in Nat : \E f : Reads(f, text, n)}
<1>1. 0 \in S
  <2> DEFINE f == [n \in 0..0 |-> <<>>]
  <2>1. f = [n \in 0..0 |-> IF n = 0 THEN <<>> ELSE ReadOne(f[n - 1], text, n)]
    OBVIOUS
  <2> QED
    BY <2>1 DEF Reads
<1>2. ASSUME NEW n \in S PROVE n + 1 \in S
  <2>1. n \in Nat
    OBVIOUS
  <2>2. PICK f : Reads(f, text, n)
    OBVIOUS
  <2> DEFINE e == ReadOne(f[n], text, n + 1)
             g == [i \in 0..(n + 1) |-> IF i = n + 1 THEN e ELSE f[i]]
  <2>3. ASSUME NEW i \in 0..(n + 1)
        PROVE  g[i] = IF i = 0 THEN <<>> ELSE ReadOne(g[i - 1], text, i)
    <3>1. CASE i = n + 1
      <4>1. g[i] = e /\ i # 0 /\ g[i - 1] = f[n]
        BY <2>1, <3>1
      <4> QED
        BY <3>1, <4>1
    <3>2. CASE i # n + 1
      <4>1. i \in 0..n /\ g[i] = f[i] /\ (i # 0 => g[i - 1] = f[i - 1])
        BY <2>1, <3>2
      <4>2. f[i] = IF i = 0 THEN <<>> ELSE ReadOne(f[i - 1], text, i)
        BY <2>1, <2>2, <4>1, ReadsAt
      <4> QED
        BY <4>1, <4>2
    <3> QED
      BY <3>1, <3>2
  <2>4. g = [i \in 0..(n + 1) |-> g[i]]
    OBVIOUS
  <2> HIDE DEF g
  <2>5. Reads(g, text, n + 1)
    BY <2>3, <2>4, Zenon DEF Reads
  <2> QED
    BY <2>1, <2>5
<1>3. S = Nat
  <2> HIDE DEF S
  <2>1. S \in SUBSET Nat
    BY DEF S
  <2> QED
    BY <1>1, <1>2, <2>1, SetInduction
<1> QED
  BY <1>3

(* Texts that begin alike are read alike. *)
LEMMA ReadsUnique ==
  ASSUME NEW s, NEW t, NEW k \in Nat, NEW f, NEW g,
         Reads(f, s, k), Reads(g, t, k) \/ Reads(g, t, k + 1),
         \A i \in 1..k : s[i] = t[i]
  PROVE  f[k] = g[k]
<1> DEFINE S == {i \in Nat : i <= k => f[i] = g[i]}
<1>a. PICK n \in {k, k + 1} : Reads(g, t, n)
  OBVIOUS
<1>1. 0 \in S
  <2>1. f[0] = <<>> /\ g[0] = <<>>
    BY <1>a, ReadsAt
  <2> QED
    BY <2>1
<1>2. ASSUME NEW i \in S PROVE i + 1 \in S
  <2> SUFFICES ASSUME i + 1 <= k PROVE f[i + 1] = g[i + 1]
    OBVIOUS
  <2>1. /\ i \in Nat /\ i + 1 # 0 /\ n \in Nat /\ i + 1 \in 0..k /\ i + 1 \in 0..n /\ i + 1 - 1 = i
        /\ i + 1 \in 1..k /\ (i # 0 => i \in 1..k) /\ (i + 1 = 1 <=> i = 0)
    OBVIOUS
  <2>2. f[i + 1] = ReadOne(f[i], s, i + 1) /\ g[i + 1] = ReadOne(g[i], t, i + 1)
    <3>1. f[i + 1] = IF i + 1 = 0 THEN <<>> ELSE ReadOne(f[i + 1 - 1], s, i + 1)
      BY <2>1, ReadsAt
    <3>2. g[i + 1] = IF i + 1 = 0 THEN <<>> ELSE ReadOne(g[i + 1 - 1], t, i + 1)
      BY <1>a, <2>1, ReadsAt
    <3> QED
      BY <2>1, <3>1, <3>2
  <2>3. f[i] = g[i]
    BY <2>1
  <2>4. s[i + 1] = t[i + 1] /\ (i # 0 => s[i] = t[i])
    BY <2>1
  <2>5. ReadOne(f[i], s, i + 1) = ReadOne(g[i], t, i + 1)
    BY <2>1, <2>3, <2>4 DEF ReadOne
  <2> QED
    BY <2>2, <2>5
<1>3. S = Nat
  <2> HIDE DEF S
  <2>1. S \in SUBSET Nat
    BY DEF S
  <2> QED
    BY <1>1, <1>2, <2>1, SetInduction
<1>4. k \in S
  BY <1>3
<1> QED
  BY <1>4

(* Lines is what any function that satisfies the recursion ends with. *)
LEMMA LinesIs ==
  ASSUME NEW C, NEW text \in Seq(C), NEW f, Reads(f, text, Len(text))
  PROVE  Lines(text) = f[Len(text)]
<1> DEFINE g == CHOOSE h : Reads(h, text, Len(text))
<1>1. Len(text) \in Nat
  OBVIOUS
<1>2. Reads(g, text, Len(text))
  OBVIOUS
<1>3. Lines(text) = g[Len(text)]
  BY Zenon DEF Lines, Reads, ReadOne
<1> HIDE DEF g
<1>4. g[Len(text)] = f[Len(text)]
  BY <1>1, <1>2, ReadsUnique
<1> QED
  BY <1>3, <1>4

(* An empty text has no lines. *)
LEMMA LinesEmpty == Lines(<<>>) = <<>>
<1>1. <<>> \in Seq({}) /\ Len(<<>>) = 0
  OBVIOUS
<1>2. PICK f : Reads(f, <<>>, 0)
  BY ReadsExists
<1>3. f[0] = <<>>
  BY <1>2, ReadsAt
<1>4. Lines(<<>>) = f[Len(<<>>)]
  BY <1>1, <1>2, LinesIs
<1> QED
  BY <1>1, <1>3, <1>4

(* Whatever follows begins a line. *)
Ended(text) == text = <<>> \/ text[Len(text)] = EndLine

(* getline by its steps: what one character at the end of a text does. *)
LEMMA LinesAppend ==
  ASSUME NEW C, NEW text \in Seq(C), NEW c \in C
  PROVE  Lines(Append(text, c)) =
           IF c = EndLine THEN Lines(text)
           ELSE IF Ended(text) THEN Append(Lines(text), <<c>>)
           ELSE Front(Lines(text)) \o <<Append(Last(Lines(text)), c)>>
<1> DEFINE n == Len(text)
           u == Append(text, c)
<1>1. /\ n \in Nat /\ u \in Seq(C) /\ Len(u) = n + 1 /\ u[n + 1] = c
      /\ \A i \in 1..n : u[i] = text[i]
  OBVIOUS
<1> HIDE DEF u, n
<1>2. PICK f : Reads(f, text, n)
  BY <1>1, ReadsExists
<1>a. n + 1 \in Nat /\ \A i \in 1..n : text[i] = u[i]
  BY <1>1
<1>3. PICK g : Reads(g, u, n + 1)
  BY <1>a, ReadsExists, Zenon
<1>4. f[n] = g[n]
  BY <1>1, <1>2, <1>3, <1>a, ReadsUnique
<1>5. g[n + 1] = ReadOne(g[n], u, n + 1)
  BY <1>1, <1>3, ReadsLast
<1>6. Lines(text) = f[n]
  BY <1>2, LinesIs DEF n
<1>7. Lines(u) = g[n + 1]
  BY <1>1, <1>3, LinesIs
<1>8. Lines(u) = ReadOne(Lines(text), u, n + 1)
  BY <1>4, <1>5, <1>6, <1>7
<1>9. n + 1 = 1 \/ u[n + 1 - 1] = EndLine <=> Ended(text)
  <2>1. CASE n = 0
    BY <2>1 DEF Ended, n
  <2>2. CASE n # 0
    <3>1. u[n + 1 - 1] = text[n] /\ text # <<>> /\ n + 1 # 1
      BY <1>1, <2>2 DEF n
    <3> QED
      BY <3>1 DEF Ended, n
  <2> QED
    BY <2>1, <2>2
<1> QED
  BY <1>1, <1>8, <1>9 DEF ReadOne, u

(* Append by its places. *)
LEMMA OneMore ==
  ASSUME NEW S, NEW s \in Seq(S), NEW e \in S
  PROVE  /\ Append(s, e) \in Seq(S) /\ Append(s, e) # <<>>
         /\ Len(s) \in Nat /\ Len(Append(s, e)) = Len(s) + 1
         /\ Append(s, e)[Len(s) + 1] = e
         /\ \A i \in 1..Len(s) : Append(s, e)[i] = s[i]
         /\ s # <<>> => Append(s, e)[1] = s[1]
         /\ s = <<>> => Append(s, e)[1] = e
         /\ <<e>> \in Seq(S) /\ Len(<<e>>) = 1 /\ <<e>>[1] = e /\ <<e>> # <<>>
  OBVIOUS

(* A character begins a line. *)
LEMMA NewLine ==
  ASSUME NEW C, NEW lines \in Seq(Seq(C)), NEW c \in C
  PROVE  /\ Append(lines, <<c>>) \in Seq(Seq(C)) /\ Append(lines, <<c>>) # <<>>
         /\ Len(Append(lines, <<c>>)) = Len(lines) + 1
         /\ Append(lines, <<c>>)[Len(lines) + 1] = <<c>>
         /\ \A i \in 1..Len(lines) : Append(lines, <<c>>)[i] = lines[i]
<1> DEFINE d == <<c>>
<1>1. d \in Seq(C)
  OBVIOUS
<1> HIDE DEF d
<1>2. /\ Append(lines, d) \in Seq(Seq(C)) /\ Append(lines, d) # <<>>
      /\ Len(Append(lines, d)) = Len(lines) + 1
      /\ Append(lines, d)[Len(lines) + 1] = d
      /\ \A i \in 1..Len(lines) : Append(lines, d)[i] = lines[i]
  BY <1>1, AppendProperties
<1> QED
  BY <1>2 DEF d

(* A character more in the last line. *)
Grown(lines, c) == Front(lines) \o <<Append(Last(lines), c)>>

(* A character goes to the end of the last line. *)
LEMMA GrownIs ==
  ASSUME NEW C, NEW lines \in Seq(Seq(C)), lines # <<>>, NEW c \in C
  PROVE  /\ Grown(lines, c) \in Seq(Seq(C)) /\ Len(Grown(lines, c)) = Len(lines)
         /\ \A i \in 1..(Len(lines) - 1) : Grown(lines, c)[i] = lines[i]
         /\ Grown(lines, c)[Len(lines)] = Append(lines[Len(lines)], c)
<1> DEFINE n == Len(lines)
           f == SubSeq(lines, 1, n - 1)
           l == Append(lines[n], c)
<1>1. n \in Nat \ {0} /\ lines[n] \in Seq(C)
  OBVIOUS
<1>2. l \in Seq(C)
  BY <1>1
<1>3. f \in Seq(Seq(C)) /\ Len(f) = n - 1 /\ \A i \in 1..(n - 1) : f[i] = lines[i]
  <2>1. \A i \in 1..(n - 1) : lines[i] \in Seq(C)
    BY <1>1, ElementOfSeq
  <2>2. 1 \in Int /\ n - 1 \in Int
    BY <1>1
  <2>3. /\ f \in Seq(Seq(C)) /\ Len(f) = (IF 1 <= n - 1 THEN n - 1 - 1 + 1 ELSE 0)
        /\ \A i \in 1..(n - 1 - 1 + 1) : f[i] = lines[1 + i - 1]
    BY <2>1, <2>2, SubSeqProperties
  <2> HIDE DEF f, n
  <2>4. n - 1 - 1 + 1 = n - 1 /\ (IF 1 <= n - 1 THEN n - 1 - 1 + 1 ELSE 0) = n - 1
    BY <1>1
  <2>5. \A i \in 1..(n - 1) : 1 + i - 1 = i
    OBVIOUS
  <2> QED
    BY <2>3, <2>4, <2>5
<1>4. Grown(lines, c) = f \o <<l>>
  BY DEF Grown, Front, Last
<1> HIDE DEF f, l
<1>5. /\ <<l>> \in Seq(Seq(C)) /\ Len(<<l>>) = 1 /\ <<l>>[1] = l
  BY <1>2
<1>6. /\ f \o <<l>> \in Seq(Seq(C)) /\ Len(f \o <<l>>) = n
      /\ \A i \in 1..n : (f \o <<l>>)[i] = IF i <= n - 1 THEN f[i] ELSE <<l>>[i - (n - 1)]
  <2>1. /\ f \o <<l>> \in Seq(Seq(C)) /\ Len(f \o <<l>>) = n - 1 + 1
        /\ \A i \in 1..(n - 1 + 1) :
             (f \o <<l>>)[i] = IF i <= n - 1 THEN f[i] ELSE <<l>>[i - (n - 1)]
    BY <1>3, <1>5, ConcatProperties
  <2> QED
    BY <1>1, <2>1
<1>7. \A i \in 1..(n - 1) : (f \o <<l>>)[i] = lines[i]
  BY <1>1, <1>3, <1>6
<1>8. (f \o <<l>>)[n] = l
  BY <1>1, <1>5, <1>6
<1> QED
  BY <1>1, <1>4, <1>6, <1>7, <1>8 DEF l

(* The lines are texts over the same characters; an unended text has one. *)
LEMMA LinesType ==
  ASSUME NEW C, NEW text \in Seq(C)
  PROVE  Lines(text) \in Seq(Seq(C)) /\ (~Ended(text) => Lines(text) # <<>>)
<1> DEFINE S == {s \in Seq(C) : Lines(s) \in Seq(Seq(C)) /\ (~Ended(s) => Lines(s) # <<>>)}
<1>1. <<>> \in S
  <2>1. <<>> \in Seq(C) /\ <<>> \in Seq(Seq(C)) /\ Ended(<<>>)
    BY EmptySeq DEF Ended
  <2> QED
    BY <2>1, LinesEmpty
<1>2. ASSUME NEW s \in S, NEW c \in C PROVE Append(s, c) \in S
  <2>1. s \in Seq(C) /\ Append(s, c) \in Seq(C) /\ <<c>> \in Seq(C)
    BY OneMore
  <2>2. Ended(Append(s, c)) <=> c = EndLine
    <3>1. Append(s, c) # <<>> /\ Append(s, c)[Len(Append(s, c))] = c
      BY <2>1, OneMore
    <3> QED
      BY <3>1 DEF Ended
  <2>3. Lines(s) \in Seq(Seq(C)) /\ (~Ended(s) => Lines(s) # <<>>)
    OBVIOUS
  <2> HIDE DEF S
  <2>4. CASE c = EndLine
    BY <2>1, <2>2, <2>3, <2>4, LinesAppend DEF S
  <2>5. CASE c # EndLine /\ Ended(s)
    <3>1. Lines(Append(s, c)) = Append(Lines(s), <<c>>)
      BY <2>1, <2>5, LinesAppend
    <3>2. Append(Lines(s), <<c>>) \in Seq(Seq(C)) /\ Append(Lines(s), <<c>>) # <<>>
      BY <2>1, <2>3, NewLine
    <3> QED
      BY <2>1, <3>1, <3>2 DEF S
  <2>6. CASE c # EndLine /\ ~Ended(s)
    <3>1. Lines(Append(s, c)) = Grown(Lines(s), c)
      BY <2>1, <2>6, LinesAppend DEF Grown
    <3>2. Grown(Lines(s), c) \in Seq(Seq(C)) /\ Len(Grown(Lines(s), c)) = Len(Lines(s))
      BY <2>3, <2>6, GrownIs
    <3>3. Grown(Lines(s), c) # <<>>
      BY <2>3, <2>6, <3>2
    <3> QED
      BY <2>1, <3>1, <3>2, <3>3 DEF S
  <2> QED
    BY <2>4, <2>5, <2>6
<1>3. S = Seq(C)
  <2> HIDE DEF S
  <2>1. S \in SUBSET Seq(C)
    BY DEF S
  <2> QED
    BY <1>1, <1>2, <2>1, SeqInduction
<1> QED
  BY <1>3

(* A step of Lines in terms of Grown. *)
LEMMA LinesStep ==
  ASSUME NEW C, NEW text \in Seq(C), NEW c \in C
  PROVE  /\ Ended(Append(text, c)) <=> c = EndLine
         /\ c = EndLine => Lines(Append(text, c)) = Lines(text)
         /\ c # EndLine /\ Ended(text) => Lines(Append(text, c)) = Append(Lines(text), <<c>>)
         /\ c # EndLine /\ ~Ended(text) =>
              Lines(text) # <<>> /\ Lines(Append(text, c)) = Grown(Lines(text), c)
<1>1. Append(text, c) # <<>> /\ Append(text, c)[Len(Append(text, c))] = c
  BY OneMore
<1>2. Ended(Append(text, c)) <=> c = EndLine
  BY <1>1 DEF Ended
<1> QED
  BY <1>2, LinesAppend, LinesType DEF Grown

(* A text that begins with no end of line has a line. *)
LEMMA LinesFirst ==
  ASSUME NEW C, NEW text \in Seq(C), text # <<>>, text[1] # EndLine
  PROVE  Lines(text) # <<>>
<1> DEFINE S == {s \in Seq(C) : s = <<>> \/ s[1] = EndLine \/ Lines(s) # <<>>}
<1>1. <<>> \in S
  OBVIOUS
<1>2. ASSUME NEW s \in S, NEW c \in C PROVE Append(s, c) \in S
  <2>1. s \in Seq(C) /\ Append(s, c) \in Seq(C) /\ <<c>> \in Seq(C)
    BY OneMore
  <2>2. Lines(s) \in Seq(Seq(C))
    BY <2>1, LinesType
  <2>3. s # <<>> => Append(s, c)[1] = s[1]
    BY <2>1, OneMore
  <2>4. s = <<>> => Append(s, c)[1] = c
    BY <2>1, OneMore
  <2>5. s = <<>> \/ s[1] = EndLine \/ Lines(s) # <<>>
    OBVIOUS
  <2>6. s = <<>> => Ended(s)
    BY DEF Ended
  <2> HIDE DEF S
  <2>7. CASE c = EndLine
    <3>1. Lines(Append(s, c)) = Lines(s)
      BY <2>1, <2>7, LinesStep
    <3> QED
      BY <2>1, <2>3, <2>4, <2>5, <2>7, <3>1 DEF S
  <2>8. CASE c # EndLine /\ Ended(s)
    <3>1. Append(Lines(s), <<c>>) # <<>>
      BY <2>1, <2>2, NewLine
    <3> QED
      BY <2>1, <2>8, <3>1, LinesStep DEF S
  <2>9. CASE c # EndLine /\ ~Ended(s)
    <3>1. Lines(s) # <<>> /\ Lines(Append(s, c)) = Grown(Lines(s), c)
      BY <2>1, <2>9, LinesStep
    <3>2. Len(Grown(Lines(s), c)) = Len(Lines(s))
      BY <2>2, <3>1, GrownIs
    <3>3. Grown(Lines(s), c) # <<>>
      BY <2>2, <3>1, <3>2
    <3> QED
      BY <2>1, <3>1, <3>3 DEF S
  <2> QED
    BY <2>7, <2>8, <2>9
<1>3. S = Seq(C)
  <2> HIDE DEF S
  <2>1. S \in SUBSET Seq(C)
    BY DEF S
  <2> QED
    BY <1>1, <1>2, <2>1, SeqInduction
<1> QED
  BY <1>3

-----------------------------------------------------------------------------
(* The lines of two texts, one behind the other. *)

(* What is appended to a concatenation is appended to its second part. *)
AppendsLast(s, w, c) == s \o Append(w, c) = Append(s \o w, c)

(* Append and concatenation. *)
LEMMA AppendConcat ==
  ASSUME NEW C, NEW s \in Seq(C), NEW w \in Seq(C), NEW c \in C
  PROVE  AppendsLast(s, w, c)
<1>1. /\ s \o w \in Seq(C) /\ Len(s \o w) = Len(s) + Len(w)
      /\ \A i \in 1..(Len(s) + Len(w)) :
           (s \o w)[i] = IF i <= Len(s) THEN s[i] ELSE w[i - Len(s)]
  BY ConcatProperties
<1>3. Append(w, c) \in Seq(C) /\ Len(Append(w, c)) = Len(w) + 1
  BY OneMore
<1> DEFINE v == Append(w, c)
           u == s \o w
<1>4. /\ Len(s) \in Nat /\ Len(w) \in Nat
      /\ v[Len(w) + 1] = c /\ \A i \in 1..Len(w) : v[i] = w[i]
  BY OneMore
<1> HIDE DEF v, u
<1>5. /\ s \o v \in Seq(C) /\ Len(s \o v) = Len(s) + Len(w) + 1
      /\ \A i \in 1..(Len(s) + Len(w) + 1) :
           (s \o v)[i] = IF i <= Len(s) THEN s[i] ELSE v[i - Len(s)]
  <2>1. v \in Seq(C) /\ Len(v) = Len(w) + 1
    BY <1>3 DEF v
  <2>2. /\ s \o v \in Seq(C) /\ Len(s \o v) = Len(s) + Len(v)
        /\ \A i \in 1..(Len(s) + Len(v)) :
             (s \o v)[i] = IF i <= Len(s) THEN s[i] ELSE v[i - Len(s)]
    BY <2>1, ConcatProperties
  <2>3. Len(s) + Len(v) = Len(s) + Len(w) + 1
    BY <1>4, <2>1
  <2> QED
    BY <2>2, <2>3
<1>6. /\ Append(u, c) \in Seq(C) /\ Len(Append(u, c)) = Len(s) + Len(w) + 1
      /\ Append(u, c)[Len(s) + Len(w) + 1] = c
      /\ \A i \in 1..(Len(s) + Len(w)) : Append(u, c)[i] = u[i]
  <2>1. u \in Seq(C) /\ Len(u) = Len(s) + Len(w)
    BY <1>1 DEF u
  <2> QED
    BY <1>4, <2>1, AppendProperties
<1>7. \A i \in 1..(Len(s) + Len(w)) : (s \o v)[i] = u[i]
  <2> SUFFICES ASSUME NEW i \in 1..(Len(s) + Len(w)) PROVE (s \o v)[i] = u[i]
    OBVIOUS
  <2>1. i \in 1..(Len(s) + Len(w) + 1)
    BY <1>4
  <2>2. ~(i <= Len(s)) => i - Len(s) \in 1..Len(w)
    BY <1>4
  <2> QED
    BY <1>1, <1>4, <1>5, <2>1, <2>2 DEF u
<1>8. (s \o v)[Len(s) + Len(w) + 1] = c
  <2>1. Len(s) + Len(w) + 1 \in 1..(Len(s) + Len(w) + 1) /\ ~(Len(s) + Len(w) + 1 <= Len(s))
        /\ Len(s) + Len(w) + 1 - Len(s) = Len(w) + 1
    BY <1>4
  <2> QED
    BY <1>4, <1>5, <2>1
<1>9. Append(u, c) = s \o v
  <2>1. \A i \in 1..(Len(s) + Len(w) + 1) :
          i \in 1..(Len(s) + Len(w)) \/ i = Len(s) + Len(w) + 1
    BY <1>4
  <2>2. \A i \in 1..(Len(s) + Len(w) + 1) : Append(u, c)[i] = (s \o v)[i]
    BY <1>6, <1>7, <1>8, <2>1
  <2> QED
    BY <1>5, <1>6, <2>2, SeqEqual
<1> QED
  BY <1>9 DEF AppendsLast, u, v

(* Whether a text is ended is decided by what was added last. *)
LEMMA EndedConcat ==
  ASSUME NEW C, NEW s \in Seq(C), NEW w \in Seq(C), w # <<>>
  PROVE  Ended(s \o w) <=> Ended(w)
<1> DEFINE u == s \o w
<1>1. /\ Len(u) = Len(s) + Len(w)
      /\ \A i \in 1..(Len(s) + Len(w)) : u[i] = IF i <= Len(s) THEN s[i] ELSE w[i - Len(s)]
  BY ConcatProperties
<1> HIDE DEF u
<1>2. Len(s) \in Nat /\ Len(w) \in Nat \ {0}
  OBVIOUS
<1>3. /\ Len(s) + Len(w) \in 1..(Len(s) + Len(w)) /\ ~(Len(s) + Len(w) <= Len(s))
      /\ Len(s) + Len(w) - Len(s) = Len(w) /\ Len(s) + Len(w) # 0
  BY <1>2
<1>4. u[Len(u)] = w[Len(w)] /\ Len(u) # 0
  BY <1>1, <1>3
<1>5. u # <<>>
  BY <1>4
<1> QED
  BY <1>4, <1>5 DEF Ended, u

(* What grows at the end grows in a concatenation. *)
LEMMA GrownConcat ==
  ASSUME NEW C, NEW a \in Seq(Seq(C)), NEW b \in Seq(Seq(C)), b # <<>>, NEW c \in C
  PROVE  a \o b # <<>> /\ Grown(a \o b, c) = a \o Grown(b, c)
<1> DEFINE g == Grown(b, c)
           ab == a \o b
           m == Len(a)
           n == Len(b)
<1>1. m \in Nat /\ n \in Nat \ {0}
  BY EmptySeq
<1>2. /\ g \in Seq(Seq(C)) /\ Len(g) = n /\ \A i \in 1..(n - 1) : g[i] = b[i]
      /\ g[n] = Append(b[n], c)
  BY GrownIs
<1>3. /\ ab \in Seq(Seq(C)) /\ Len(ab) = m + n
      /\ \A i \in 1..(m + n) : ab[i] = IF i <= m THEN a[i] ELSE b[i - m]
  BY ConcatProperties
<1> HIDE DEF g, ab, m, n
<1>4. ab # <<>>
  <2>1. Len(ab) # 0
    BY <1>1, <1>3
  <2> QED
    BY <2>1
<1>5. /\ Grown(ab, c) \in Seq(Seq(C)) /\ Len(Grown(ab, c)) = m + n
      /\ \A i \in 1..(m + n - 1) : Grown(ab, c)[i] = ab[i]
      /\ Grown(ab, c)[m + n] = Append(ab[m + n], c)
  <2>1. /\ Grown(ab, c) \in Seq(Seq(C)) /\ Len(Grown(ab, c)) = Len(ab)
        /\ \A i \in 1..(Len(ab) - 1) : Grown(ab, c)[i] = ab[i]
        /\ Grown(ab, c)[Len(ab)] = Append(ab[Len(ab)], c)
    BY <1>3, <1>4, GrownIs
  <2>2. Len(ab) = m + n
    BY <1>3
  <2>3. Len(ab) - 1 = m + n - 1
    BY <1>1, <2>2
  <2> QED
    BY <2>1, <2>2, <2>3, Zenon
<1>6. /\ a \o g \in Seq(Seq(C)) /\ Len(a \o g) = m + n
      /\ \A i \in 1..(m + n) : (a \o g)[i] = IF i <= m THEN a[i] ELSE g[i - m]
  BY <1>2, ConcatProperties DEF m
<1>7. ASSUME NEW i \in 1..(m + n) PROVE Grown(ab, c)[i] = (a \o g)[i]
  <2>1. CASE i = m + n
    <3>1. ~(i <= m) /\ i - m = n
      BY <1>1, <2>1
    <3>2. ab[i] = b[n] /\ (a \o g)[i] = g[n]
      BY <1>3, <1>6, <3>1
    <3> QED
      BY <1>2, <1>5, <2>1, <3>2
  <2>2. CASE i # m + n
    <3>1. i \in 1..(m + n - 1) /\ (~(i <= m) => i - m \in 1..(n - 1))
      BY <1>1, <2>2
    <3>2. Grown(ab, c)[i] = ab[i]
      BY <1>5, <3>1
    <3>3. ab[i] = IF i <= m THEN a[i] ELSE b[i - m]
      BY <1>3
    <3>4. (a \o g)[i] = IF i <= m THEN a[i] ELSE g[i - m]
      BY <1>6
    <3> QED
      BY <1>2, <3>1, <3>2, <3>3, <3>4
  <2> QED
    BY <2>1, <2>2
<1>8. Grown(ab, c) = a \o g
  BY <1>5, <1>6, <1>7, SeqEqual
<1> USE DEF ab, g
<1> QED
  BY <1>4, <1>8, Zenon

(* A line more, behind other lines. *)
LEMMA NewLineConcat ==
  ASSUME NEW C, NEW a \in Seq(Seq(C)), NEW b \in Seq(Seq(C)), NEW c \in C
  PROVE  AppendsLast(a, b, <<c>>)
<1> DEFINE d == <<c>>
<1>1. d \in Seq(C)
  BY OneMore
<1> HIDE DEF d
<1>2. AppendsLast(a, b, d)
  BY <1>1, AppendConcat
<1> QED
  BY <1>2 DEF d

(* The step of LinesConcat: a character more of the second text. *)
LEMMA LinesConcatStep ==
  ASSUME NEW C, NEW s \in Seq(C), NEW w \in Seq(C), NEW c \in C,
         Lines(s \o w) = Lines(s) \o Lines(w), Ended(s) \/ w # <<>> \/ c = EndLine
  PROVE  Lines(s \o Append(w, c)) = Lines(s) \o Lines(Append(w, c))
<1> DEFINE u == s \o w
           a == Lines(s)
           b == Lines(w)
<1>1. u \in Seq(C) /\ s \o Append(w, c) = Append(u, c)
  <2>1. u \in Seq(C)
    BY ConcatProperties
  <2>2. AppendsLast(s, w, c)
    BY AppendConcat
  <2> QED
    BY <2>1, <2>2 DEF AppendsLast
<1>2. a \in Seq(Seq(C)) /\ b \in Seq(Seq(C)) /\ Lines(u) = a \o b
  BY LinesType
<1>3. CASE c = EndLine
  <2> HIDE DEF u
  <2>1. Lines(Append(u, c)) = Lines(u) /\ Lines(Append(w, c)) = b
    BY <1>1, <1>3, LinesStep
  <2> QED
    BY <1>1, <1>2, <2>1
<1>4. ASSUME c # EndLine PROVE Ended(u) <=> Ended(w)
  <2>1. CASE w = <<>>
    <3>1. Ended(s) /\ s \o w = s
      BY <1>4, <2>1, ConcatEmptySeq
    <3> QED
      BY <2>1, <3>1 DEF Ended
  <2>2. CASE w # <<>>
    BY <2>2, EndedConcat
  <2> QED
    BY <2>1, <2>2
<1>5. CASE c # EndLine /\ Ended(w)
  <2> HIDE DEF u, a, b
  <2>1. Lines(Append(u, c)) = Append(a \o b, <<c>>)
    BY <1>1, <1>2, <1>4, <1>5, LinesStep
  <2>2. Lines(Append(w, c)) = Append(b, <<c>>)
    BY <1>5, LinesStep DEF b
  <2>3. AppendsLast(a, b, <<c>>)
    BY <1>2, NewLineConcat
  <2> QED
    BY <1>1, <2>1, <2>2, <2>3 DEF AppendsLast, a
<1>6. CASE c # EndLine /\ ~Ended(w)
  <2> HIDE DEF u, a, b
  <2>1. Lines(Append(u, c)) = Grown(Lines(u), c)
    BY <1>1, <1>4, <1>6, LinesStep
  <2>2. b # <<>> /\ Lines(Append(w, c)) = Grown(b, c)
    BY <1>6, LinesStep DEF b
  <2>3. Grown(a \o b, c) = a \o Grown(b, c)
    BY <1>2, <2>2, GrownConcat
  <2> QED
    BY <1>1, <1>2, <2>1, <2>2, <2>3 DEF a
<1> QED
  BY <1>3, <1>5, <1>6

(* Where a line ends, the lines before and after are those of the text. *)
LEMMA LinesConcat ==
  ASSUME NEW C, NEW s \in Seq(C), NEW t \in Seq(C),
         Ended(s) \/ t = <<>> \/ t[1] = EndLine
  PROVE  Lines(s \o t) = Lines(s) \o Lines(t)
<1> DEFINE P(w) == Ended(s) \/ w = <<>> \/ w[1] = EndLine
           Q(w) == Lines(s \o w) = Lines(s) \o Lines(w)
           S == {w \in Seq(C) : P(w) => Q(w)}
<1>1. <<>> \in S
  <2>1. <<>> \in Seq(C) /\ s \o <<>> = s
    BY EmptySeq, ConcatEmptySeq
  <2>2. Lines(s) \o <<>> = Lines(s)
    BY LinesType, ConcatEmptySeq
  <2>3. Q(<<>>)
    BY <2>1, <2>2, LinesEmpty
  <2> QED
    BY <2>1, <2>3
<1>2. ASSUME NEW w \in S, NEW c \in C PROVE Append(w, c) \in S
  <2>1. w \in Seq(C) /\ (P(w) => Q(w))
    OBVIOUS
  <2>2. /\ Append(w, c) \in Seq(C) /\ Append(w, c) # <<>>
        /\ w # <<>> => Append(w, c)[1] = w[1]
        /\ w = <<>> => Append(w, c)[1] = c
    BY <2>1, OneMore
  <2>3. P(Append(w, c)) => P(w) /\ (Ended(s) \/ w # <<>> \/ c = EndLine)
    BY <2>2
  <2> HIDE DEF P
  <2>4. P(Append(w, c)) => Q(Append(w, c))
    BY <2>1, <2>3, LinesConcatStep
  <2> QED
    BY <2>2, <2>4
<1>3. S = Seq(C)
  <2> HIDE DEF S
  <2>1. S \in SUBSET Seq(C)
    BY DEF S
  <2> QED
    BY <1>1, <1>2, <2>1, SeqInduction
<1>4. t \in S
  BY <1>3
<1> QED
  BY <1>4

(* No line is lost by what follows. *)
LEMMA LinesMonotone ==
  ASSUME NEW C, NEW s \in Seq(C), NEW t \in Seq(C)
  PROVE  Len(Lines(s)) <= Len(Lines(s \o t))
<1> DEFINE Q(w) == Len(Lines(s)) <= Len(Lines(s \o w))
           S == {w \in Seq(C) : Q(w)}
<1>1. <<>> \in S
  <2>1. <<>> \in Seq(C) /\ s \o <<>> = s /\ Lines(s) \in Seq(Seq(C))
    BY EmptySeq, ConcatEmptySeq, LinesType
  <2>2. Len(Lines(s)) <= Len(Lines(s))
    BY <2>1
  <2> QED
    BY <2>1, <2>2
<1>2. ASSUME NEW w \in S, NEW c \in C PROVE Append(w, c) \in S
  <2> DEFINE u == s \o w
  <2>1. w \in Seq(C) /\ Append(w, c) \in Seq(C) /\ u \in Seq(C)
    BY ConcatProperties, OneMore
  <2>2. AppendsLast(s, w, c)
    BY <2>1, AppendConcat
  <2>3. Lines(s) \in Seq(Seq(C)) /\ Lines(u) \in Seq(Seq(C))
    BY <2>1, LinesType
  <2>4. Len(Lines(s)) <= Len(Lines(u))
    OBVIOUS
  <2>5. s \o Append(w, c) = Append(u, c)
    BY <2>2 DEF AppendsLast
  <2> HIDE DEF u
  <2>6. Len(Lines(u)) <= Len(Lines(Append(u, c)))
    <3>1. CASE c = EndLine
      BY <2>1, <2>3, <3>1, LinesStep
    <3>2. CASE c # EndLine /\ Ended(u)
      <4>1. Lines(Append(u, c)) = Append(Lines(u), <<c>>)
        BY <2>1, <3>2, LinesStep
      <4>2. Len(Append(Lines(u), <<c>>)) = Len(Lines(u)) + 1
        BY <2>3, NewLine
      <4> QED
        BY <2>3, <4>1, <4>2
    <3>3. CASE c # EndLine /\ ~Ended(u)
      <4>1. Lines(u) # <<>> /\ Lines(Append(u, c)) = Grown(Lines(u), c)
        BY <2>1, <3>3, LinesStep
      <4>2. Len(Grown(Lines(u), c)) = Len(Lines(u))
        BY <2>3, <4>1, GrownIs
      <4> QED
        BY <2>3, <4>1, <4>2
    <3> QED
      BY <3>1, <3>2, <3>3
  <2>7. Lines(Append(u, c)) \in Seq(Seq(C))
    BY <2>1, OneMore, LinesType
  <2>8. /\ Len(Lines(s)) \in Nat /\ Len(Lines(u)) \in Nat
        /\ Len(Lines(Append(u, c))) \in Nat
    BY <2>3, <2>7
  <2>9. Q(Append(w, c))
    BY <2>4, <2>5, <2>6, <2>8
  <2> QED
    BY <2>1, <2>9
<1>3. S = Seq(C)
  <2> HIDE DEF S
  <2>1. S \in SUBSET Seq(C)
    BY DEF S
  <2> QED
    BY <1>1, <1>2, <2>1, SeqInduction
<1>4. t \in S
  BY <1>3
<1> QED
  BY <1>4

(* The lines of a text whose last line was not ended, followed by a line. *)
Spliced(lines, line, new) ==
  /\ Len(new) = Len(lines)
  /\ \A i \in 1..(Len(lines) - 1) : new[i] = lines[i]
  /\ new[Len(lines)] = lines[Len(lines)] \o line

(* A character more at the end of a spliced line. *)
LEMMA SpliceGrown ==
  ASSUME NEW C, NEW a \in Seq(Seq(C)), a # <<>>, NEW b \in Seq(Seq(C)), b # <<>>,
         NEW new \in Seq(Seq(C)), Len(b) = 1, NEW c \in C, Spliced(a, b[1], new)
  PROVE  Spliced(a, Grown(b, c)[1], Grown(new, c))
<1> DEFINE n == Len(a)
<1>1. n \in Nat \ {0} /\ a[n] \in Seq(C) /\ b[1] \in Seq(C)
  BY EmptySeq
<1>2. /\ Len(new) = n /\ new # <<>> /\ new[n] = a[n] \o b[1]
      /\ \A i \in 1..(n - 1) : new[i] = a[i]
  BY <1>1 DEF Spliced
<1>3. Grown(b, c)[1] = Append(b[1], c)
  <2>1. Grown(b, c)[Len(b)] = Append(b[Len(b)], c)
    BY GrownIs
  <2> QED
    BY <2>1
<1>4. /\ Len(Grown(new, c)) = n
      /\ \A i \in 1..(n - 1) : Grown(new, c)[i] = new[i]
      /\ Grown(new, c)[n] = Append(new[n], c)
  <2>1. /\ Len(Grown(new, c)) = Len(new)
        /\ \A i \in 1..(Len(new) - 1) : Grown(new, c)[i] = new[i]
        /\ Grown(new, c)[Len(new)] = Append(new[Len(new)], c)
    BY <1>2, GrownIs
  <2> QED
    BY <1>2, <2>1
<1> DEFINE x == a[n]
           y == b[1]
<1>5. AppendsLast(x, y, c)
  BY <1>1, AppendConcat
<1>6. x \o Append(y, c) = Append(x \o y, c)
  BY <1>5 DEF AppendsLast
<1> HIDE DEF x, y
<1>7. Grown(new, c)[n] = x \o Append(y, c)
  BY <1>2, <1>4, <1>6 DEF x, y
<1>8. \A i \in 1..(n - 1) : Grown(new, c)[i] = a[i]
  BY <1>2, <1>4
<1> QED
  BY <1>3, <1>4, <1>7, <1>8 DEF Spliced, x, y

(* The first character behind an unended line. *)
LEMMA SpliceFirst ==
  ASSUME NEW C, NEW a \in Seq(Seq(C)), a # <<>>, NEW c \in C
  PROVE  Spliced(a, <<c>>, Grown(a, c))
<1> DEFINE n == Len(a)
           x == a[n]
<1>1. n \in Nat \ {0} /\ x \in Seq(C)
  BY EmptySeq
<1>2. Append(x, c) = x \o <<c>>
  BY <1>1, AppendIsConcat
<1>3. /\ Len(Grown(a, c)) = n
      /\ \A i \in 1..(n - 1) : Grown(a, c)[i] = a[i]
      /\ Grown(a, c)[n] = Append(x, c)
  BY GrownIs
<1> QED
  BY <1>2, <1>3 DEF Spliced

(* The step of LinesSplice: a character more of the second text. *)
LEMMA LinesSpliceStep ==
  ASSUME NEW C, NEW s \in Seq(C), ~Ended(s), NEW w \in Seq(C), NEW c \in C,
         w # <<>> => w[1] # EndLine,
         w # <<>> => Len(Lines(w)) = 1 /\ Spliced(Lines(s), Lines(w)[1], Lines(s \o w)),
         w = <<>> => c # EndLine, Len(Lines(Append(w, c))) = 1
  PROVE  Spliced(Lines(s), Lines(Append(w, c))[1], Lines(s \o Append(w, c)))
<1> DEFINE u == s \o w
           a == Lines(s)
           b == Lines(w)
<1>1. u \in Seq(C) /\ s \o Append(w, c) = Append(u, c)
  <2>1. u \in Seq(C)
    BY ConcatProperties
  <2>2. AppendsLast(s, w, c)
    BY AppendConcat
  <2> QED
    BY <2>1, <2>2 DEF AppendsLast
<1>2. a \in Seq(Seq(C)) /\ a # <<>> /\ b \in Seq(Seq(C)) /\ Lines(u) \in Seq(Seq(C))
  BY <1>1, LinesType
<1>3. w # <<>> => Len(b) = 1 /\ Spliced(a, b[1], Lines(u))
  OBVIOUS
<1>4. Lines(Append(u, c)) \in Seq(Seq(C)) /\ Lines(Append(w, c)) \in Seq(Seq(C))
  BY <1>1, OneMore, LinesType
<1>5. CASE w = <<>>
  <2>1. u = s /\ b = <<>> /\ Ended(w)
    BY <1>5, ConcatEmptySeq, LinesEmpty DEF Ended
  <2>2. Lines(Append(u, c)) = Grown(a, c)
    BY <1>1, <1>5, <2>1, LinesStep
  <2>3. Lines(Append(w, c)) = Append(b, <<c>>)
    BY <1>5, <2>1, LinesStep
  <2>4. Append(b, <<c>>)[1] = <<c>>
    BY <2>1
  <2> HIDE DEF u, a, b
  <2>5. Spliced(a, <<c>>, Grown(a, c))
    BY <1>2, SpliceFirst
  <2> QED
    BY <1>1, <2>2, <2>3, <2>4, <2>5 DEF a
<1>6. CASE w # <<>>
  <2>1. Ended(u) <=> Ended(w)
    BY <1>6, EndedConcat
  <2>2. b # <<>>
    BY <1>6, LinesFirst
  <2> HIDE DEF u, a, b
  <2>3. CASE c = EndLine
    <3>1. Lines(Append(u, c)) = Lines(u) /\ Lines(Append(w, c)) = b
      BY <1>1, <2>3, LinesStep DEF b
    <3> QED
      BY <1>1, <1>3, <1>6, <3>1 DEF a
  <2>4. CASE c # EndLine /\ Ended(w)
    <3>1. Lines(Append(w, c)) = Append(b, <<c>>)
      BY <2>4, LinesStep DEF b
    <3>2. Len(Append(b, <<c>>)) = Len(b) + 1
      BY <1>2, NewLine
    <3> QED
      BY <1>3, <1>6, <3>1, <3>2
  <2>5. CASE c # EndLine /\ ~Ended(w)
    <3>1. Lines(Append(w, c)) = Grown(b, c)
      BY <2>5, LinesStep DEF b
    <3>2. Lines(Append(u, c)) = Grown(Lines(u), c)
      BY <1>1, <2>1, <2>5, LinesStep
    <3>3. Spliced(a, Grown(b, c)[1], Grown(Lines(u), c))
      BY <1>2, <1>3, <1>6, <2>2, SpliceGrown
    <3> QED
      BY <1>1, <3>1, <3>2, <3>3 DEF a
  <2> QED
    BY <2>3, <2>4, <2>5
<1> QED
  BY <1>5, <1>6

(* A line appended to an unended line makes one line of both. *)
LEMMA LinesSplice ==
  ASSUME NEW C, NEW s \in Seq(C), ~Ended(s), NEW t \in Seq(C),
         t # <<>>, t[1] # EndLine, Len(Lines(t)) = 1
  PROVE  Spliced(Lines(s), Lines(t)[1], Lines(s \o t))
<1> DEFINE P(w) == w # <<>> /\ w[1] # EndLine /\ Len(Lines(w)) = 1
           Q(w) == Spliced(Lines(s), Lines(w)[1], Lines(s \o w))
           S == {w \in Seq(C) : P(w) => Q(w)}
<1>1. <<>> \in S
  BY EmptySeq
<1>2. ASSUME NEW w \in S, NEW c \in C PROVE Append(w, c) \in S
  <2>1. w \in Seq(C) /\ (P(w) => Q(w))
    OBVIOUS
  <2>2. /\ Append(w, c) \in Seq(C)
        /\ w # <<>> => Append(w, c)[1] = w[1]
        /\ w = <<>> => Append(w, c)[1] = c
    BY <2>1, OneMore
  <2> SUFFICES ASSUME P(Append(w, c)) PROVE Q(Append(w, c))
    BY <2>2
  <2>3. (w # <<>> => w[1] # EndLine) /\ (w = <<>> => c # EndLine)
    BY <2>2
  <2>4. ASSUME w # <<>> PROVE Len(Lines(w)) = 1
    <3>1. Lines(w) \in Seq(Seq(C)) /\ Lines(w) # <<>>
      BY <2>1, <2>3, <2>4, LinesFirst, LinesType
    <3>2. Len(Lines(w)) \in Nat \ {0}
      BY <3>1
    <3>3. <<c>> \in Seq(C) /\ Append(w, c) = w \o <<c>>
      BY <2>1, AppendIsConcat, OneMore
    <3>4. Len(Lines(w)) <= Len(Lines(w \o <<c>>))
      BY <2>1, <3>3, LinesMonotone
    <3>5. Len(Lines(w)) <= 1
      BY <3>3, <3>4
    <3> HIDE DEF P
    <3> DEFINE k == Len(Lines(w))
    <3> HIDE DEF k
    <3>6. k \in Nat \ {0} /\ k <= 1
      BY <3>2, <3>5 DEF k
    <3>7. k = 1
      BY <3>6
    <3> QED
      BY <3>7 DEF k
  <2>5. w # <<>> => Q(w)
    BY <2>1, <2>3, <2>4
  <2>6. Len(Lines(Append(w, c))) = 1
    OBVIOUS
  <2> QED
    BY <2>1, <2>3, <2>4, <2>5, <2>6, LinesSpliceStep
<1>3. S = Seq(C)
  <2> HIDE DEF S
  <2>1. S \in SUBSET Seq(C)
    BY DEF S
  <2> QED
    BY <1>1, <1>2, <2>1, SeqInduction
<1>4. t \in S
  BY <1>3
<1> QED
  BY <1>4

-----------------------------------------------------------------------------
(* Records: a line of the log for each payload that is a line. *)

(* Short sequences, as the provers need them. *)
LEMMA PairIs ==
  ASSUME NEW S, NEW d \in S, NEW e \in S
  PROVE  /\ <<>> \in Seq(S) /\ <<d>> \in Seq(S) /\ <<e>> \in Seq(S) /\ <<d, e>> \in Seq(S)
         /\ Append(<<>>, e) = <<e>> /\ Append(<<d>>, e) = <<d, e>> /\ <<d>> \o <<e>> = <<d, e>>
<1> DEFINE o == <<d>>
           n == <<e>>
           t == <<d, e>>
           a == o \o n
<1>1. <<>> \in Seq(S)
  BY EmptySeq
<1>2. o \in Seq(S) /\ Len(o) = 1 /\ o[1] = d
  OBVIOUS
<1>3. t \in Seq(S) /\ Len(t) = 2 /\ t[1] = d /\ t[2] = e
  OBVIOUS
<1>4. n \in Seq(S) /\ Len(n) = 1 /\ n[1] = e
  OBVIOUS
<1> HIDE DEF o, n, t
<1>5. a \in Seq(S) /\ Len(a) = 2 /\ a[1] = d /\ a[2] = e
  <2>1. /\ a \in Seq(S) /\ Len(a) = Len(o) + Len(n)
        /\ \A i \in 1..(Len(o) + Len(n)) : a[i] = IF i <= Len(o) THEN o[i] ELSE n[i - Len(o)]
    BY <1>2, <1>4, ConcatProperties
  <2> HIDE DEF a
  <2> QED
    BY <1>2, <1>4, <2>1
<1> HIDE DEF a
<1>6. a = t
  <2>1. \A i \in 1..2 : a[i] = t[i]
    BY <1>3, <1>5
  <2> QED
    BY <1>3, <1>5, <2>1, SeqEqual
<1>7. Append(o, e) = a
  BY <1>2, AppendIsConcat DEF a, n
<1>8. Append(<<>>, e) = <<>> \o n /\ <<>> \o n = n
  BY <1>1, <1>4, AppendIsConcat, ConcatEmptySeq DEF n
<1>9. Append(<<>>, e) = n
  BY <1>8
<1> QED
  BY <1>1, <1>2, <1>3, <1>4, <1>6, <1>7, <1>9, Zenon DEF o, n, t, a

(* A payload that makes one line. *)
IsLine(p) == Len(Lines(p)) = 1 /\ Head(p) # EndLine

(* Such a payload has its line in Lines. *)
LEMMA IsLineType ==
  ASSUME NEW C, NEW p \in Seq(C), IsLine(p)
  PROVE  /\ p # <<>> /\ p[1] # EndLine /\ Len(Lines(p)) = 1
         /\ Lines(p) \in Seq(Seq(C)) /\ Lines(p)[1] = Text(p) /\ Text(p) \in Seq(C)
<1>1. Lines(p) \in Seq(Seq(C)) /\ Len(Lines(p)) = 1
  BY LinesType DEF IsLine
<1>2. p # <<>>
  BY <1>1, LinesEmpty
<1>3. p[1] # EndLine
  BY <1>2 DEF IsLine
<1>4. Lines(p)[1] = Text(p) /\ Lines(p)[1] \in Seq(C)
  <2>1. Lines(p)[1] = Text(p)
    BY DEF Text
  <2>2. 1 \in 1..Len(Lines(p))
    BY <1>1
  <2> QED
    BY <1>1, <2>1, <2>2, ElementOfSeq
<1> QED
  BY <1>1, <1>2, <1>3, <1>4

(* What a record begins with: the time and the separator. *)
Stamp == <<"t", Sep>>

(* The beginning of a record is a line that is not ended. *)
LEMMA StampLines ==
  ASSUME NEW C, {"t", Sep, EndLine} \subseteq C
  PROVE  /\ Stamp \in Seq(C) /\ Lines(Stamp) = <<Stamp>> /\ ~Ended(Stamp)
         /\ Lines(<<EndLine>>) = <<>> /\ <<EndLine>> \in Seq(C)
<1>1. /\ <<>> \in Seq(C) /\ <<"t">> \in Seq(C) /\ Append(<<>>, "t") = <<"t">>
      /\ Append(<<"t">>, Sep) = Stamp /\ Stamp \in Seq(C)
      /\ Append(<<>>, EndLine) = <<EndLine>> /\ <<EndLine>> \in Seq(C)
  <2>1. "t" \in C /\ Sep \in C /\ EndLine \in C
    OBVIOUS
  <2> QED
    BY <2>1, PairIs, Zenon DEF Stamp
<1>2. "t" # EndLine /\ Sep # EndLine
  BY DEF Sep, EndLine
<1>3. Ended(<<>>) /\ Lines(<<>>) = <<>>
  BY LinesEmpty DEF Ended
<1>4. Lines(<<"t">>) = <<<<"t">>>> /\ ~Ended(<<"t">>)
  <2>1. Lines(Append(<<>>, "t")) = Append(<<>>, <<"t">>) /\ ~Ended(Append(<<>>, "t"))
    BY <1>1, <1>2, <1>3, LinesStep
  <2> QED
    BY <1>1, <2>1
<1>5. Lines(Stamp) = Grown(<<<<"t">>>>, Sep) /\ ~Ended(Stamp)
  <2>1. Lines(Append(<<"t">>, Sep)) = Grown(Lines(<<"t">>), Sep)
        /\ ~Ended(Append(<<"t">>, Sep))
    BY <1>1, <1>2, <1>4, LinesStep
  <2> QED
    BY <1>1, <1>4, <2>1
<1>6. Grown(<<<<"t">>>>, Sep) = <<Stamp>>
  <2> DEFINE l == <<<<"t">>>>
  <2>1. l \in Seq(Seq(C)) /\ l # <<>> /\ Len(l) = 1 /\ l[1] = <<"t">>
    BY <1>1
  <2> HIDE DEF l
  <2>2. /\ Grown(l, Sep) \in Seq(Seq(C)) /\ Len(Grown(l, Sep)) = Len(l)
        /\ Grown(l, Sep)[Len(l)] = Append(l[Len(l)], Sep)
    BY <2>1, GrownIs
  <2>3. Len(Grown(l, Sep)) = 1 /\ Grown(l, Sep)[1] = Stamp
    BY <1>1, <2>1, <2>2
  <2>4. <<Stamp>> \in Seq(Seq(C)) /\ Len(<<Stamp>>) = 1 /\ <<Stamp>>[1] = Stamp
    BY <1>1
  <2>5. Grown(l, Sep) = <<Stamp>>
    <3> DEFINE g == Grown(l, Sep)
               h == <<Stamp>>
    <3> HIDE DEF g, h
    <3>1. /\ g \in Seq(Seq(C)) /\ h \in Seq(Seq(C)) /\ Len(g) = 1 /\ Len(h) = 1
          /\ g[1] = h[1]
      BY <2>2, <2>3, <2>4 DEF g, h
    <3>2. g = h
      BY <3>1, SeqEqual
    <3> QED
      BY <3>2 DEF g, h
  <2> QED
    BY <2>5 DEF l
<1>7. Lines(<<EndLine>>) = <<>>
  <2>1. Lines(Append(<<>>, EndLine)) = Lines(<<>>)
    BY <1>1, LinesStep
  <2> QED
    BY <1>1, <1>3, <2>1
<1> QED
  BY <1>1, <1>5, <1>6, <1>7

(* A record of such a payload is one line, stamp and text, and ends it. *)
LEMMA RecordLines ==
  ASSUME NEW C, {"t", Sep, EndLine} \subseteq C, NEW p \in Seq(C), IsLine(p)
  PROVE  /\ Record(p) \in Seq(C) /\ Record(p) # <<>> /\ Record(p)[1] = "t"
         /\ Ended(Record(p)) /\ Lines(Record(p)) = <<Stamp \o Text(p)>>
<1> DEFINE q == Stamp \o p
           e == <<EndLine>>
           l == Lines(q)
           x == Stamp \o Text(p)
<1>1. Stamp \in Seq(C) /\ e \in Seq(C) /\ q \in Seq(C) /\ x \in Seq(C)
  BY StampLines, IsLineType, ConcatProperties
<1>2. Record(p) = q \o e
  <2>1. Time \o <<Sep>> = Stamp
    BY PairIs, Zenon DEF Time, Stamp
  <2> QED
    BY <2>1 DEF Record
<1>3. /\ Len(Stamp) = 2 /\ Stamp[1] = "t" /\ Stamp # <<>>
      /\ Len(e) = 1 /\ e[1] = EndLine /\ e # <<>>
  BY DEF Stamp
<1>4. Spliced(Lines(Stamp), Lines(p)[1], l)
  BY <1>1, StampLines, IsLineType, LinesSplice
<1>5. l \in Seq(Seq(C))
  BY <1>1, LinesType
<1>6. Len(l) = 1 /\ l[1] = x
  <2>1. Lines(Stamp) = <<Stamp>> /\ Lines(p)[1] = Text(p)
    BY StampLines, IsLineType
  <2>2. Len(<<Stamp>>) = 1 /\ <<Stamp>>[1] = Stamp
    OBVIOUS
  <2> QED
    BY <1>4, <2>1, <2>2 DEF Spliced
<1>7. Lines(q \o e) = l \o Lines(e)
  <2> HIDE DEF q, e
  <2> QED
    BY <1>1, <1>3, LinesConcat DEF l
<1>8. l \o Lines(e) = l
  BY <1>5, StampLines, ConcatEmptySeq
<1>9. l = <<x>>
  <2> DEFINE h == <<x>>
  <2>1. h \in Seq(Seq(C)) /\ Len(h) = 1 /\ h[1] = x
    BY <1>1
  <2> HIDE DEF l, h, x
  <2>2. l = h
    BY <1>5, <1>6, <2>1, SeqEqual
  <2> QED
    BY <2>2 DEF h
<1> HIDE DEF q, e
<1>10. q # <<>> /\ q[1] = "t"
  <2>1. /\ Len(q) = Len(Stamp) + Len(p)
        /\ \A i \in 1..(Len(Stamp) + Len(p)) :
             q[i] = IF i <= Len(Stamp) THEN Stamp[i] ELSE p[i - Len(Stamp)]
    BY <1>1, ConcatProperties DEF q
  <2>2. Len(p) \in Nat
    OBVIOUS
  <2>3. 1 \in 1..(Len(Stamp) + Len(p)) /\ 1 <= Len(Stamp) /\ Len(Stamp) + Len(p) # 0
    BY <1>3, <2>2
  <2> QED
    BY <1>3, <2>1, <2>3
<1>11. /\ q \o e \in Seq(C) /\ Len(q \o e) = Len(q) + Len(e)
       /\ \A i \in 1..(Len(q) + Len(e)) :
            (q \o e)[i] = IF i <= Len(q) THEN q[i] ELSE e[i - Len(q)]
  BY <1>1, ConcatProperties
<1>12. (q \o e)[1] = "t" /\ q \o e # <<>>
  <2>1. Len(q) \in Nat \ {0}
    BY <1>1, <1>10
  <2>2. 1 \in 1..(Len(q) + Len(e)) /\ 1 <= Len(q) /\ Len(q) + Len(e) # 0
    BY <1>3, <2>1
  <2>3. Len(q \o e) # 0
    BY <1>11, <2>2
  <2> QED
    BY <1>10, <1>11, <2>2, <2>3
<1>13. Ended(q \o e)
  <2>1. Ended(e)
    BY <1>3 DEF Ended
  <2> QED
    BY <1>1, <1>3, <2>1, EndedConcat
<1> QED
  BY <1>2, <1>7, <1>8, <1>9, <1>11, <1>12, <1>13

(* What is left of a record is a line, too; the whole one once it is ended. *)
LEMMA PrefixLines ==
  ASSUME NEW C, {"t", Sep, EndLine} \subseteq C, NEW p \in Seq(C), IsLine(p),
         NEW n \in 1..Len(Record(p))
  PROVE  LET P == SubSeq(Record(p), 1, n) IN
           /\ P \in Seq(C) /\ P # <<>> /\ P[1] = "t" /\ Len(P) = n
           /\ Lines(P) \in Seq(Seq(C)) /\ Len(Lines(P)) = 1
           /\ Ended(P) => Lines(P) = Lines(Record(p))
           /\ P \o Drop(Record(p), n) = Record(p) /\ Drop(Record(p), n) \in Seq(C)
<1> DEFINE R == Record(p)
           P == SubSeq(R, 1, n)
           D == Drop(R, n)
           m == Len(R)
<1>1. R \in Seq(C) /\ R # <<>> /\ R[1] = "t" /\ Lines(R) = <<Stamp \o Text(p)>>
  BY RecordLines
<1>2. Lines(R) \in Seq(Seq(C)) /\ Len(Lines(R)) = 1
  BY <1>1, LinesType
<1> HIDE DEF R
<1>3. m \in Nat \ {0} /\ n \in Int /\ 1 <= n /\ n <= m /\ \A i \in 1..m : R[i] \in C
  <2>1. m \in Nat \ {0}
    BY <1>1
  <2>2. n \in 1..m
    BY DEF R
  <2> QED
    BY <1>1, <2>1, <2>2, ElementOfSeq
<1>4. P \in Seq(C) /\ Len(P) = n /\ P[1] = "t"
  <2>1. \A i \in 1..n : R[i] \in C
    BY <1>3
  <2>2. /\ P \in Seq(C) /\ Len(P) = (IF 1 <= n THEN n - 1 + 1 ELSE 0)
        /\ \A i \in 1..(n - 1 + 1) : P[i] = R[1 + i - 1]
    BY <1>3, <2>1, SubSeqProperties
  <2> HIDE DEF P
  <2> QED
    BY <1>1, <1>3, <2>2
<1>5. D \in Seq(C) /\ P \o D = R
  <2>1. D = SubSeq(R, n + 1, m)
    BY DEF Drop
  <2>2. \A i \in (n + 1)..m : R[i] \in C
    BY <1>3
  <2>3. SubSeq(R, n + 1, m) \in Seq(C)
    BY <1>3, <2>2, SubSeqProperties
  <2>4. 1 \in 1..(m + 1) /\ n \in (1 - 1)..m /\ m \in n..m
    BY <1>3
  <2>5. SubSeq(R, 1, n) \o SubSeq(R, n + 1, m) = SubSeq(R, 1, m)
    BY <1>1, <2>4, ConcatAdjacentSubSeq
  <2>6. SubSeq(R, 1, m) = R
    BY <1>1, SubSeqFull
  <2> QED
    BY <2>1, <2>3, <2>5, <2>6
<1> HIDE DEF P, D
<1>6. P # <<>> /\ P[1] # EndLine
  <2>1. "t" # EndLine
    BY DEF EndLine
  <2> QED
    BY <1>3, <1>4, <2>1
<1> DEFINE k == Len(Lines(P))
<1>7. Lines(P) \in Seq(Seq(C)) /\ Lines(P) # <<>> /\ k \in Nat \ {0}
  BY <1>4, <1>6, LinesFirst, LinesType
<1>8. k = 1
  <2>1. Len(Lines(P)) <= Len(Lines(P \o D))
    BY <1>4, <1>5, LinesMonotone
  <2> HIDE DEF k
  <2>2. k <= 1
    BY <1>2, <1>5, <2>1 DEF k
  <2> QED
    BY <1>7, <2>2
<1>9. ASSUME Ended(P) PROVE Lines(P) = Lines(R)
  <2>1. Lines(R) = Lines(P) \o Lines(D)
    BY <1>4, <1>5, <1>9, LinesConcat
  <2>2. Lines(D) \in Seq(Seq(C))
    BY <1>5, LinesType
  <2>3. Len(Lines(R)) = Len(Lines(P)) + Len(Lines(D))
    BY <1>7, <2>1, <2>2, ConcatProperties
  <2>4. Len(Lines(D)) = 0
    <3> DEFINE d == Len(Lines(D))
    <3>1. d \in Nat
      BY <2>2
    <3> HIDE DEF d
    <3>2. 1 = 1 + d
      BY <1>2, <1>8, <2>3 DEF d
    <3>3. d = 0
      BY <3>1, <3>2
    <3> QED
      BY <3>3 DEF d
  <2>5. Lines(D) = <<>>
    BY <2>2, <2>4
  <2> QED
    BY <1>7, <2>1, <2>5, ConcatEmptySeq
<1> QED
  BY <1>4, <1>5, <1>6, <1>7, <1>8, <1>9 DEF P, D, R

(* What expected holds. *)
Kinds == Seq(Characters) \cup {Damaged}

(* A line that ends with a record that was written to its end. *)
Whole(line, r) ==
  \E z \in Seq(Characters), k \in 1..Len(r) : line = z \o (Stamp \o Text(r[k]))

(* What is on the file, by lines. *)
Kept(X, E, r) ==
  /\ X \in Seq(Characters) /\ E \in Seq(Kinds)
  /\ Len(Lines(X)) = Len(E)
  /\ \A i \in 1..Len(E) : E[i] # Damaged => IsLine(E[i]) /\ Lines(X)[i] = Stamp \o Text(E[i])
  /\ \A i \in 1..Len(E) : i < Len(E) \/ Ended(X) => Whole(Lines(X)[i], r)
  /\ ~Ended(X) => E[Len(E)] = Damaged

(* Characters has what a record is made of. *)
LEMMA CharactersHas == {"t", Sep, EndLine} \subseteq Characters
  BY DEF Characters

(* Another message received changes nothing on the file. *)
LEMMA KeptGrows ==
  ASSUME NEW X, NEW E, NEW r \in Seq(Seq(Characters)), NEW p \in Seq(Characters), Kept(X, E, r)
  PROVE  Kept(X, E, Append(r, p))
<1> DEFINE q == Append(r, p)
<1>1. /\ Len(r) \in Nat /\ Len(q) = Len(r) + 1 /\ \A k \in 1..Len(r) : q[k] = r[k]
  BY OneMore
<1> HIDE DEF q
<1>2. \A line : Whole(line, r) => Whole(line, q)
  <2> SUFFICES ASSUME NEW line, Whole(line, r) PROVE Whole(line, q)
    OBVIOUS
  <2>1. PICK z \in Seq(Characters), k \in 1..Len(r) : line = z \o (Stamp \o Text(r[k]))
    BY DEF Whole
  <2>2. k \in 1..Len(q) /\ q[k] = r[k]
    BY <1>1
  <2>3. line = z \o (Stamp \o Text(q[k]))
    BY <2>1, <2>2
  <2> QED
    BY <2>2, <2>3, Zenon DEF Whole
<1> QED
  BY <1>2 DEF Kept, q

(* The line of a record is whole. *)
LEMMA WholeOf ==
  ASSUME NEW r \in Seq(Seq(Characters)), NEW k \in 1..Len(r), IsLine(r[k])
  PROVE  Whole(Stamp \o Text(r[k]), r)
<1>1. r[k] \in Seq(Characters)
  BY ElementOfSeq
<1>2. Text(r[k]) \in Seq(Characters) /\ Stamp \in Seq(Characters)
  BY <1>1, IsLineType, StampLines, CharactersHas
<1> DEFINE x == Stamp \o Text(r[k])
<1>3. x \in Seq(Characters)
  BY <1>2, ConcatProperties
<1>4. <<>> \in Seq(Characters) /\ x = <<>> \o x
  <2> HIDE DEF x
  <2> QED
    BY <1>3, EmptySeq, ConcatEmptySeq
<1> QED
  BY <1>4, Zenon DEF Whole

(* A part of a record behind an ended file is a line of its own, damaged   *)
(* unless the record is complete.                                          *)
LEMMA KeptAppend ==
  ASSUME NEW X, NEW E, NEW r \in Seq(Seq(Characters)), Kept(X, E, r),
         NEW k \in 1..Len(r), IsLine(r[k]), NEW n \in 1..Len(Record(r[k])), Ended(X),
         NEW v, v = IF Ended(SubSeq(Record(r[k]), 1, n)) THEN r[k] ELSE Damaged
  PROVE  Kept(X \o SubSeq(Record(r[k]), 1, n), Append(E, v), r)
<1> DEFINE p == r[k]
           P == SubSeq(Record(p), 1, n)
           A == Lines(X)
           B == Lines(P)
           F == Append(E, v)
           m == Len(E)
<1>1. p \in Seq(Characters)
  BY ElementOfSeq
<1>2. /\ P \in Seq(Characters) /\ P # <<>> /\ B \in Seq(Seq(Characters)) /\ Len(B) = 1
      /\ Ended(P) => B = Lines(Record(p))
  BY <1>1, PrefixLines, CharactersHas
<1>3. Lines(Record(p)) = <<Stamp \o Text(p)>>
  BY <1>1, RecordLines, CharactersHas
<1>4. Ended(P) => B[1] = Stamp \o Text(p)
  BY <1>2, <1>3
<1>5. X \in Seq(Characters) /\ E \in Seq(Kinds) /\ A \in Seq(Seq(Characters)) /\ Len(A) = m
  BY LinesType DEF Kept
<1>6. v \in Kinds
  BY <1>1 DEF Kinds
<1> HIDE DEF P
<1>7. Lines(X \o P) = A \o B
  BY <1>2, <1>5, LinesConcat
<1>8. X \o P \in Seq(Characters) /\ (Ended(X \o P) <=> Ended(P))
  BY <1>2, <1>5, EndedConcat, ConcatProperties
<1>9. /\ F \in Seq(Kinds) /\ m \in Nat /\ Len(F) = m + 1 /\ F[m + 1] = v
      /\ \A i \in 1..m : F[i] = E[i]
  BY <1>5, <1>6, OneMore
<1> HIDE DEF A, B, m
<1>10. /\ Len(A \o B) = m + 1 /\ (A \o B)[m + 1] = B[1]
       /\ \A i \in 1..m : (A \o B)[i] = A[i]
  <2>1. /\ Len(A \o B) = Len(A) + Len(B)
        /\ \A i \in 1..(Len(A) + Len(B)) :
             (A \o B)[i] = IF i <= Len(A) THEN A[i] ELSE B[i - Len(A)]
    BY <1>2, <1>5, ConcatProperties
  <2> DEFINE ab == A \o B
  <2> HIDE DEF ab
  <2>2. /\ Len(ab) = m + 1
        /\ \A i \in 1..(m + 1) : ab[i] = IF i <= m THEN A[i] ELSE B[i - m]
    BY <1>2, <1>5, <2>1 DEF ab
  <2> HIDE DEF p, F
  <2>3. m \in Nat
    BY <1>9
  <2>4. \A i \in 1..m : ab[i] = A[i]
    BY <2>2, <2>3
  <2>5. ab[m + 1] = B[1]
    <3>1. m + 1 \in 1..(m + 1) /\ ~(m + 1 <= m) /\ m + 1 - m = 1
      BY <2>3
    <3> QED
      BY <2>2, <2>3, <3>1
  <2> QED
    BY <2>2, <2>4, <2>5 DEF ab
<1>11. \A i \in 1..(m + 1) : i \in 1..m \/ i = m + 1
  BY <1>9
<1>12. v # Damaged => Ended(P) /\ v = p /\ IsLine(p)
  BY DEF P
<1>13. Ended(P) => Whole(B[1], r)
  BY <1>4, WholeOf
<1>14. \A i \in 1..m : /\ E[i] # Damaged => IsLine(E[i]) /\ A[i] = Stamp \o Text(E[i])
                       /\ Whole(A[i], r)
  BY DEF Kept, A, m
<1>15. ~Ended(P) => v = Damaged
  BY DEF P
<1> HIDE DEF F, p
<1>16. \A i \in 1..Len(F) :
         F[i] # Damaged => IsLine(F[i]) /\ Lines(X \o P)[i] = Stamp \o Text(F[i])
  BY <1>4, <1>7, <1>9, <1>10, <1>11, <1>12, <1>14
<1>17. \A i \in 1..Len(F) : i < Len(F) \/ Ended(X \o P) => Whole(Lines(X \o P)[i], r)
  <2> SUFFICES ASSUME NEW i \in 1..(m + 1), i < m + 1 \/ Ended(P)
               PROVE  Whole((A \o B)[i], r)
    BY <1>7, <1>8, <1>9
  <2>1. CASE i \in 1..m
    BY <1>10, <1>14, <2>1
  <2>2. CASE i = m + 1
    BY <1>9, <1>10, <1>13, <2>2
  <2> QED
    BY <1>11, <2>1, <2>2
<1>18. Kept(X \o P, F, r)
  BY <1>7, <1>8, <1>9, <1>10, <1>15, <1>16, <1>17 DEF Kept
<1> QED
  BY <1>18 DEF P, p, F

(* A part of a record behind a file that is not ended goes to its last     *)
(* line.                                                                   *)
LEMMA KeptSplice ==
  ASSUME NEW X, NEW E, NEW r \in Seq(Seq(Characters)), Kept(X, E, r),
         NEW k \in 1..Len(r), IsLine(r[k]), NEW n \in 1..Len(Record(r[k])), ~Ended(X)
  PROVE  Kept(X \o SubSeq(Record(r[k]), 1, n), E, r)
<1> DEFINE p == r[k]
           P == SubSeq(Record(p), 1, n)
           A == Lines(X)
           B == Lines(P)
           N == Lines(X \o P)
           m == Len(E)
           x == Stamp \o Text(p)
<1>1. p \in Seq(Characters)
  BY ElementOfSeq
<1>2. /\ P \in Seq(Characters) /\ P # <<>> /\ B \in Seq(Seq(Characters)) /\ Len(B) = 1
      /\ P[1] = "t" /\ (Ended(P) => B = Lines(Record(p)))
  BY <1>1, PrefixLines, CharactersHas
<1>3. Lines(Record(p)) = <<x>>
  BY <1>1, RecordLines, CharactersHas
<1>4. Ended(P) => B[1] = x
  BY <1>2, <1>3
<1>5. /\ X \in Seq(Characters) /\ E \in Seq(Kinds) /\ A \in Seq(Seq(Characters))
      /\ A # <<>> /\ Len(A) = m /\ E[m] = Damaged
  BY LinesType DEF Kept
<1>6. m \in Nat \ {0}
  BY <1>5
<1> HIDE DEF P
<1>7. P[1] # EndLine
  BY <1>2 DEF EndLine
<1>8. Spliced(A, B[1], N)
  BY <1>2, <1>5, <1>7, LinesSplice
<1>9. X \o P \in Seq(Characters) /\ (Ended(X \o P) <=> Ended(P))
  BY <1>2, <1>5, EndedConcat, ConcatProperties
<1>10. \A i \in 1..m : /\ E[i] # Damaged => IsLine(E[i]) /\ A[i] = Stamp \o Text(E[i])
                       /\ i < m => Whole(A[i], r)
  BY DEF Kept
<1> HIDE DEF A, B, N, m, x
<1>11. Len(N) = m /\ (\A i \in 1..(m - 1) : N[i] = A[i]) /\ N[m] = A[m] \o B[1]
  BY <1>5, <1>8 DEF Spliced
<1>12. \A i \in 1..m : i \in 1..(m - 1) \/ i = m
  BY <1>6
<1>13. \A i \in 1..m : E[i] # Damaged => IsLine(E[i]) /\ N[i] = Stamp \o Text(E[i])
  BY <1>5, <1>10, <1>11, <1>12
<1>14. Ended(P) => Whole(N[m], r)
  <2> SUFFICES ASSUME Ended(P) PROVE Whole(N[m], r)
    OBVIOUS
  <2>1. N[m] = A[m] \o x
    BY <1>4, <1>11
  <2>2. m \in 1..Len(A)
    BY <1>5, <1>6
  <2>3. A[m] \in Seq(Characters)
    BY <1>5, <2>2, ElementOfSeq
  <2> QED
    BY <2>1, <2>3, Zenon DEF Whole, x, p
<1>15. \A i \in 1..m : i < m \/ Ended(P) => Whole(N[i], r)
  <2> SUFFICES ASSUME NEW i \in 1..m, i < m \/ Ended(P) PROVE Whole(N[i], r)
    OBVIOUS
  <2>1. CASE i \in 1..(m - 1)
    <3>1. i < m
      BY <1>6, <2>1
    <3> QED
      BY <1>10, <1>11, <2>1, <3>1
  <2>2. CASE i = m
    BY <1>6, <1>14, <2>2
  <2> QED
    BY <1>12, <2>1, <2>2
<1>16. Kept(X \o P, E, r)
  BY <1>5, <1>9, <1>11, <1>13, <1>15 DEF Kept, N, m
<1> QED
  BY <1>16 DEF P, p

-----------------------------------------------------------------------------
(* The log: its type, and what is on the file whatever was killed when. *)

(* The type of Front. *)
LEMMA FrontType ==
  ASSUME NEW S, NEW s \in Seq(S)
  PROVE  Front(s) \in Seq(S)
<1>1. Len(s) \in Nat /\ \A i \in 1..(Len(s) - 1) : s[i] \in S
  BY ElementOfSeq
<1>2. SubSeq(s, 1, Len(s) - 1) \in Seq(S)
  BY <1>1, SubSeqProperties
<1> QED
  BY <1>2 DEF Front

(* Front undoes Append. *)
LEMMA FrontAppend ==
  ASSUME NEW S, NEW s \in Seq(S), NEW e \in S
  PROVE  Front(Append(s, e)) = s
<1> DEFINE a == Append(s, e)
           f == SubSeq(a, 1, Len(a) - 1)
           n == Len(s)
<1>1. /\ a \in Seq(S) /\ n \in Nat /\ Len(a) = n + 1 /\ \A i \in 1..n : a[i] = s[i]
  BY OneMore
<1>2. Front(a) = f
  BY DEF Front
<1> HIDE DEF a
<1>3. f \in Seq(S) /\ Len(f) = n /\ \A i \in 1..n : f[i] = a[i]
  <2>1. Len(a) - 1 = n /\ \A i \in 1..n : a[i] \in S
    <3> HIDE DEF n
    <3>1. Len(a) - 1 = n /\ \A i \in 1..n : i \in 1..Len(a)
      BY <1>1
    <3> QED
      BY <1>1, <3>1, ElementOfSeq
  <2>2. /\ f \in Seq(S) /\ Len(f) = (IF 1 <= n THEN n - 1 + 1 ELSE 0)
        /\ \A i \in 1..(n - 1 + 1) : f[i] = a[1 + i - 1]
    BY <1>1, <2>1, SubSeqProperties
  <2> HIDE DEF f, n
  <2>3. n - 1 + 1 = n /\ \A i \in 1..n : 1 + i - 1 = i
    BY <1>1
  <2>4. ~(1 <= n) => n = 0
    BY <1>1
  <2> QED
    BY <2>2, <2>3, <2>4
<1> HIDE DEF f
<1>4. f = s
  BY <1>1, <1>3, SeqEqual
<1> QED
  BY <1>2, <1>4 DEF a

(* Front and the last element are the sequence. *)
LEMMA AppendLast ==
  ASSUME NEW S, NEW s \in Seq(S), s # <<>>
  PROVE  Append(Front(s), s[Len(s)]) = s
<1>1. PICK f \in Seq(S), e \in S : s = Append(f, e)
  BY SequenceEmptyOrAppend
<1>2. Front(s) = f /\ s[Len(s)] = e
  <2>1. Front(Append(f, e)) = f
    BY FrontAppend
  <2>2. Append(f, e)[Len(Append(f, e))] = e
    BY OneMore
  <2> QED
    BY <1>1, <2>1, <2>2
<1> QED
  BY <1>1, <1>2

(* The type of Drop. *)
LEMMA DropType ==
  ASSUME NEW S, NEW s \in Seq(S), NEW n \in Nat
  PROVE  Drop(s, n) \in Seq(S) /\ Len(Drop(s, n)) = IF n < Len(s) THEN Len(s) - n ELSE 0
<1>1. Len(s) \in Nat /\ \A i \in (n + 1)..Len(s) : s[i] \in S
  BY ElementOfSeq
<1>2. /\ SubSeq(s, n + 1, Len(s)) \in Seq(S)
      /\ Len(SubSeq(s, n + 1, Len(s))) = IF n + 1 <= Len(s) THEN Len(s) - (n + 1) + 1 ELSE 0
  BY <1>1, SubSeqProperties
<1> DEFINE l == Len(s)
           d == SubSeq(s, n + 1, l)
<1>3. d = Drop(s, n)
  BY DEF Drop
<1> HIDE DEF l, d
<1>4. l \in Nat /\ Len(d) = IF n + 1 <= l THEN l - (n + 1) + 1 ELSE 0
  BY <1>1, <1>2 DEF d, l
<1>5. Len(d) = IF n < l THEN l - n ELSE 0
  BY <1>4
<1> QED
  BY <1>2, <1>3, <1>5 DEF d, l

(* The steps that change the log, the subscriber or what is on its way. *)
LogNext ==
  \/ \E p \in Seq(Characters) : Publish(p)
  \/ MqttConnect \/ MsgArrvd \/ CloseFile \/ SubscriberStops

(* The type of a record. *)
LEMMA RecordType == \A p \in Seq(Characters) : Record(p) \in Seq(Characters)
<1> SUFFICES ASSUME NEW p \in Seq(Characters) PROVE Record(p) \in Seq(Characters)
  OBVIOUS
<1>1. Time \in Seq(Characters) /\ <<Sep>> \in Seq(Characters) /\ <<EndLine>> \in Seq(Characters)
  BY CharactersHas DEF Time
<1> DEFINE a == Time \o <<Sep>>
           b == a \o p
<1>2. a \in Seq(Characters)
  BY <1>1, ConcatProperties
<1> HIDE DEF a
<1>3. b \in Seq(Characters)
  BY <1>2, ConcatProperties
<1> HIDE DEF b
<1>4. b \o <<EndLine>> \in Seq(Characters)
  BY <1>1, <1>3, ConcatProperties
<1> QED
  BY <1>4 DEF Record, a, b

(* The log's part of the type invariant is kept by its steps. *)
LEMMA LogTypeNext == LogTypeOK /\ [LogNext]_logVars => LogTypeOK'
<1> SUFFICES ASSUME LogTypeOK, [LogNext]_logVars PROVE LogTypeOK'
  OBVIOUS
<1>a. /\ input \in Seq(Seq(Characters)) /\ log \in Seq(Characters)
      /\ subscriber \in {"off", "waiting", "writing"}
      /\ listening \in BOOLEAN
      /\ transit \in Seq(Seq(Characters)) /\ rest \in Seq(Characters)
      /\ kills \in 0..MaxKills
      /\ received \in Seq(Seq(Characters)) /\ expected \in Seq(Kinds)
      /\ rest # <<>> => subscriber = "writing"
      /\ listening => subscriber # "off"
  BY DEF LogTypeOK, Kinds
<1>b. <<>> \in Seq(Characters) /\ <<>> \in Seq(Seq(Characters)) /\ Damaged \in Kinds
  BY EmptySeq DEF Kinds
<1>c. Kinds = Seq(Characters) \cup {Damaged} /\ Seq(Characters) \subseteq Kinds
  BY DEF Kinds
<1>1. CASE \E p \in Seq(Characters) : Publish(p)
  <2>1. PICK p \in Seq(Characters) : Publish(p)
    BY <1>1
  <2>2. Append(transit, p) \in Seq(Seq(Characters))
    BY <1>a, AppendProperties
  <2>3. transit' \in Seq(Seq(Characters))
    BY <1>a, <2>1, <2>2 DEF Publish
  <2> QED
    BY <1>a, <1>c, <2>1, <2>3 DEF Publish, subscriberVars, historyVars, LogTypeOK
<1>2. CASE MqttConnect
  BY <1>2, <1>a, <1>c DEF MqttConnect, historyVars, LogTypeOK
<1>3. CASE MsgArrvd
  <2> DEFINE p == Head(transit)
             R == Record(p)
  <2>1. p \in Seq(Characters) /\ Tail(transit) \in Seq(Seq(Characters))
    BY <1>3, <1>a, HeadTailProperties DEF MsgArrvd
  <2>2. R \in Seq(Characters)
    BY <2>1, RecordType
  <2>3. PICK n \in 0..Len(R) : log' = log \o SubSeq(R, 1, n) /\ rest' = Drop(R, n)
    BY <1>3 DEF MsgArrvd, Opened
  <2> HIDE DEF R
  <2>4. n \in Nat /\ SubSeq(R, 1, n) \in Seq(Characters)
    <3>1. n \in Nat /\ Len(R) \in Nat /\ n <= Len(R)
      BY <2>2, <2>3
    <3>2. \A i \in 1..n : i \in 1..Len(R)
      BY <3>1
    <3>3. \A i \in 1..n : R[i] \in Characters
      BY <2>2, <3>2, ElementOfSeq
    <3> QED
      BY <3>1, <3>3, SubSeqProperties
  <2>5. log' \in Seq(Characters) /\ rest' \in Seq(Characters)
    <3>1. log \o SubSeq(R, 1, n) \in Seq(Characters)
      BY <1>a, <2>4, ConcatProperties
    <3>2. Drop(R, n) \in Seq(Characters)
      BY <2>2, <2>4, DropType
    <3> QED
      BY <2>3, <3>1, <3>2
  <2>6. received' \in Seq(Seq(Characters))
    <3>1. received' = Append(received, p)
      BY <1>3 DEF MsgArrvd
    <3> HIDE DEF p
    <3> QED
      BY <1>a, <2>1, <3>1, AppendProperties
  <2>7. expected' \in Seq(Kinds)
    <3>1. expected' = IF Torn THEN expected ELSE Append(expected, p)
      BY <1>3 DEF MsgArrvd
    <3> HIDE DEF p
    <3>2. Append(expected, p) \in Seq(Kinds)
      BY <1>a, <1>c, <2>1, AppendProperties
    <3> QED
      BY <1>a, <3>1, <3>2
  <2>8. /\ subscriber = "waiting" /\ subscriber' = "writing" /\ transit' = Tail(transit)
        /\ UNCHANGED <<input, listening, kills>>
    BY <1>3 DEF MsgArrvd
  <2> QED
    BY <1>a, <1>c, <2>1, <2>5, <2>6, <2>7, <2>8 DEF LogTypeOK
<1>4. CASE CloseFile
  <2>1. log \o rest \in Seq(Characters)
    BY <1>a, ConcatProperties
  <2> QED
    BY <1>4, <1>a, <1>b, <1>c, <2>1 DEF CloseFile, historyVars, LogTypeOK
<1>5. CASE Kill
  <2>1. Front(expected) \in Seq(Kinds)
    BY <1>a, FrontType
  <2>2. Append(Front(expected), Damaged) \in Seq(Kinds)
    BY <1>b, <2>1, AppendProperties
  <2>3. expected' \in {expected, Front(expected), Append(Front(expected), Damaged)}
    BY <1>5 DEF Kill
  <2>4. expected' \in Seq(Kinds)
    BY <1>a, <2>1, <2>2, <2>3
  <2>5. kills' \in 0..MaxKills
    BY <1>5, <1>a, LogAssumption DEF Kill
  <2>6. /\ subscriber' = "off" /\ listening' = FALSE /\ transit' = <<>> /\ rest' = <<>>
        /\ UNCHANGED <<input, log, received>>
    BY <1>5 DEF Kill
  <2> QED
    BY <1>a, <1>b, <1>c, <2>4, <2>5, <2>6 DEF LogTypeOK
<1>6. CASE Quit
  BY <1>6, <1>a, <1>b, <1>c DEF Quit, historyVars, LogTypeOK
<1>7. CASE SubscriberConnLost
  BY <1>7, <1>a, <1>b, <1>c DEF SubscriberConnLost, historyVars, LogTypeOK
<1>8. CASE UNCHANGED logVars
  BY <1>8, <1>a, <1>c DEF logVars, subscriberVars, historyVars, LogTypeOK
<1> QED
  BY <1>1, <1>2, <1>3, <1>4, <1>5, <1>6, <1>7, <1>8 DEF LogNext, SubscriberStops

(* The record of the last message, of which n characters are on the file. *)
Writes(X, E, p, n) ==
  /\ log = X \o SubSeq(Record(p), 1, n)
  /\ rest = Drop(Record(p), n)
  /\ expected = IF Ended(X) THEN Append(E, p) ELSE E

(* The file as it was and a part of the last record. *)
InRecord ==
  /\ received # <<>>
  /\ \E X \in Seq(Characters), E \in Seq(Kinds),
        n \in 0..Len(Record(received[Len(received)])) :
       Kept(X, E, received) /\ Writes(X, E, received[Len(received)], n)

(* A file of records, all of them but the last whole or damaged for good. *)
FileInv ==
  OneLine =>
    /\ subscriber # "writing" => Kept(log, expected, received)
    /\ subscriber = "writing" => InRecord

(* Torn is the model's word for a file that is not ended. *)
LEMMA TornIs == log \in Seq(Characters) => (Torn <=> ~Ended(log))
  BY DEF Torn, Ended, Last

(* OneLine, payload by payload. *)
LEMMA OneLineIs ==
  ASSUME received \in Seq(Seq(Characters))
  PROVE  OneLine <=> \A k \in 1..Len(received) : IsLine(received[k])
<1>1. Range(received) = {received[k] : k \in 1..Len(received)}
  BY RangeEquality
<1> QED
  BY <1>1 DEF OneLine, IsLine

(* A prefix of a record, kept on the file. *)
LEMMA KeptPrefix ==
  ASSUME NEW X, NEW E, NEW r \in Seq(Seq(Characters)), Kept(X, E, r),
         NEW k \in 1..Len(r), IsLine(r[k]), NEW n \in 1..Len(Record(r[k]))
  PROVE  LET Y == X \o SubSeq(Record(r[k]), 1, n) IN
           /\ Ended(X) /\ Ended(Y) => Kept(Y, Append(E, r[k]), r)
           /\ Ended(X) /\ ~Ended(Y) => Kept(Y, Append(E, Damaged), r)
           /\ ~Ended(X) => Kept(Y, E, r)
<1> DEFINE P == SubSeq(Record(r[k]), 1, n)
<1>1. r[k] \in Seq(Characters)
  BY ElementOfSeq
<1>2. P \in Seq(Characters) /\ P # <<>>
  BY <1>1, PrefixLines, CharactersHas
<1>3. X \in Seq(Characters)
  BY DEF Kept
<1>4. Ended(X \o P) <=> Ended(P)
  BY <1>2, <1>3, EndedConcat
<1>5. Ended(X) /\ Ended(P) => Kept(X \o P, Append(E, r[k]), r)
  BY KeptAppend
<1>6. Ended(X) /\ ~Ended(P) => Kept(X \o P, Append(E, Damaged), r)
  BY KeptAppend
<1>7. ~Ended(X) => Kept(X \o P, E, r)
  BY KeptSplice
<1> HIDE DEF P
<1> QED
  BY <1>4, <1>5, <1>6, <1>7 DEF P

(* The whole of a record, kept on the file. *)
LEMMA KeptRecord ==
  ASSUME NEW X, NEW E, NEW r \in Seq(Seq(Characters)), Kept(X, E, r),
         NEW k \in 1..Len(r), IsLine(r[k])
  PROVE  Kept(X \o Record(r[k]), IF Ended(X) THEN Append(E, r[k]) ELSE E, r)
<1> DEFINE R == Record(r[k])
           n == Len(R)
<1>1. r[k] \in Seq(Characters) /\ X \in Seq(Characters)
  BY ElementOfSeq DEF Kept
<1>2. R \in Seq(Characters) /\ R # <<>> /\ Ended(R)
  BY <1>1, RecordLines, CharactersHas
<1>3. n \in 1..Len(R) /\ SubSeq(R, 1, n) = R
  BY <1>2, SubSeqFull
<1>4. Ended(X \o R)
  BY <1>1, <1>2, EndedConcat
<1>5. /\ Ended(X) /\ Ended(X \o R) => Kept(X \o R, Append(E, r[k]), r)
      /\ ~Ended(X) => Kept(X \o R, E, r)
  BY <1>3, KeptPrefix
<1> HIDE DEF R
<1> QED
  BY <1>4, <1>5 DEF R

(* Concatenation is associative; named, since the provers rewrite the      *)
(* equation.                                                               *)
Associates(s, t, u) == (s \o t) \o u = s \o (t \o u)

(* Associates holds of sequences over one set. *)
LEMMA Associative ==
  ASSUME NEW S, NEW s \in Seq(S), NEW t \in Seq(S), NEW u \in Seq(S)
  PROVE  Associates(s, t, u)
  BY ConcatAssociative DEF Associates

(* The file and the rest are the file as it was and the record. *)
LEMMA WritesAll ==
  ASSUME NEW X \in Seq(Characters), NEW p \in Seq(Characters), IsLine(p),
         NEW n \in 0..Len(Record(p))
  PROVE  (X \o SubSeq(Record(p), 1, n)) \o Drop(Record(p), n) = X \o Record(p)
<1> DEFINE R == Record(p)
           P == SubSeq(R, 1, n)
           D == Drop(R, n)
<1>1. R \in Seq(Characters)
  BY RecordType
<1>2. P \in Seq(Characters) /\ D \in Seq(Characters) /\ P \o D = R
  <2>1. CASE n = 0
    <3>1. P = <<>>
      BY <2>1, SubSeqEmpty
    <3>2. D = R
      BY <1>1, <2>1, SubSeqFull DEF Drop
    <3> HIDE DEF R, P, D
    <3> QED
      BY <1>1, <3>1, <3>2, EmptySeq, ConcatEmptySeq
  <2>2. CASE n # 0
    <3>1. n \in 1..Len(R)
      BY <2>2
    <3> QED
      BY <3>1, PrefixLines, CharactersHas
  <2> QED
    BY <2>1, <2>2
<1> HIDE DEF P, D, R
<1>3. (X \o P) \o D = X \o (P \o D)
  <2>1. Associates(X, P, D)
    BY <1>2, Associative
  <2> QED
    BY <2>1 DEF Associates
<1>4. (X \o P) \o D = X \o R
  BY <1>2, <1>3
<1> QED
  BY <1>4 DEF P, D, R

(* The empty file is a file of records. *)
LEMMA FileInit == LogInit => FileInv
<1> SUFFICES ASSUME LogInit PROVE FileInv
  OBVIOUS
<1>1. subscriber = "off" /\ log = <<>> /\ expected = <<>> /\ received = <<>>
  BY DEF LogInit
<1>2. /\ <<>> \in Seq(Characters) /\ <<>> \in Seq(Kinds) /\ Len(<<>>) = 0
      /\ Lines(<<>>) = <<>> /\ Ended(<<>>)
  BY EmptySeq, LinesEmpty DEF Ended
<1>3. Kept(log, expected, received)
  BY <1>1, <1>2 DEF Kept
<1> QED
  BY <1>1, <1>3 DEF FileInv

(* Nothing but the messages on their way and the connection changed. *)
LEMMA FileSame ==
  ASSUME FileInv, UNCHANGED <<log, rest, received, expected>>,
         subscriber = "writing" <=> subscriber' = "writing"
  PROVE  FileInv'
  BY DEF FileInv, OneLine, Writes, InRecord

(* An appended sequence by its places. *)
IsAppended(S, s, e, a) ==
  /\ a \in Seq(S) /\ a # <<>>
  /\ Len(s) \in Nat /\ Len(a) = Len(s) + 1
  /\ a[Len(s) + 1] = e
  /\ \A k \in 1..Len(s) : a[k] = s[k]

(* Append satisfies it. *)
LEMMA Appends ==
  ASSUME NEW S, NEW s \in Seq(S), NEW e \in S
  PROVE  IsAppended(S, s, e, Append(s, e))
  BY OneMore DEF IsAppended

(* msgArrvd keeps FileInv: it writes the first part of a record. *)
LEMMA FileArrives ==
  ASSUME LogTypeOK, FileInv, MsgArrvd
  PROVE  FileInv'
<1> DEFINE m == Len(received)
<1>1. /\ log \in Seq(Characters) /\ expected \in Seq(Kinds)
      /\ received \in Seq(Seq(Characters)) /\ transit \in Seq(Seq(Characters))
  BY DEF LogTypeOK, Kinds
<1>2. Head(transit) \in Seq(Characters)
  BY <1>1, HeadTailProperties DEF MsgArrvd
<1>3. PICK p \in Seq(Characters), X \in Seq(Characters), E \in Seq(Kinds),
           q \in Seq(Seq(Characters)) :
        p = Head(transit) /\ X = log /\ E = expected /\ q = Append(received, p)
  <2>1. Append(received, Head(transit)) \in Seq(Seq(Characters))
    BY <1>1, <1>2, AppendProperties
  <2> QED
    BY <1>1, <1>2, <2>1
<1>4. PICK n \in 0..Len(Record(p)) :
        log' = X \o SubSeq(Record(p), 1, n) /\ rest' = Drop(Record(p), n)
  BY <1>3 DEF MsgArrvd, Opened
<1>a. /\ subscriber # "writing" /\ subscriber' = "writing" /\ received' = q
      /\ expected' = IF Torn THEN expected ELSE Append(expected, p)
  BY <1>3 DEF MsgArrvd
<1>5. IsAppended(Seq(Characters), received, p, q)
  BY <1>1, <1>3, Appends
<1>b. /\ q # <<>> /\ m \in Nat /\ Len(q) = m + 1
      /\ q[m + 1] = p /\ \A k \in 1..m : q[k] = received[k]
  BY <1>5 DEF IsAppended
<1> HIDE DEF m
<1> SUFFICES ASSUME OneLine' PROVE InRecord'
  BY <1>a DEF FileInv
<1>6. OneLine
  <2>1. \A k \in 1..Len(q) : IsLine(q[k])
    <3>1. (received \in Seq(Seq(Characters)))'
      BY <1>a
    <3>2. (\A k \in 1..Len(received) : IsLine(received[k]))'
      BY <3>1, OneLineIs, PTL
    <3> QED
      BY <1>a, <3>2 DEF IsLine
  <2>2. \A k \in 1..m : k \in 1..Len(q) /\ q[k] = received[k]
    BY <1>b
  <2>3. \A k \in 1..m : IsLine(received[k])
    BY <2>1, <2>2
  <2> QED
    BY <1>1, <2>3, OneLineIs DEF m
<1>7. Kept(X, E, q)
  <2>1. Kept(X, E, received)
    BY <1>3, <1>6, <1>a DEF FileInv
  <2>2. Kept(X, E, Append(received, p))
    BY <1>1, <2>1, KeptGrows
  <2> QED
    BY <1>3, <2>2
<1>8. expected' = IF Ended(X) THEN Append(E, p) ELSE E
  BY <1>1, <1>3, <1>a, TornIs
<1>9. received' # <<>> /\ received'[Len(received')] = p
  BY <1>a, <1>b
<1> QED
  BY <1>4, <1>7, <1>8, <1>9, <1>a DEF InRecord, Writes

(* FileInv in msgArrvd, with the last record by its number. *)
LEMMA FileWriting ==
  ASSUME LogTypeOK, FileInv, OneLine, subscriber = "writing"
  PROVE  \E X \in Seq(Characters), E \in Seq(Kinds), k \in 1..Len(received) :
           /\ received[k] = received[Len(received)] /\ IsLine(received[k])
           /\ received[k] \in Seq(Characters)
           /\ \E n \in 0..Len(Record(received[k])) :
                Kept(X, E, received) /\ Writes(X, E, received[k], n)
<1>1. received \in Seq(Seq(Characters)) /\ received # <<>>
  BY DEF LogTypeOK, FileInv, InRecord
<1> DEFINE k == Len(received)
<1>2. k \in 1..Len(received)
  BY <1>1
<1>3. IsLine(received[k]) /\ received[k] \in Seq(Characters)
  BY <1>1, <1>2, OneLineIs, ElementOfSeq
<1>4. \E X \in Seq(Characters), E \in Seq(Kinds), n \in 0..Len(Record(received[k])) :
        Kept(X, E, received) /\ Writes(X, E, received[k], n)
  BY DEF FileInv, InRecord
<1> HIDE DEF k
<1>5. received[k] = received[Len(received)]
  BY DEF k
<1> QED
  BY <1>2, <1>3, <1>4, <1>5

(* Closing the file keeps FileInv: the record is complete. *)
LEMMA FileCloses ==
  ASSUME LogTypeOK, FileInv, CloseFile
  PROVE  FileInv'
<1>1. /\ subscriber = "writing" /\ subscriber' = "waiting" /\ log' = log \o rest
      /\ UNCHANGED <<received, expected>>
  BY DEF CloseFile, historyVars
<1> SUFFICES ASSUME OneLine PROVE Kept(log', expected, received)
  BY <1>1 DEF FileInv, OneLine
<1>2. received \in Seq(Seq(Characters))
  BY DEF LogTypeOK
<1>3. PICK X \in Seq(Characters), E \in Seq(Kinds), k \in 1..Len(received) :
        /\ IsLine(received[k]) /\ received[k] \in Seq(Characters)
        /\ \E n \in 0..Len(Record(received[k])) :
             Kept(X, E, received) /\ Writes(X, E, received[k], n)
  BY <1>1, FileWriting
<1> DEFINE p == received[k]
           R == Record(p)
<1>4. PICK n \in 0..Len(R) : Kept(X, E, received) /\ Writes(X, E, p, n)
  BY <1>3
<1>5. Kept(X \o R, IF Ended(X) THEN Append(E, p) ELSE E, received)
  BY <1>2, <1>3, <1>4, KeptRecord
<1>6. (X \o SubSeq(R, 1, n)) \o Drop(R, n) = X \o R
  BY <1>3, WritesAll
<1> HIDE DEF p, R
<1>7. /\ log = X \o SubSeq(R, 1, n) /\ rest = Drop(R, n)
      /\ expected = IF Ended(X) THEN Append(E, p) ELSE E
  BY <1>4 DEF Writes, R
<1>8. log' = X \o R
  BY <1>1, <1>6, <1>7
<1> QED
  BY <1>5, <1>7, <1>8

(* A kill keeps FileInv: what was not flushed is lost, and expected says   *)
(* so.                                                                     *)
LEMMA FileKilled ==
  ASSUME LogTypeOK, FileInv, Kill
  PROVE  FileInv'
<1>1. /\ subscriber' = "off" /\ UNCHANGED <<log, received>>
      /\ expected' =
           IF rest = <<>> THEN expected
           ELSE IF rest # Record(received[Len(received)])
             THEN IF Torn THEN Append(Front(expected), Damaged) ELSE expected
           ELSE IF Torn THEN expected ELSE Front(expected)
  BY DEF Kill, Last
<1>2. received \in Seq(Seq(Characters)) /\ log \in Seq(Characters) /\ expected \in Seq(Kinds)
  BY DEF LogTypeOK, Kinds
<1> SUFFICES ASSUME OneLine PROVE Kept(log, expected', received)
  BY <1>1 DEF FileInv, OneLine
<1>3. CASE subscriber # "writing"
  <2>1. rest = <<>>
    BY <1>3 DEF LogTypeOK
  <2> QED
    BY <1>1, <1>3, <2>1 DEF FileInv
<1>4. CASE subscriber = "writing"
  <2>1. PICK X \in Seq(Characters), E \in Seq(Kinds), k \in 1..Len(received) :
          /\ received[k] = received[Len(received)]
          /\ IsLine(received[k]) /\ received[k] \in Seq(Characters)
          /\ \E n \in 0..Len(Record(received[k])) :
               Kept(X, E, received) /\ Writes(X, E, received[k], n)
    BY <1>4, FileWriting
  <2> DEFINE p == received[k]
             R == Record(p)
             m == Len(R)
  <2>2. PICK n \in 0..m : Kept(X, E, received) /\ Writes(X, E, p, n)
    BY <2>1
  <2>3. R \in Seq(Characters) /\ R # <<>>
    BY <2>1, RecordLines, CharactersHas
  <2>4. m \in Nat \ {0} /\ n \in Nat /\ n <= m
    BY <2>3
  <2>5. /\ log = X \o SubSeq(R, 1, n) /\ rest = Drop(R, n)
        /\ expected = IF Ended(X) THEN Append(E, p) ELSE E
    BY <2>2 DEF Writes
  <2>6. Torn <=> ~Ended(log)
    BY <1>2, TornIs
  <2>7. p \in Kinds /\ Damaged \in Kinds
    BY <2>1 DEF Kinds
  <2>8. Len(rest) = IF n < m THEN m - n ELSE 0
    BY <2>3, <2>4, <2>5, DropType
  <2>9. rest = <<>> <=> n = m
    <3>1. rest \in Seq(Characters)
      BY DEF LogTypeOK
    <3> HIDE DEF m
    <3>2. Len(rest) = 0 <=> n = m
      BY <2>4, <2>8
    <3> QED
      BY <3>1, <3>2
  <2>10. rest = R <=> n = 0
    <3>1. n = 0 => rest = R
      BY <2>3, <2>5, SubSeqFull DEF Drop
    <3>2. n # 0 => Len(rest) # m
      <4> HIDE DEF m
      <4> QED
        BY <2>4, <2>8
    <3> QED
      BY <3>1, <3>2
  <2>11. R = Record(received[Len(received)])
    BY <2>1
  <2>12. Front(Append(E, p)) = E
    BY <2>7, FrontAppend
  <2>13. ASSUME ~Ended(X) PROVE Append(Front(E), Damaged) = E
    <3>1. E[Len(E)] = Damaged /\ E # <<>>
      <4>1. Len(Lines(X)) # 0
        BY <2>13, LinesType
      <4> QED
        BY <2>2, <2>13, <4>1 DEF Kept
    <3> QED
      BY <3>1, AppendLast
  <2>14. CASE n = m
    <3>1. log = X \o R
      BY <2>3, <2>5, <2>14, SubSeqFull
    <3>2. Kept(X \o R, IF Ended(X) THEN Append(E, p) ELSE E, received)
      BY <1>2, <2>1, <2>2, KeptRecord
    <3> HIDE DEF p, R
    <3> QED
      BY <1>1, <2>5, <2>9, <2>14, <3>1, <3>2
  <2>15. CASE n = 0
    <3>1. log = X
      <4>1. SubSeq(R, 1, n) = <<>>
        BY <2>15, SubSeqEmpty
      <4> QED
        BY <2>5, <4>1, ConcatEmptySeq
    <3>2. rest # <<>> /\ rest = R
      BY <2>4, <2>9, <2>10, <2>15
    <3>3. expected' = IF Torn THEN expected ELSE Front(expected)
      BY <1>1, <2>11, <3>2
    <3> HIDE DEF p, R
    <3>4. expected' = E
      BY <2>5, <2>6, <2>12, <3>1, <3>3
    <3> QED
      BY <2>2, <3>1, <3>4
  <2>16. CASE n # 0 /\ n # m
    <3>1. rest # <<>> /\ rest # R
      BY <2>9, <2>10, <2>16
    <3>2. expected' = IF Ended(log) THEN expected ELSE Append(Front(expected), Damaged)
      BY <1>1, <2>6, <2>11, <3>1
    <3>3. n \in 1..m
      BY <2>4, <2>16
    <3>4. /\ Ended(X) /\ Ended(log) => Kept(log, Append(E, p), received)
          /\ Ended(X) /\ ~Ended(log) => Kept(log, Append(E, Damaged), received)
          /\ ~Ended(X) => Kept(log, E, received)
      BY <1>2, <2>1, <2>2, <2>5, <3>3, KeptPrefix
    <3> HIDE DEF p, R
    <3> QED
      BY <2>5, <2>12, <2>13, <3>2, <3>4
  <2> QED
    BY <2>14, <2>15, <2>16
<1> QED
  BY <1>3, <1>4

(* FileInv is kept by every step of the log. *)
LEMMA FileNext == LogTypeOK /\ FileInv /\ [LogNext]_logVars => FileInv'
<1> SUFFICES ASSUME LogTypeOK, FileInv, [LogNext]_logVars PROVE FileInv'
  OBVIOUS
<1>1. CASE \E p \in Seq(Characters) : Publish(p)
  BY <1>1, FileSame DEF Publish, subscriberVars, historyVars
<1>2. CASE MqttConnect \/ Quit
  BY <1>2, FileSame DEF MqttConnect, Quit, historyVars
<1>3. CASE SubscriberConnLost
  BY <1>3, FileSame DEF SubscriberConnLost, historyVars
<1>4. CASE UNCHANGED logVars
  BY <1>4, FileSame DEF logVars, subscriberVars, historyVars
<1> QED
  BY <1>1, <1>2, <1>3, <1>4, FileArrives, FileCloses, FileKilled DEF LogNext, SubscriberStops

-----------------------------------------------------------------------------
(* FileReader::read: what follows the first separator of a line. *)

(* What is left of a sequence by its places. *)
IsDropped(S, s, n, d) ==
  /\ d \in Seq(S) /\ Len(d) = Len(s) - n
  /\ \A i \in 1..(Len(s) - n) : d[i] = s[n + i]

(* Drop satisfies it. *)
LEMMA DropIs ==
  ASSUME NEW S, NEW s \in Seq(S), NEW n \in 0..Len(s)
  PROVE  IsDropped(S, s, n, Drop(s, n))
<1> DEFINE l == Len(s)
           d == SubSeq(s, n + 1, l)
<1>1. l \in Nat /\ n \in Nat /\ n <= l
  OBVIOUS
<1>2. \A i \in (n + 1)..l : s[i] \in S
  BY <1>1, ElementOfSeq
<1> HIDE DEF l
<1>3. /\ d \in Seq(S) /\ Len(d) = (IF n + 1 <= l THEN l - (n + 1) + 1 ELSE 0)
      /\ \A i \in 1..(l - (n + 1) + 1) : d[i] = s[n + 1 + i - 1]
  BY <1>1, <1>2, SubSeqProperties
<1> HIDE DEF d
<1>4. /\ l - (n + 1) + 1 = l - n /\ (IF n + 1 <= l THEN l - (n + 1) + 1 ELSE 0) = l - n
      /\ \A i \in 1..(l - n) : n + 1 + i - 1 = n + i
  BY <1>1
<1>5. d \in Seq(S) /\ Len(d) = l - n /\ \A i \in 1..(l - n) : d[i] = s[n + i]
  BY <1>3, <1>4
<1> QED
  BY <1>5 DEF IsDropped, Drop, d, l

(* Min finds the least element. *)
LEMMA MinIs ==
  ASSUME NEW S \in SUBSET Nat, NEW m \in S, \A k \in S : m <= k
  PROVE  Min(S) = m
<1> DEFINE a == Min(S)
<1>1. a \in S /\ \A k \in S : a <= k
  BY DEF Min
<1> HIDE DEF a
<1>2. a = m
  BY <1>1
<1> QED
  BY <1>2 DEF a

(* A line by its places. *)
IsStamped(C, z, x, line) ==
  /\ line \in Seq(C) /\ Len(line) = Len(z) + 2 + Len(x)
  /\ \A i \in 1..Len(z) : line[i] = z[i]
  /\ line[Len(z) + 1] = "t" /\ line[Len(z) + 2] = Sep
  /\ \A i \in 1..Len(x) : line[Len(z) + 2 + i] = x[i]

(* A line with a stamp in it, by its places. *)
LEMMA StampedAt ==
  ASSUME NEW C, {"t", Sep, EndLine} \subseteq C, NEW z \in Seq(C), NEW x \in Seq(C)
  PROVE  IsStamped(C, z, x, z \o (Stamp \o x))
<1> DEFINE y == Stamp \o x
           line == z \o y
           m == Len(z)
           n == Len(x)
<1>1. Stamp \in Seq(C) /\ Len(Stamp) = 2 /\ Stamp[1] = "t" /\ Stamp[2] = Sep
  BY StampLines DEF Stamp
<1>2. m \in Nat /\ n \in Nat
  OBVIOUS
<1>3. /\ y \in Seq(C) /\ Len(y) = Len(Stamp) + n
      /\ \A i \in 1..(Len(Stamp) + n) : y[i] = IF i <= Len(Stamp) THEN Stamp[i] ELSE x[i - Len(Stamp)]
  BY <1>1, ConcatProperties
<1> HIDE DEF y, n
<1>4. /\ Len(y) = 2 + n /\ y[1] = "t" /\ y[2] = Sep
      /\ \A i \in 1..n : y[2 + i] = x[i]
  <2>1. Len(y) = 2 + n /\ \A i \in 1..(2 + n) : y[i] = IF i <= 2 THEN Stamp[i] ELSE x[i - 2]
    BY <1>1, <1>3
  <2>2. y[1] = "t" /\ y[2] = Sep
    BY <1>1, <1>2, <2>1
  <2>3. \A i \in 1..n : 2 + i \in 1..(2 + n) /\ ~(2 + i <= 2) /\ 2 + i - 2 = i
    BY <1>2
  <2>4. \A i \in 1..n : y[2 + i] = x[i]
    BY <1>2, <2>1, <2>3
  <2> QED
    BY <2>1, <2>2, <2>4
<1>5. /\ line \in Seq(C) /\ Len(line) = m + Len(y)
      /\ \A i \in 1..(m + Len(y)) : line[i] = IF i <= m THEN z[i] ELSE y[i - m]
  BY <1>3, ConcatProperties
<1> HIDE DEF line, m
<1>6. /\ Len(line) = m + 2 + n
      /\ \A i \in 1..(m + 2 + n) : line[i] = IF i <= m THEN z[i] ELSE y[i - m]
  <2>1. m + Len(y) = m + 2 + n
    BY <1>2, <1>4
  <2> QED
    BY <1>5, <2>1
<1>7. \A i \in 1..m : line[i] = z[i]
  BY <1>2, <1>6
<1>8. line[m + 1] = "t" /\ line[m + 2] = Sep
  <2>1. /\ m + 1 \in 1..(m + 2 + n) /\ ~(m + 1 <= m) /\ m + 1 - m = 1
        /\ m + 2 \in 1..(m + 2 + n) /\ ~(m + 2 <= m) /\ m + 2 - m = 2
    BY <1>2
  <2> QED
    BY <1>2, <1>4, <1>6, <2>1
<1>9. \A i \in 1..n : line[m + 2 + i] = x[i]
  <2> SUFFICES ASSUME NEW i \in 1..n PROVE line[m + 2 + i] = x[i]
    OBVIOUS
  <2>1. /\ m + 2 + i \in 1..(m + 2 + n) /\ ~(m + 2 + i <= m) /\ m + 2 + i - m = 2 + i
    BY <1>2
  <2> QED
    BY <1>2, <1>4, <1>6, <2>1
<1> QED
  BY <1>5, <1>6, <1>7, <1>8, <1>9 DEF IsStamped, line, y, m, n

(* FileReader::read: of a line, what follows the first separator. *)
LEMMA AfterStamp ==
  ASSUME NEW C, {"t", Sep, EndLine} \subseteq C, NEW z \in Seq(C), NEW x \in Seq(C)
  PROVE  LET m == AfterSeparator(z \o (Stamp \o x)) IN
           /\ m \in Seq(C)
           /\ (\A i \in 1..Len(z) : z[i] # Sep) => m = x
           /\ (\E i \in 1..Len(z) : z[i] = Sep) => \E i \in 1..Len(m) : m[i] = Sep
<1> DEFINE line == z \o (Stamp \o x)
           l == Len(z)
           n == Len(x)
           found == {i \in DOMAIN line : line[i] = Sep}
<1>1. /\ line \in Seq(C) /\ Len(line) = l + 2 + n
      /\ \A i \in 1..l : line[i] = z[i]
      /\ line[l + 1] = "t" /\ line[l + 2] = Sep
      /\ \A i \in 1..n : line[l + 2 + i] = x[i]
  <2>1. IsStamped(C, z, x, line)
    BY StampedAt
  <2> HIDE DEF line
  <2> QED
    BY <2>1 DEF IsStamped
<1>2. l \in Nat /\ n \in Nat
  OBVIOUS
<1> HIDE DEF line, l, n
<1>3. DOMAIN line = 1..(l + 2 + n)
  BY <1>1, LenProperties
<1>4. found \in SUBSET Nat /\ l + 2 \in found
  BY <1>1, <1>2, <1>3
<1>5. PICK k \in found : \A i \in found : k <= i
  BY <1>4, Least
<1>6. Min(found) = k
  BY <1>4, <1>5, MinIs
<1>7. AfterSeparator(line) = Drop(line, k)
  <2>1. found # {}
    BY <1>4
  <2> QED
    BY <1>6, <2>1 DEF AfterSeparator
<1>8. k \in 0..Len(line) /\ k \in 1..(l + 2) /\ line[k] = Sep
  <2>1. k \in 1..(l + 2 + n) /\ k <= l + 2
    BY <1>3, <1>4, <1>5
  <2> QED
    BY <1>1, <1>2, <1>5, <2>1
<1> DEFINE d == Drop(line, k)
<1>9. /\ d \in Seq(C) /\ Len(d) = Len(line) - k
      /\ \A i \in 1..(Len(line) - k) : d[i] = line[k + i]
  <2>1. IsDropped(C, line, k, d)
    BY <1>1, <1>8, DropIs
  <2> HIDE DEF d
  <2> QED
    BY <2>1 DEF IsDropped
<1> HIDE DEF d, found
<1>10. ASSUME \A i \in 1..l : z[i] # Sep PROVE d = x
  <2>1. k = l + 2
    <3>1. "t" # Sep
      BY DEF Sep
    <3>2. ~(k \in 1..l) /\ k # l + 1
      BY <1>1, <1>8, <1>10, <3>1
    <3> QED
      BY <1>2, <1>8, <3>2
  <2>2. Len(line) - k = n
    BY <1>1, <1>2, <2>1
  <2>3. \A i \in 1..n : d[i] = x[i]
    BY <1>1, <1>9, <2>1, <2>2
  <2> QED
    BY <1>9, <2>2, <2>3, SeqEqual DEF n
<1>11. ASSUME NEW j \in 1..l, z[j] = Sep PROVE \E i \in 1..Len(d) : d[i] = Sep
  <2>1. j \in found /\ j <= l
    BY <1>1, <1>2, <1>3, <1>11 DEF found
  <2>2. k <= j /\ k \in Nat /\ j \in Nat
    BY <1>2, <1>5, <1>8, <2>1
  <2> DEFINE i == l + 2 - k
  <2>3. i \in 1..(Len(line) - k) /\ k + i = l + 2
    BY <1>1, <1>2, <2>1, <2>2
  <2> HIDE DEF i
  <2>4. d[i] = Sep /\ i \in 1..Len(d)
    BY <1>1, <1>9, <2>3
  <2> QED
    BY <2>4
<1> QED
  BY <1>7, <1>9, <1>10, <1>11 DEF line, d, l

(* The messages FileReader::read collects, one for each line. *)
LEMMA MessagesType ==
  ASSUME NEW C, NEW lines \in Seq(Seq(C))
  PROVE  /\ Messages(lines) \in Seq(Seq(C)) /\ Len(Messages(lines)) = Len(lines)
         /\ \A i \in 1..Len(lines) : Messages(lines)[i] = AfterSeparator(lines[i])
<1> DEFINE n == Len(lines)
           m == [i \in 1..n |-> AfterSeparator(lines[i])]
<1>1. n \in Nat /\ DOMAIN lines = 1..n
  BY LenProperties
<1>2. ASSUME NEW line \in Seq(C) PROVE AfterSeparator(line) \in Seq(C)
  <2> DEFINE found == {i \in DOMAIN line : line[i] = Sep}
  <2>1. CASE found = {}
    BY <2>1, DropType DEF AfterSeparator
  <2>2. CASE found # {}
    <3>1. found \in SUBSET Nat
      BY LenProperties
    <3>2. PICK k \in found : \A i \in found : k <= i
      BY <2>2, <3>1, Least
    <3>3. Min(found) = k /\ k \in Nat
      BY <3>1, <3>2, MinIs
    <3>4. AfterSeparator(line) = Drop(line, k)
      BY <2>2, <3>3 DEF AfterSeparator
    <3> QED
      BY <3>3, <3>4, DropType
  <2> QED
    BY <2>1, <2>2
<1>3. \A i \in 1..n : AfterSeparator(lines[i]) \in Seq(C)
  BY <1>1, <1>2, ElementOfSeq
<1> DEFINE IsSeq(q) == q \in Seq(Seq(C)) /\ Len(q) = n /\ \A i \in 1..n : q[i] = AfterSeparator(lines[i])
<1>4. m \in Seq(Seq(C)) /\ Len(m) = n /\ \A i \in 1..n : m[i] = AfterSeparator(lines[i])
  <2>1. m \in [1..n -> Seq(C)]
    BY <1>3
  <2>2. \A i \in 1..n : m[i] = AfterSeparator(lines[i])
    OBVIOUS
  <2> HIDE DEF m, n
  <2>3. m \in Seq(Seq(C)) /\ DOMAIN m = 1..n
    BY <1>1, <2>1, IsASeq
  <2> QED
    BY <1>1, <2>2, <2>3, LenProperties
<1>5. Messages(lines) = m
  BY <1>1 DEF Messages
<1> HIDE DEF m, n
<1> QED
  BY <1>4, <1>5 DEF n

(* The invariants of the log imply ReadBack. *)
LEMMA ReadsBack == LogTypeOK /\ FileInv => ReadBack
<1> SUFFICES ASSUME LogTypeOK, FileInv, subscriber # "writing", OneLine PROVE ReadBack
  BY DEF ReadBack
<1> DEFINE lines == Lines(log)
           read == Messages(lines)
           n == Len(expected)
<1>1. Kept(log, expected, received)
  BY DEF FileInv
<1>2. /\ lines \in Seq(Seq(Characters)) /\ Len(lines) = n /\ expected \in Seq(Kinds)
      /\ \A i \in 1..n : expected[i] # Damaged =>
           IsLine(expected[i]) /\ lines[i] = Stamp \o Text(expected[i])
  BY <1>1, LinesType DEF Kept
<1> HIDE DEF lines
<1>3. Len(read) = n /\ \A i \in 1..n : read[i] = AfterSeparator(lines[i])
  BY <1>2, MessagesType
<1>4. DOMAIN expected = 1..n
  BY <1>2, LenProperties
<1>5. ASSUME NEW i \in 1..n, expected[i] # Damaged PROVE read[i] = Text(expected[i])
  <2> DEFINE x == Text(expected[i])
             y == Stamp \o x
  <2>1. expected[i] \in Seq(Characters)
    <3>1. expected[i] \in Kinds
      BY <1>2, ElementOfSeq
    <3> QED
      BY <1>5, <3>1 DEF Kinds
  <2>2. x \in Seq(Characters)
    BY <1>2, <1>5, <2>1, IsLineType
  <2>3. <<>> \in Seq(Characters) /\ <<>> \o y = y /\ \A j \in 1..Len(<<>>) : <<>>[j] # Sep
    <3>1. y \in Seq(Characters)
      BY <2>2, StampLines, CharactersHas, ConcatProperties
    <3> HIDE DEF y
    <3> QED
      BY <3>1, EmptySeq, ConcatEmptySeq
  <2>4. AfterSeparator(<<>> \o y) = x
    BY <2>2, <2>3, AfterStamp, CharactersHas
  <2> QED
    BY <1>2, <1>3, <1>5, <2>3, <2>4
<1> HIDE DEF read, n
<1>6. Len(read) = n /\ \A i \in DOMAIN expected : expected[i] # Damaged => read[i] = Text(expected[i])
  BY <1>3, <1>4, <1>5
<1> QED
  BY <1>6 DEF ReadBack, read, lines, n

-----------------------------------------------------------------------------
(* The messages, joined. *)

(* One text more: what FlattenSeq makes of it. *)
JoinOne(joined, texts, n) == IF n = 1 THEN texts[n] ELSE joined \o texts[n]

(* What the recursion of FlattenSeq defines on 1..k. *)
Joins(f, texts, k) ==
  f = [n \in 1..k |-> IF n = 1 THEN texts[n] ELSE f[n - 1] \o texts[n]]

(* A function the recursion defines, at a place. *)
LEMMA JoinsAt ==
  ASSUME NEW f, NEW texts, NEW k \in Nat, Joins(f, texts, k), NEW n \in 1..k
  PROVE  f[n] = JoinOne(f[n - 1], texts, n)
  BY Zenon DEF Joins, JoinOne

(* The recursion defines a function. *)
LEMMA JoinsExists ==
  ASSUME NEW texts, NEW k \in Nat
  PROVE  \E f : Joins(f, texts, k)
<1> DEFINE S == {n \in Nat : \E f : Joins(f, texts, n)}
<1>1. 0 \in S
  <2> DEFINE f == [n \in 1..0 |-> <<>>]
  <2>1. f = [n \in 1..0 |-> IF n = 1 THEN texts[n] ELSE f[n - 1] \o texts[n]]
    OBVIOUS
  <2> QED
    BY <2>1 DEF Joins
<1>2. ASSUME NEW n \in S PROVE n + 1 \in S
  <2>1. n \in Nat
    OBVIOUS
  <2>2. PICK f : Joins(f, texts, n)
    OBVIOUS
  <2> DEFINE e == JoinOne(f[n], texts, n + 1)
             g == [i \in 1..(n + 1) |-> IF i = n + 1 THEN e ELSE f[i]]
  <2>3. ASSUME NEW i \in 1..(n + 1)
        PROVE  g[i] = JoinOne(g[i - 1], texts, i)
    <3>1. CASE i = n + 1
      <4>1. g[i] = e
        BY <3>1
      <4>2. CASE n = 0
        BY <3>1, <4>1, <4>2 DEF JoinOne
      <4>3. CASE n # 0
        <5>1. g[i - 1] = f[n]
          BY <2>1, <3>1, <4>3
        <5> QED
          BY <3>1, <4>1, <5>1
      <4> QED
        BY <4>2, <4>3
    <3>2. CASE i # n + 1
      <4>1. i \in 1..n /\ g[i] = f[i] /\ (i # 1 => g[i - 1] = f[i - 1])
        BY <2>1, <3>2
      <4>2. f[i] = JoinOne(f[i - 1], texts, i)
        BY <2>1, <2>2, <4>1, JoinsAt
      <4> QED
        BY <4>1, <4>2 DEF JoinOne
    <3> QED
      BY <3>1, <3>2
  <2>4. g = [i \in 1..(n + 1) |-> g[i]]
    OBVIOUS
  <2> HIDE DEF g
  <2>5. Joins(g, texts, n + 1)
    BY <2>3, <2>4, Zenon DEF Joins, JoinOne
  <2> QED
    BY <2>1, <2>5
<1>3. S = Nat
  <2> HIDE DEF S
  <2>1. S \in SUBSET Nat
    BY DEF S
  <2> QED
    BY <1>1, <1>2, <2>1, SetInduction
<1> QED
  BY <1>3

(* Sequences that begin alike are joined alike. *)
LEMMA JoinsUnique ==
  ASSUME NEW s, NEW t, NEW k \in Nat \ {0}, NEW n \in {k, k + 1}, NEW f, NEW g,
         Joins(f, s, k), Joins(g, t, n),
         \A i \in 1..k : s[i] = t[i]
  PROVE  f[k] = g[k]
<1> DEFINE S == {i \in Nat : i \in 1..k => f[i] = g[i]}
<1>1. 0 \in S
  OBVIOUS
<1>2. ASSUME NEW i \in S PROVE i + 1 \in S
  <2> SUFFICES ASSUME i + 1 \in 1..k PROVE f[i + 1] = g[i + 1]
    OBVIOUS
  <2>1. /\ i \in Nat /\ n \in Nat /\ i + 1 \in 1..n /\ i + 1 - 1 = i
        /\ (i + 1 # 1 => i \in 1..k)
    OBVIOUS
  <2>2. f[i + 1] = JoinOne(f[i], s, i + 1) /\ g[i + 1] = JoinOne(g[i], t, i + 1)
    <3>1. f[i + 1] = JoinOne(f[i + 1 - 1], s, i + 1)
      BY JoinsAt
    <3>2. g[i + 1] = JoinOne(g[i + 1 - 1], t, i + 1)
      BY <2>1, JoinsAt
    <3> QED
      BY <2>1, <3>1, <3>2
  <2>3. i + 1 # 1 => f[i] = g[i]
    BY <2>1
  <2>4. s[i + 1] = t[i + 1]
    BY <2>1
  <2>5. JoinOne(f[i], s, i + 1) = JoinOne(g[i], t, i + 1)
    BY <2>3, <2>4 DEF JoinOne
  <2> QED
    BY <2>2, <2>5
<1>3. S = Nat
  <2> HIDE DEF S
  <2>1. S \in SUBSET Nat
    BY DEF S
  <2> QED
    BY <1>1, <1>2, <2>1, SetInduction
<1>4. k \in S
  BY <1>3
<1> QED
  BY <1>4

(* FlattenSeq is what any function that satisfies the recursion ends with. *)
LEMMA FlattenIs ==
  ASSUME NEW C, NEW s \in Seq(C), s # <<>>, NEW f, Joins(f, s, Len(s))
  PROVE  FlattenSeq(s) = f[Len(s)]
<1> DEFINE g == CHOOSE h : Joins(h, s, Len(s))
<1>1. Len(s) \in Nat \ {0}
  OBVIOUS
<1>2. Joins(g, s, Len(s))
  OBVIOUS
<1>3. FlattenSeq(s) = g[Len(s)]
  <2>1. Len(s) # 0
    BY <1>1
  <2> QED
    BY <2>1, Zenon DEF FlattenSeq, Joins
<1> HIDE DEF g
<1>4. f[Len(s)] = g[Len(s)]
  BY <1>1, <1>2, JoinsUnique
<1> QED
  BY <1>3, <1>4

(* FlattenSeq by its steps: a text more at the end. *)
LEMMA FlattenAppend ==
  ASSUME NEW C, NEW s \in Seq(Seq(C)), NEW e \in Seq(C)
  PROVE  FlattenSeq(Append(s, e)) = IF s = <<>> THEN e ELSE FlattenSeq(s) \o e
<1> DEFINE n == Len(s)
           u == Append(s, e)
<1>1. /\ n \in Nat /\ u \in Seq(Seq(C)) /\ Len(u) = n + 1 /\ u[n + 1] = e /\ u # <<>>
      /\ \A i \in 1..n : u[i] = s[i]
  BY OneMore
<1> HIDE DEF u
<1>2. n + 1 \in Nat /\ n + 1 \in 1..(n + 1) /\ n + 1 - 1 = n /\ \A i \in 1..n : s[i] = u[i]
  BY <1>1
<1>3. PICK g : Joins(g, u, n + 1)
  BY <1>2, JoinsExists, Zenon
<1>4. FlattenSeq(u) = g[n + 1]
  BY <1>1, <1>3, FlattenIs
<1>5. g[n + 1] = JoinOne(g[n], u, n + 1)
  <2>1. g[n + 1] = JoinOne(g[n + 1 - 1], u, n + 1)
    BY <1>2, <1>3, JoinsAt
  <2> QED
    BY <1>2, <2>1
<1>6. CASE s = <<>>
  <2>1. n + 1 = 1
    BY <1>6
  <2> QED
    BY <1>1, <1>4, <1>5, <1>6, <2>1 DEF JoinOne, u
<1>7. CASE s # <<>>
  <2>1. n \in Nat \ {0}
    BY <1>7
  <2>2. PICK f : Joins(f, s, n)
    BY <2>1, JoinsExists
  <2>3. FlattenSeq(s) = f[n]
    BY <1>7, <2>2, FlattenIs
  <2>5. n + 1 # 1 /\ n + 1 \in {n, n + 1}
    BY <2>1
  <2> HIDE DEF n
  <2>4. f[n] = g[n]
    BY <1>2, <1>3, <2>1, <2>2, <2>5, JoinsUnique
  <2> QED
    BY <1>1, <1>4, <1>5, <1>7, <2>3, <2>4, <2>5 DEF JoinOne, u
<1> QED
  BY <1>6, <1>7

(* The type of FlattenSeq. *)
LEMMA FlattenType ==
  ASSUME NEW C
  PROVE  \A s \in Seq(Seq(C)) : FlattenSeq(s) \in Seq(C)
<1> DEFINE S == {s \in Seq(Seq(C)) : FlattenSeq(s) \in Seq(C)}
<1>1. <<>> \in S
  <2>1. <<>> \in Seq(Seq(C)) /\ <<>> \in Seq(C) /\ Len(<<>>) = 0
    BY EmptySeq
  <2>2. FlattenSeq(<<>>) = <<>>
    BY <2>1 DEF FlattenSeq
  <2> QED
    BY <2>1, <2>2
<1>2. ASSUME NEW s \in S, NEW e \in Seq(C) PROVE Append(s, e) \in S
  <2>1. Append(s, e) \in Seq(Seq(C))
    BY OneMore
  <2>2. FlattenSeq(Append(s, e)) = IF s = <<>> THEN e ELSE FlattenSeq(s) \o e
    BY FlattenAppend
  <2>3. FlattenSeq(s) \o e \in Seq(C)
    BY ConcatProperties
  <2>4. FlattenSeq(Append(s, e)) \in Seq(C)
    BY <2>2, <2>3
  <2> QED
    BY <2>1, <2>4
<1>3. S = Seq(Seq(C))
  <2> HIDE DEF S
  <2>1. S \in SUBSET Seq(Seq(C))
    BY DEF S
  <2> QED
    BY <1>1, <1>2, <2>1, SeqInduction
<1> QED
  BY <1>3

(* Of a single text, FlattenSeq is that text. *)
LEMMA FlattenOne ==
  ASSUME NEW C, NEW s \in Seq(Seq(C)), Len(s) = 1
  PROVE  FlattenSeq(s) = s[1]
<1>0. s # <<>>
  OBVIOUS
<1>1. PICK f \in Seq(Seq(C)), e \in Seq(C) : s = Append(f, e)
  BY <1>0, SequenceEmptyOrAppend
<1>2. f = <<>> /\ s[1] = e
  <2> DEFINE u == Append(f, e)
  <2>1. Len(f) \in Nat /\ Len(u) = Len(f) + 1 /\ (f = <<>> => u[1] = e)
    BY OneMore
  <2> HIDE DEF u
  <2>2. u = s /\ Len(u) = 1
    <3>1. u = s
      BY <1>1, Zenon DEF u
    <3> QED
      BY <3>1
  <2>3. Len(f) = 0
    <3> DEFINE l == Len(f)
    <3>1. l \in Nat /\ 1 = l + 1
      BY <2>1, <2>2
    <3> HIDE DEF l
    <3>2. l = 0
      BY <3>1
    <3> QED
      BY <3>2 DEF l
  <2>4. f = <<>>
    BY <2>3
  <2> QED
    BY <2>1, <2>2, <2>4
<1> QED
  BY <1>1, <1>2, FlattenAppend

-----------------------------------------------------------------------------
(* FileReader::getLastMessage: what follows the last bar but one. *)

(* Every nonempty set of bounded naturals has a greatest element. *)
LEMMA Greatest ==
  ASSUME NEW n \in Nat, NEW S \in SUBSET (0..n), S # {}
  PROVE  \E m \in S : \A k \in S : k <= m
<1> DEFINE T == {i \in 0..n : n - i \in S}
<1>1. T \in SUBSET Nat
  OBVIOUS
<1>2. T # {}
  <2>1. PICK k \in S : TRUE
    OBVIOUS
  <2>2. k \in 0..n /\ n - k \in 0..n /\ n - (n - k) = k
    OBVIOUS
  <2>3. n - k \in T
    BY <2>1, <2>2
  <2> QED
    BY <2>3
<1>3. PICK i \in T : \A k \in T : i <= k
  <2> HIDE DEF T
  <2> QED
    BY <1>1, <1>2, Least
<1>4. n - i \in S
  BY <1>3
<1>5. ASSUME NEW k \in S PROVE k <= n - i
  <2>1. k \in 0..n /\ n - k \in 0..n /\ n - (n - k) = k
    OBVIOUS
  <2>2. n - k \in T
    BY <2>1
  <2>3. i <= n - k /\ i \in 0..n
    BY <1>3, <2>2
  <2> QED
    BY <2>1, <2>3
<1> QED
  BY <1>4, <1>5

(* A concatenation by its places. *)
IsConcat(C, s, t, u) ==
  /\ u \in Seq(C) /\ Len(u) = Len(s) + Len(t)
  /\ \A i \in 1..Len(s) : u[i] = s[i]
  /\ \A i \in 1..Len(t) : u[Len(s) + i] = t[i]

(* Concatenation satisfies it. *)
LEMMA ConcatAt ==
  ASSUME NEW C, NEW s \in Seq(C), NEW t \in Seq(C)
  PROVE  IsConcat(C, s, t, s \o t)
<1> DEFINE m == Len(s)
           n == Len(t)
           u == s \o t
<1>1. /\ u \in Seq(C) /\ Len(u) = m + n
      /\ \A i \in 1..(m + n) : u[i] = IF i <= m THEN s[i] ELSE t[i - m]
  BY ConcatProperties
<1>2. m \in Nat /\ n \in Nat
  OBVIOUS
<1> HIDE DEF u, m, n
<1>3. \A i \in 1..m : u[i] = s[i]
  BY <1>1, <1>2
<1>4. ASSUME NEW i \in 1..n PROVE u[m + i] = t[i]
  <2> DEFINE k == m + i
  <2>1. k \in 1..(m + n) /\ ~(k <= m) /\ k - m = i
    BY <1>2
  <2> HIDE DEF k
  <2>2. u[k] = t[k - m]
    BY <1>1, <2>1
  <2> QED
    BY <2>1, <2>2 DEF k
<1> QED
  BY <1>1, <1>3, <1>4 DEF IsConcat, u, m, n

(* What follows a place behind the first text. *)
LEMMA DropBehind ==
  ASSUME NEW C, NEW s \in Seq(C), NEW t \in Seq(C), NEW e \in 0..Len(t)
  PROVE  Drop(s \o t, Len(s) + e) = Drop(t, e)
<1> DEFINE m == Len(s)
           n == Len(t)
           u == s \o t
           d == Drop(u, m + e)
           f == Drop(t, e)
<1>1. /\ u \in Seq(C) /\ Len(u) = m + n
      /\ \A i \in 1..n : u[m + i] = t[i]
  <2>1. IsConcat(C, s, t, u)
    BY ConcatAt
  <2> HIDE DEF u
  <2> QED
    BY <2>1 DEF IsConcat
<1>2. m \in Nat /\ n \in Nat /\ e \in Nat /\ e <= n
  OBVIOUS
<1>3. f \in Seq(C) /\ Len(f) = n - e /\ \A i \in 1..(n - e) : f[i] = t[e + i]
  <2>1. IsDropped(C, t, e, f)
    BY DropIs
  <2> HIDE DEF f
  <2> QED
    BY <2>1 DEF IsDropped
<1> HIDE DEF u, m, n, f
<1>4. /\ d \in Seq(C) /\ Len(d) = Len(u) - (m + e)
      /\ \A i \in 1..(Len(u) - (m + e)) : d[i] = u[m + e + i]
  <2>1. m + e \in 0..Len(u)
    BY <1>1, <1>2
  <2>2. IsDropped(C, u, m + e, d)
    BY <1>1, <2>1, DropIs
  <2> HIDE DEF d
  <2> QED
    BY <2>2 DEF IsDropped
<1> HIDE DEF d
<1>5. Len(u) - (m + e) = n - e
  BY <1>1, <1>2
<1>6. ASSUME NEW i \in 1..(n - e) PROVE d[i] = f[i]
  <2> DEFINE k == e + i
  <2>1. k \in 1..n /\ m + e + i = m + k
    BY <1>2
  <2>2. d[i] = u[m + e + i] /\ f[i] = t[k]
    BY <1>3, <1>4, <1>5
  <2> HIDE DEF k
  <2> QED
    BY <1>1, <2>1, <2>2
<1>7. d = f
  BY <1>3, <1>4, <1>5, <1>6, SeqEqual
<1> QED
  BY <1>7 DEF d, u, m, f

(* What follows the first of two texts is the second. *)
LEMMA DropConcat ==
  ASSUME NEW C, NEW s \in Seq(C), NEW t \in Seq(C)
  PROVE  Drop(s \o t, Len(s)) = t
<1>1. Drop(s \o t, Len(s) + 0) = Drop(t, 0)
  BY DropBehind
<1>2. Len(s) + 0 = Len(s)
  OBVIOUS
<1>3. Drop(t, 0) = t
  BY SubSeqFull DEF Drop
<1> QED
  BY <1>1, <1>2, <1>3

(* The bars are finitely many places of the text. *)
LEMMA BarsAre ==
  ASSUME NEW C, NEW s \in Seq(C)
  PROVE  /\ Bars(s) = {i \in 1..Len(s) : s[i] = "|"}
         /\ Bars(s) \subseteq 1..Len(s) /\ IsFiniteSet(Bars(s))
<1>1. DOMAIN s = 1..Len(s) /\ Len(s) \in Nat
  BY LenProperties
<1>2. Bars(s) = {i \in 1..Len(s) : s[i] = "|"}
  BY <1>1 DEF Bars
<1>3. IsFiniteSet(1..Len(s))
  BY <1>1, FS_Interval
<1> QED
  BY <1>2, <1>3, FS_Subset

(* The bars of two texts are those of each, the second's moved. *)
LEMMA BarsConcat ==
  ASSUME NEW C, NEW s \in Seq(C), NEW t \in Seq(C), NEW j \in Nat
  PROVE  j \in Bars(s \o t) <=> j \in Bars(s) \/ j - Len(s) \in Bars(t)
<1> DEFINE m == Len(s)
           n == Len(t)
           u == s \o t
<1>1. /\ u \in Seq(C) /\ Len(u) = m + n
      /\ \A i \in 1..m : u[i] = s[i]
      /\ \A i \in 1..n : u[m + i] = t[i]
  <2>1. IsConcat(C, s, t, u)
    BY ConcatAt
  <2> HIDE DEF u
  <2> QED
    BY <2>1 DEF IsConcat
<1>2. m \in Nat /\ n \in Nat
  OBVIOUS
<1>3. Bars(s) = {i \in 1..m : s[i] = "|"} /\ Bars(t) = {i \in 1..n : t[i] = "|"}
  BY BarsAre
<1> HIDE DEF u, m, n
<1>4. Bars(u) = {i \in 1..(m + n) : u[i] = "|"}
  BY <1>1, BarsAre
<1>5. ASSUME j <= m PROVE j \in Bars(u) <=> j \in Bars(s) \/ j - m \in Bars(t)
  <2>1. (j \in 1..(m + n) <=> j \in 1..m) /\ ~(j - m \in 1..n)
    BY <1>2, <1>5
  <2>2. ~(j - m \in Bars(t))
    BY <1>3, <2>1
  <2> QED
    BY <1>1, <1>3, <1>4, <2>1, <2>2
<1>6. ASSUME ~(j <= m) PROVE j \in Bars(u) <=> j \in Bars(s) \/ j - m \in Bars(t)
  <2> DEFINE k == j - m
  <2>1. k \in Nat \ {0} /\ m + k = j
    BY <1>2, <1>6
  <2>2. j \in 1..(m + n) <=> k \in 1..n
    BY <1>2, <2>1
  <2>3. j \notin 1..m
    BY <1>2, <1>6
  <2> HIDE DEF k
  <2>4. k \in 1..n => u[j] = t[k]
    BY <1>1, <2>1
  <2>a. j \notin Bars(s)
    BY <1>3, <2>3
  <2>b. k \in Bars(t) <=> k \in 1..n /\ t[k] = "|"
    BY <1>3
  <2>c. j \in Bars(u) <=> k \in 1..n /\ u[j] = "|"
    BY <1>4, <2>2
  <2>5. j \in Bars(u) <=> j \in Bars(s) \/ k \in Bars(t)
    BY <2>a, <2>b, <2>c, <2>4
  <2> QED
    BY <2>5 DEF k
<1>7. j \in Bars(u) <=> j \in Bars(s) \/ j - m \in Bars(t)
  BY <1>5, <1>6
<1> QED
  BY <1>7 DEF u, m

(* The last bar but one. *)
LEMMA Penultimate ==
  ASSUME NEW C, NEW text \in Seq(C), NEW i \in Bars(text), NEW b \in Bars(text),
         i < b, \A j \in Bars(text) : j <= i \/ j = b
  PROVE  GetLastMessage(text) = Drop(text, i + 1)
<1> DEFINE B == Bars(text)
           n == Cardinality(B)
           Upto(k) == {j \in B : j <= k}
<1>1. B \subseteq Nat /\ IsFiniteSet(B) /\ n \in Nat
  <2>1. B \subseteq 1..Len(text) /\ IsFiniteSet(B) /\ Len(text) \in Nat
    BY BarsAre
  <2> HIDE DEF B
  <2> QED
    BY <2>1, FS_CardinalityType
<1>2. i \in B /\ b \in B /\ i \in Nat /\ b \in Nat
  BY <1>1
<1>3. \A j \in B : j <= i \/ j = b
  OBVIOUS
<1> HIDE DEF B, n
<1>4. Upto(i) = B \ {b}
  <2>1. \A j \in B : j \in Nat /\ (j <= i <=> j # b)
    BY <1>1, <1>2, <1>3
  <2> QED
    BY <2>1
<1>5. IsFiniteSet(Upto(i)) /\ Cardinality(Upto(i)) = n - 1
  <2>1. IsFiniteSet(B \ {b}) /\ Cardinality(B \ {b}) = n - 1
    BY <1>1, <1>2, FS_RemoveElement DEF n
  <2> HIDE DEF Upto
  <2> QED
    BY <1>4, <2>1
<1>6. Cardinality(Upto(i) \ {i}) = n - 2 /\ IsFiniteSet(Upto(i) \ {i})
  <2>1. i \in Upto(i)
    BY <1>2
  <2> HIDE DEF Upto
  <2>2. Cardinality(Upto(i) \ {i}) = n - 1 - 1 /\ IsFiniteSet(Upto(i) \ {i})
    BY <1>5, <2>1, FS_RemoveElement
  <2> QED
    BY <1>1, <2>2
<1>7. n > 1
  <2>1. Cardinality(Upto(i) \ {i}) \in Nat
    BY <1>6, FS_CardinalityType
  <2> HIDE DEF Upto
  <2> QED
    BY <1>1, <1>6, <2>1
<1>8. ASSUME NEW k \in B, Cardinality(Upto(k)) = n - 1 PROVE k = i
  <2>1. CASE k = b
    <3>0. \A j \in B : j <= k
      BY <1>1, <1>2, <1>3, <2>1
    <3>1. Upto(k) = B
      BY <3>0
    <3> HIDE DEF Upto
    <3> QED
      BY <1>1, <1>8, <3>1 DEF n
  <2>2. CASE k # b /\ k # i
    <3>1. k \in Nat /\ k < i
      BY <1>1, <1>2, <1>3, <2>2
    <3>2. Upto(k) \subseteq Upto(i) \ {i}
      <4>1. \A j \in B : j \in Nat /\ (j <= k => j <= i /\ j # i)
        BY <1>1, <1>2, <3>1
      <4> QED
        BY <4>1
    <3> HIDE DEF Upto
    <3>3. Cardinality(Upto(k)) <= n - 2
      BY <1>6, <3>2, FS_Subset
    <3> QED
      BY <1>1, <1>8, <3>3
  <2> QED
    BY <2>1, <2>2
<1>9. NthBar(text, n - 1) = i
  <2> DEFINE h == CHOOSE k \in B : Cardinality(Upto(k)) = n - 1
  <2>1. h \in B /\ Cardinality(Upto(h)) = n - 1
    BY <1>2, <1>5
  <2>2. h = i
    BY <1>8, <2>1
  <2>3. NthBar(text, n - 1) = h
    BY Zenon DEF NthBar, B, Upto
  <2> QED
    BY <2>2, <2>3
<1>10. GetLastMessage(text) = Drop(text, NthBar(text, n - 1) + 1)
  BY <1>7 DEF GetLastMessage, n, B
<1> QED
  BY <1>9, <1>10

(* No bar, or only one. *)
LEMMA OneBar ==
  ASSUME NEW C, NEW text \in Seq(C), NEW b, Bars(text) \subseteq {b}
  PROVE  GetLastMessage(text) = text
<1> DEFINE n == Cardinality(Bars(text))
<1>1. n <= 1
  <2>1. IsFiniteSet({b}) /\ Cardinality({b}) = 1
    BY FS_Singleton
  <2>2. Cardinality(Bars(text)) <= Cardinality({b})
    BY <2>1, FS_Subset
  <2> QED
    BY <2>1, <2>2
<1>2. n \in Nat
  BY BarsAre, FS_CardinalityType
<1>3. ~(n > 1)
  BY <1>1, <1>2
<1> QED
  BY <1>3 DEF GetLastMessage

(* What follows each message. *)
Blank == " "

(* The mark, with its blanks named. *)
Mark == <<Blank, "|", Blank>>

(* The mark has its bar in the middle. *)
LEMMA MarkIs ==
  ASSUME NEW C, {Blank, "|"} \subseteq C
  PROVE  Mark \in Seq(C) /\ Len(Mark) = 3 /\ Bars(Mark) = {2}
<1> DEFINE k == Mark
<1>a. Blank # "|"
  BY Zenon DEF Blank
<1>1. k \in Seq(C) /\ Len(k) = 3 /\ k[1] # "|" /\ k[2] = "|" /\ k[3] # "|"
  BY <1>a DEF Mark
<1> HIDE DEF k
<1>2. Bars(k) = {i \in 1..3 : k[i] = "|"}
  BY <1>1, BarsAre
<1>3. Bars(k) = {2}
  BY <1>1, <1>2
<1> QED
  BY <1>1, <1>3 DEF k

(* A message and its mark have the message's bars and one more. *)
LEMMA MarkedBars ==
  ASSUME NEW C, {Blank, "|"} \subseteq C, NEW m \in Seq(C)
  PROVE  /\ m \o Mark \in Seq(C) /\ Len(m \o Mark) = Len(m) + 3
         /\ \A j \in Nat : j \in Bars(m \o Mark) <=> j \in Bars(m) \/ j = Len(m) + 2
<1> DEFINE y == m \o Mark
           l == Len(m)
<1>1. Mark \in Seq(C) /\ Len(Mark) = 3 /\ Bars(Mark) = {2}
  BY MarkIs
<1>2. y \in Seq(C) /\ Len(y) = l + 3
  <2>1. y \in Seq(C) /\ Len(y) = l + Len(Mark)
    BY <1>1, ConcatProperties
  <2> HIDE DEF y
  <2> QED
    BY <1>1, <2>1
<1>3. \A j \in Nat : j \in Bars(y) <=> j \in Bars(m) \/ j - l \in Bars(Mark)
  BY <1>1, BarsConcat
<1>4. l \in Nat
  OBVIOUS
<1> HIDE DEF y, l
<1>5. ASSUME NEW j \in Nat PROVE j \in Bars(y) <=> j \in Bars(m) \/ j = l + 2
  <2>1. j \in Bars(y) <=> j \in Bars(m) \/ j - l = 2
    BY <1>1, <1>3
  <2>2. j - l = 2 <=> j = l + 2
    BY <1>4
  <2> QED
    BY <2>1, <2>2
<1> QED
  BY <1>2, <1>5 DEF y, l

(* getLastMessage finds the last message, whatever is before it. *)
LEMMA LastMessage ==
  ASSUME NEW C, {Blank, "|"} \subseteq C, NEW x \in Seq(C), NEW m \in Seq(C)
  PROVE  GetLastMessage((x \o Mark) \o (m \o Mark)) = GetLastMessage(m \o Mark)
<1> DEFINE w == x \o Mark
           y == m \o Mark
           text == w \o y
           p == Len(w)
           l == Len(m)
<1>1. /\ w \in Seq(C) /\ p = Len(x) + 3
      /\ \A j \in Nat : j \in Bars(w) <=> j \in Bars(x) \/ j = Len(x) + 2
  BY MarkedBars
<1>2. /\ y \in Seq(C) /\ Len(y) = l + 3
      /\ \A j \in Nat : j \in Bars(y) <=> j \in Bars(m) \/ j = l + 2
  BY MarkedBars
<1>3. l \in Nat /\ Len(x) \in Nat
  OBVIOUS
<1>4. /\ Bars(m) \subseteq 1..l /\ Bars(x) \subseteq 1..Len(x)
      /\ Bars(y) \subseteq Nat /\ Bars(w) \subseteq Nat
  <2>1. Bars(y) \subseteq 1..Len(y) /\ Bars(w) \subseteq 1..Len(w)
    BY <1>1, <1>2, BarsAre
  <2>2. Bars(m) \subseteq 1..l /\ Bars(x) \subseteq 1..Len(x)
    BY BarsAre
  <2> QED
    BY <2>1, <2>2
<1> HIDE DEF w, y, l
<1>5. text \in Seq(C) /\ Bars(text) \subseteq Nat
  <2>1. text \in Seq(C)
    BY <1>1, <1>2, ConcatProperties
  <2> HIDE DEF text
  <2> QED
    BY <2>1, BarsAre
<1>6. \A j \in Nat : j \in Bars(text) <=> j \in Bars(w) \/ j - p \in Bars(y)
  BY <1>1, <1>2, BarsConcat
<1>7. p \in Nat /\ p = Len(x) + 3
  BY <1>1, <1>3
<1>8. \A j \in Bars(w) : j <= p - 1
  BY <1>1, <1>3, <1>4, <1>7
<1>9. p - 1 \in Bars(w)
  BY <1>1, <1>3, <1>7
<1> DEFINE b == l + 2
<1>10. b \in Bars(y) /\ b \in Nat
  BY <1>2, <1>3
<1>11. \A j \in Bars(y) : j <= l \/ j = b
  BY <1>2, <1>3, <1>4
<1> HIDE DEF text, p, b
<1>12. p + b \in Bars(text)
  <2> DEFINE k == p + b
  <2>1. k \in Nat /\ k - p = b
    BY <1>7, <1>10
  <2> HIDE DEF k
  <2>2. k \in Bars(text)
    BY <1>6, <1>10, <2>1
  <2> QED
    BY <2>2 DEF k
<1>13. ASSUME Bars(m) # {} PROVE GetLastMessage(text) = GetLastMessage(y)
  <2>1. PICK i \in Bars(m) : \A k \in Bars(m) : k <= i
    <3>1. Bars(m) \subseteq 0..l
      BY <1>3, <1>4
    <3> QED
      BY <1>3, <1>13, <3>1, Greatest
  <2>2. i \in Nat /\ i <= l /\ i \in Bars(y) /\ i < b
    BY <1>2, <1>3, <1>4, <2>1 DEF b
  <2>3. \A j \in Bars(y) : j <= i \/ j = b
    BY <1>2, <1>4, <2>1 DEF b
  <2>4. GetLastMessage(y) = Drop(y, i + 1)
    BY <1>2, <1>10, <2>2, <2>3, Penultimate
  <2> DEFINE k == p + i
  <2>5. k \in Nat /\ k - p = i /\ k < p + b
    BY <1>7, <1>10, <2>2
  <2>6. \A j \in Bars(text) : j <= k \/ j = p + b
    <3> SUFFICES ASSUME NEW j \in Bars(text) PROVE j <= k \/ j = p + b
      OBVIOUS
    <3>1. j \in Nat /\ (j \in Bars(w) \/ j - p \in Bars(y))
      BY <1>5, <1>6
    <3>2. CASE j \in Bars(w)
      BY <1>7, <1>8, <2>2, <3>1, <3>2
    <3>3. CASE j - p \in Bars(y)
      <4>1. j - p <= i \/ j - p = b
        BY <2>3, <3>3
      <4> QED
        BY <1>7, <1>10, <2>2, <3>1, <4>1
    <3> QED
      BY <3>1, <3>2, <3>3
  <2> HIDE DEF k
  <2>7. k \in Bars(text)
    BY <1>6, <2>2, <2>5
  <2>8. GetLastMessage(text) = Drop(text, k + 1)
    BY <1>5, <1>12, <2>5, <2>6, <2>7, Penultimate
  <2>9. i + 1 \in 0..Len(y)
    BY <1>2, <1>3, <2>2
  <2>10. Drop(text, p + (i + 1)) = Drop(y, i + 1)
    BY <1>1, <1>2, <2>9, DropBehind DEF text, p
  <2>11. p + (i + 1) = k + 1
    BY <1>7, <2>2 DEF k
  <2> QED
    BY <2>4, <2>8, <2>10, <2>11
<1>14. ASSUME Bars(m) = {} PROVE GetLastMessage(text) = GetLastMessage(y)
  <2>1. Bars(y) \subseteq {b}
    BY <1>2, <1>4, <1>14 DEF b
  <2>2. GetLastMessage(y) = y
    BY <1>2, <2>1, OneBar
  <2> DEFINE k == p - 1
  <2>3. k \in Nat /\ k < p + b /\ k + 1 = p
    BY <1>3, <1>7, <1>10
  <2>4. \A j \in Bars(text) : j <= k \/ j = p + b
    <3> SUFFICES ASSUME NEW j \in Bars(text) PROVE j <= k \/ j = p + b
      OBVIOUS
    <3>1. j \in Nat /\ (j \in Bars(w) \/ j - p \in Bars(y))
      BY <1>5, <1>6
    <3>2. CASE j \in Bars(w)
      BY <1>8, <3>2
    <3>3. CASE j - p \in Bars(y)
      <4>1. j - p = b
        BY <2>1, <3>3
      <4> QED
        BY <1>7, <1>10, <3>1, <4>1
    <3> QED
      BY <3>1, <3>2, <3>3
  <2>5. k \in Bars(text)
    BY <1>6, <1>9, <2>3
  <2> HIDE DEF k
  <2>6. GetLastMessage(text) = Drop(text, k + 1)
    BY <1>5, <1>12, <2>3, <2>4, <2>5, Penultimate
  <2>7. Drop(text, p) = y
    BY <1>1, <1>2, DropConcat DEF text, p
  <2> QED
    BY <2>2, <2>3, <2>6, <2>7
<1>15. GetLastMessage(text) = GetLastMessage(y)
  BY <1>13, <1>14
<1> QED
  BY <1>15 DEF text, w, y

(* FileReader's text of messages: the last one with its mark behind the others. *)
LEMMA JoinedIs ==
  ASSUME NEW C, {Blank, "|"} \subseteq C, NEW ms \in Seq(Seq(C)), ms # <<>>
  PROVE  GetLastMessage(Joined(ms)) = GetLastMessage(ms[Len(ms)] \o Mark)
<1> DEFINE t == [n \in DOMAIN ms |-> ms[n] \o Mark]
           l == Len(ms)
<1>1. l \in Nat \ {0} /\ DOMAIN ms = 1..l
  BY LenProperties
<1>2. \A n \in 1..l : ms[n] \in Seq(C)
  BY ElementOfSeq
<1>3. \A n \in 1..l : ms[n] \o Mark \in Seq(C)
  BY <1>2, MarkedBars
<1> HIDE DEF l
<1>4. t \in Seq(Seq(C)) /\ Len(t) = l /\ \A n \in 1..l : t[n] = ms[n] \o Mark
  <2>1. t \in [1..l -> Seq(C)]
    BY <1>1, <1>3
  <2>2. \A n \in 1..l : t[n] = ms[n] \o Mark
    BY <1>1
  <2> HIDE DEF t
  <2>3. t \in Seq(Seq(C)) /\ DOMAIN t = 1..l
    BY <1>1, <2>1, IsASeq
  <2> QED
    BY <1>1, <2>2, <2>3, LenProperties
<1>5. Joined(ms) = FlattenSeq(t)
  BY Zenon DEF Joined, Mark, Blank
<1> HIDE DEF t
<1>6. PICK f \in Seq(Seq(C)), e \in Seq(C) : t = Append(f, e)
  <2>1. t # <<>>
    BY <1>1, <1>4
  <2> QED
    BY <1>4, <2>1, SequenceEmptyOrAppend
<1>7. /\ Len(f) \in Nat /\ l = Len(f) + 1 /\ t[l] = e
      /\ \A n \in 1..Len(f) : t[n] = f[n]
  <2> DEFINE u == Append(f, e)
  <2>1. /\ Len(f) \in Nat /\ Len(u) = Len(f) + 1 /\ u[Len(f) + 1] = e
        /\ \A n \in 1..Len(f) : u[n] = f[n]
    BY OneMore
  <2>2. u = t
    BY <1>6
  <2> HIDE DEF u
  <2> QED
    BY <1>4, <2>1, <2>2
<1>8. e = ms[l] \o Mark
  <2>1. l \in 1..l
    BY <1>1
  <2> QED
    BY <1>4, <1>7, <2>1
<1>9. FlattenSeq(t) = IF f = <<>> THEN e ELSE FlattenSeq(f) \o e
  BY <1>6, FlattenAppend
<1>10. ASSUME f # <<>> PROVE \E x \in Seq(C) : FlattenSeq(f) = x \o Mark
  <2>1. PICK g \in Seq(Seq(C)), d \in Seq(C) : f = Append(g, d)
    BY <1>10, SequenceEmptyOrAppend
  <2>2. Len(f) \in 1..Len(f) /\ Len(f) \in 1..l
    BY <1>7, <1>10
  <2>3. f[Len(f)] = d
    <3> DEFINE u == Append(g, d)
    <3>1. Len(u) = Len(g) + 1 /\ u[Len(g) + 1] = d
      BY OneMore
    <3>2. u = f
      BY <2>1
    <3> HIDE DEF u
    <3> QED
      BY <3>1, <3>2
  <2> DEFINE v == ms[Len(f)]
  <2>4. d = v \o Mark /\ v \in Seq(C)
    BY <1>2, <1>4, <1>7, <2>2, <2>3
  <2>5. FlattenSeq(f) = IF g = <<>> THEN d ELSE FlattenSeq(g) \o d
    BY <2>1, FlattenAppend
  <2> HIDE DEF v
  <2>6. CASE g = <<>>
    BY <2>4, <2>5, <2>6
  <2>7. CASE g # <<>>
    <3> DEFINE z == FlattenSeq(g)
    <3>1. z \in Seq(C) /\ Mark \in Seq(C)
      BY FlattenType, MarkIs
    <3> HIDE DEF z
    <3>2. Associates(z, v, Mark)
      BY <2>4, <3>1, Associative
    <3>3. z \o d = (z \o v) \o Mark
      BY <2>4, <3>2 DEF Associates
    <3>4. z \o v \in Seq(C)
      BY <2>4, <3>1, ConcatProperties
    <3>5. FlattenSeq(f) = z \o d
      BY <2>5, <2>7 DEF z
    <3> QED
      BY <3>3, <3>4, <3>5
  <2> QED
    BY <2>6, <2>7
<1>11. CASE f = <<>>
  BY <1>5, <1>8, <1>9, <1>11 DEF l
<1>12. CASE f # <<>>
  <2>1. PICK x \in Seq(C) : FlattenSeq(f) = x \o Mark
    BY <1>10, <1>12
  <2>2. ms[l] \in Seq(C)
    BY <1>1, <1>2
  <2>3. GetLastMessage((x \o Mark) \o (ms[l] \o Mark)) = GetLastMessage(ms[l] \o Mark)
    BY <2>2, LastMessage
  <2>4. Joined(ms) = (x \o Mark) \o (ms[l] \o Mark)
    BY <1>5, <1>8, <1>9, <1>12, <2>1
  <2> QED
    BY <2>3, <2>4 DEF l
<1> QED
  BY <1>11, <1>12

(* Without a bar in it, the message and its mark are what is compared. *)
LEMMA PlainLast ==
  ASSUME NEW C, {Blank, "|"} \subseteq C, NEW m \in Seq(C), Bars(m) = {}
  PROVE  GetLastMessage(m \o Mark) = m \o Mark
<1>1. Bars(m \o Mark) \subseteq {Len(m) + 2}
  <2> DEFINE y == m \o Mark
  <2>1. y \in Seq(C) /\ \A j \in Nat : j \in Bars(y) <=> j \in Bars(m) \/ j = Len(m) + 2
    BY MarkedBars
  <2> HIDE DEF y
  <2>2. Bars(y) \subseteq 1..Len(y) /\ Len(y) \in Nat
    BY <2>1, BarsAre
  <2>3. Bars(y) \subseteq {Len(m) + 2}
    BY <2>1, <2>2
  <2> QED
    BY <2>3 DEF y
<1> QED
  BY <1>1, MarkedBars, OneBar

-----------------------------------------------------------------------------
(* The publisher. *)

(* At most the current message is in flight, under the last token; its     *)
(* report is in deliveredtoken_ exactly when it is confirmed.              *)
Reported ==
  \/ inflight = {[message |-> message, token |-> issued]} /\ deliveredtoken_ = 0
  \/ inflight = {} /\ message \in confirmed

WaitsForOwn ==
  /\ pc \in {"none", "idle"} => inflight = {}
  /\ pc \in {"publish", "sent", "spin"} => message # 0
  /\ pc = "publish" => inflight = {} /\ deliveredtoken_ = 0
  /\ pc = "sent" => issued # 0 /\ Reported
  /\ pc = "spin" => \/ inflight = {} /\ deliveredtoken_ = 0
                    \/ inflight = {} /\ message \in confirmed
                    \/ Reported /\ issued # 0

(* token_ is the last token, from the first one on. *)
TokenKnown ==
  /\ issued # 0 /\ pc # "sent" => token_ = issued
  /\ pc = "spin" /\ issued = 0 => message \in blind

ReportSafe == returned \subseteq confirmed \cup blind

PublisherInv == PublisherTypeOK /\ WaitsForOwn /\ TokenKnown /\ ReportSafe

(* What is confirmed was taken. *)
DeliveryInv == PublisherInv /\ confirmed \subseteq taken

(* The publisher's part holds at the start. *)
LEMMA InitDelivery == Init => DeliveryInv
<1> SUFFICES ASSUME Init PROVE DeliveryInv
  OBVIOUS
<1>1. connected \in BOOLEAN
  BY Zenon DEF Init, PublisherInit
<1>2. /\ process = "running" /\ pc = "none" /\ message = 0
      /\ token_ = 0 /\ deliveredtoken_ = 0
      /\ issued = 0 /\ inflight = {}
      /\ blind = {} /\ confirmed = {} /\ returned = {}
  BY DEF Init, PublisherInit
<1>3. QED
  BY <1>1, <1>2, PublisherAssumption
  DEF DeliveryInv, PublisherInv, PublisherTypeOK, WaitsForOwn, TokenKnown, ReportSafe, Garbage

(* Tokens wrap. *)
LEMMA NextTokenType == issued \in 0..MaxToken => NextToken \in 1..MaxToken
  BY PublisherAssumption DEF NextToken

(* The callback reports the delivery of the message in flight. *)
LEMMA DeliveredInv ==
  ASSUME PublisherInv, NEW m \in inflight, Delivered(m)
  PROVE PublisherInv'
<1> USE PublisherAssumption
    DEF PublisherInv, PublisherTypeOK, WaitsForOwn, TokenKnown, ReportSafe, Reported, Garbage
<1>1. /\ process = "running" /\ connected
      /\ UNCHANGED <<process, connected, pc, token_, issued, message, blind, returned>>
  BY DEF Delivered, objectVars, callVars
<1>2. /\ deliveredtoken_' = m.token
      /\ inflight' = inflight \ {m}
      /\ confirmed' = confirmed \cup {m.message}
  BY DEF Delivered
<1>3. /\ pc \in {"sent", "spin"} /\ issued # 0
      /\ inflight = {[message |-> message, token |-> issued]}
  BY <1>2
<1>4. m.message = message /\ m.token = issued /\ inflight' = {}
  BY <1>2, <1>3
<1>5. message \in confirmed' /\ confirmed \subseteq confirmed'
  BY <1>2, <1>4
<1>6. confirmed' \subseteq 1..MaxCalls
  BY <1>2, <1>3, <1>4
<1>7. PublisherTypeOK'
  BY <1>1, <1>2, <1>3, <1>4, <1>6
<1>8. QED
  BY <1>1, <1>3, <1>4, <1>5, <1>7

(* The publisher's invariant is kept by every step of the publisher. *)
LEMMA PublisherNextInv == PublisherInv /\ [PublisherNext]_publisherVars => PublisherInv'
<1> SUFFICES ASSUME PublisherInv, [PublisherNext]_publisherVars PROVE PublisherInv'
  OBVIOUS
<1>a. CASE \E m \in inflight : Delivered(m)
  BY <1>a, DeliveredInv
<1> USE PublisherAssumption
    DEF PublisherInv, PublisherTypeOK, WaitsForOwn, TokenKnown, ReportSafe, Reported, Garbage
<1>1. CASE MqttMessage
  BY <1>1 DEF MqttMessage, CallBegins, objectVars, libraryVars
<1>2. CASE LibrarySends
  BY <1>2, NextTokenType DEF LibrarySends, objectVars, callVars
<1>3. CASE LibraryReturns
  BY <1>3 DEF LibraryReturns, StoresToken, objectVars, libraryVars, callVars
<1>4. CASE LibraryGivesNoToken
  <2>1. /\ pc = "publish" /\ pc' = "spin"
        /\ UNCHANGED <<process, connected, deliveredtoken_, issued, inflight, confirmed,
                      message, returned>>
    BY <1>4 DEF LibraryGivesNoToken, objectVars, libraryVars
  <2>2. CASE issued # 0 /\ UNCHANGED <<token_, blind>>
    BY <2>1, <2>2
  <2>3. CASE issued = 0 /\ token_' \in Garbage /\ blind' = blind \cup {message}
    BY <2>1, <2>3
  <2>4. QED
    BY <1>4, <2>2, <2>3 DEF LibraryGivesNoToken
<1>5. CASE SpinEnds
  BY <1>5 DEF SpinEnds, objectVars, libraryVars
<1>6. CASE Construct
  BY <1>6 DEF Construct, libraryVars, callVars
<1>7. CASE ConnLost
  <2>1. connected' \in BOOLEAN
    BY <1>7, Zenon DEF ConnLost
  <2>2. process' \in {"running", "exited", "terminated"}
    BY <1>7 DEF ConnLost
  <2>3. UNCHANGED <<pc, token_, deliveredtoken_, issued, inflight, confirmed,
                    message, blind, returned>>
    BY <1>7 DEF ConnLost, libraryVars, callVars
  <2>4. QED
    BY <2>1, <2>2, <2>3
<1>8. CASE Destroy
  <2>1. connected' \in BOOLEAN
    BY <1>8, Zenon DEF Destroy
  <2>2. /\ pc = "idle" /\ pc' = "none" /\ token_' = 0 /\ issued' = 0
        /\ UNCHANGED <<process, deliveredtoken_, inflight, confirmed, message, blind, returned>>
    BY <1>8 DEF Destroy, callVars
  <2>3. QED
    BY <2>1, <2>2
<1>9. CASE UNCHANGED publisherVars
  BY <1>9 DEF publisherVars, objectVars, libraryVars, callVars
<1>10. QED
  BY <1>a, <1>1, <1>2, <1>3, <1>4, <1>5, <1>6, <1>7, <1>8, <1>9 DEF PublisherNext

(* Every step of the test is one of the publisher, or leaves it alone. *)
LEMMA Split == [Next]_vars => [PublisherNext]_publisherVars
<1> SUFFICES ASSUME [Next]_vars PROVE [PublisherNext]_publisherVars
  OBVIOUS
<1>1. CASE SendPayload
  BY <1>1 DEF SendPayload, PublisherNext
<1>2. CASE SendWithoutToken
  BY <1>2 DEF SendWithoutToken, PublisherNext
<1>3. CASE PublisherSteps
  BY <1>3 DEF PublisherSteps, BrokerConfirms, PublisherNext
<1>4. CASE BrokerTakes \/ PublishOther \/ SubscriberSteps \/ UNCHANGED vars
  BY <1>4 DEF BrokerTakes, PublishOther, SubscriberSteps, vars
<1>5. QED
  BY <1>1, <1>2, <1>3, <1>4 DEF Next

(* Only the broker takes, and it confirms nothing else. *)
LEMMA ConfirmedTaken == confirmed \subseteq taken /\ [Next]_vars => (confirmed \subseteq taken)'
<1> SUFFICES ASSUME confirmed \subseteq taken, [Next]_vars PROVE (confirmed \subseteq taken)'
  OBVIOUS
<1>1. CASE SendPayload
  BY <1>1 DEF SendPayload, MqttMessage, CallBegins, libraryVars
<1>2. CASE SendWithoutToken
  BY <1>2 DEF SendWithoutToken, LibraryGivesNoToken, libraryVars, testVars
<1>3. CASE PublisherSteps
  <2>1. UNCHANGED taken
    BY <1>3 DEF PublisherSteps, testVars
  <2>2. CASE BrokerConfirms
    BY <2>1, <2>2 DEF BrokerConfirms, Delivered
  <2>3. CASE Construct \/ Destroy \/ LibrarySends \/ LibraryReturns \/ SpinEnds \/ ConnLost
    BY <2>1, <2>3 DEF Construct, Destroy, LibrarySends, LibraryReturns, StoresToken, SpinEnds,
                      ConnLost, libraryVars
  <2>4. QED
    BY <1>3, <2>2, <2>3 DEF PublisherSteps
<1>4. CASE BrokerTakes \/ PublishOther \/ SubscriberSteps \/ UNCHANGED vars
  BY <1>4 DEF BrokerTakes, PublishOther, SubscriberSteps, vars, publisherVars, libraryVars, testVars
<1>5. QED
  BY <1>1, <1>2, <1>3, <1>4 DEF Next

-----------------------------------------------------------------------------
(* The input file and the payload of MockPublisher; type correctness. *)

(* The lines of the input file are its payloads, each with the header. *)
InputFiles == {[n \in DOMAIN f |-> Header \o f[n]] : f \in Inputs}

(* The header has its separator at its end and no other. *)
LEMMA HeaderIs ==
  /\ Header \in Seq(Characters) /\ Len(Header) = 4
  /\ Header[4] = Sep /\ \A i \in 1..3 : Header[i] # Sep
<1>1. "P" \in Characters /\ Sep \in Characters /\ "P" # Sep
  BY DEF Characters, Sep
<1> HIDE DEF Characters
<1> QED
  BY <1>1 DEF Header

(* The lines of the input file by their payloads. *)
LEMMA InputIs ==
  ASSUME input \in InputFiles
  PROVE  \E f \in Seq(Seq(Characters \ {EndLine})) :
           /\ f \in Inputs
           /\ input \in Seq(Seq(Characters)) /\ Len(input) = Len(f)
           /\ \A n \in 1..Len(f) : /\ f[n] \in Seq(Characters \ {EndLine})
                                   /\ f[n] \in Seq(Characters)
                                   /\ input[n] = Header \o f[n]
                                   /\ Drop(input[n], Len(Header)) = f[n]
<1>1. PICK f \in Inputs : input = [n \in DOMAIN f |-> Header \o f[n]]
  BY DEF InputFiles
<1>2. f \in Seq(Seq(Characters \ {EndLine}))
  BY LogAssumption
<1> DEFINE l == Len(f)
<1>3. l \in Nat /\ DOMAIN f = 1..l
  BY <1>2, LenProperties
<1>4. \A n \in 1..l : f[n] \in Seq(Characters \ {EndLine})
  BY <1>2, ElementOfSeq
<1> HIDE DEF l
<1>5. \A n \in 1..l : f[n] \in Seq(Characters)
  <2>1. Characters \ {EndLine} \subseteq Characters
    OBVIOUS
  <2>2. Seq(Characters \ {EndLine}) \subseteq Seq(Characters)
    OBVIOUS
  <2> QED
    BY <1>4, <2>2
<1>6. \A n \in 1..l : Header \o f[n] \in Seq(Characters)
  BY <1>5, HeaderIs, ConcatProperties
<1>7. \A n \in 1..l : input[n] = Header \o f[n]
  BY <1>1, <1>3
<1>8. input \in [1..l -> Seq(Characters)]
  BY <1>1, <1>3, <1>6
<1>9. input \in Seq(Seq(Characters)) /\ Len(input) = l
  <2>1. input \in Seq(Seq(Characters)) /\ DOMAIN input = 1..l
    BY <1>3, <1>8, IsASeq
  <2> QED
    BY <1>3, <2>1, LenProperties
<1>10. \A n \in 1..l : Drop(input[n], Len(Header)) = f[n]
  <2> SUFFICES ASSUME NEW n \in 1..l PROVE Drop(input[n], Len(Header)) = f[n]
    OBVIOUS
  <2>1. f[n] \in Seq(Characters)
    BY <1>5
  <2>2. Drop(Header \o f[n], Len(Header)) = f[n]
    BY <2>1, HeaderIs, DropConcat
  <2> QED
    BY <1>7, <2>2
<1> QED
  BY <1>1, <1>2, <1>4, <1>5, <1>7, <1>9, <1>10 DEF l

(* What MockPublisher reads; of one line it is that line and a newline. *)
LEMMA InputPayloadType ==
  ASSUME input \in InputFiles
  PROVE  /\ InputPayload \in Seq(Characters)
         /\ Len(input) = 1 => InputPayload = InputText \o <<EndLine>>
<1>1. PICK f \in Seq(Seq(Characters \ {EndLine})) :
           /\ f \in Inputs
           /\ input \in Seq(Seq(Characters)) /\ Len(input) = Len(f)
           /\ \A n \in 1..Len(f) : /\ f[n] \in Seq(Characters \ {EndLine})
                                   /\ f[n] \in Seq(Characters)
                                   /\ input[n] = Header \o f[n]
                                   /\ Drop(input[n], Len(Header)) = f[n]
  BY InputIs
<1> DEFINE t == [n \in DOMAIN input |-> Drop(input[n], Len(Header))]
           l == Len(f)
<1>2. l \in Nat /\ DOMAIN input = 1..l
  BY <1>1, LenProperties
<1> HIDE DEF l
<1>3. t \in Seq(Seq(Characters)) /\ Len(t) = l /\ \A n \in 1..l : t[n] = f[n]
  <2>1. t \in [1..l -> Seq(Characters)]
    BY <1>1, <1>2 DEF l
  <2>2. \A n \in 1..l : t[n] = f[n]
    BY <1>1, <1>2 DEF l
  <2> HIDE DEF t
  <2>3. t \in Seq(Seq(Characters)) /\ DOMAIN t = 1..l
    BY <1>2, <2>1, IsASeq
  <2> QED
    BY <1>2, <2>2, <2>3, LenProperties
<1>4. InputPayload = FlattenSeq(t) \o <<EndLine>>
  BY DEF InputPayload
<1> HIDE DEF t
<1>5. FlattenSeq(t) \in Seq(Characters) /\ <<EndLine>> \in Seq(Characters)
  BY <1>3, FlattenType, StampLines, CharactersHas
<1>6. InputPayload \in Seq(Characters)
  BY <1>4, <1>5, ConcatProperties
<1>7. ASSUME Len(input) = 1 PROVE FlattenSeq(t) = InputText
  <2>1. l = 1 /\ Len(t) = 1
    BY <1>1, <1>3, <1>7 DEF l
  <2>2. FlattenSeq(t) = t[1]
    BY <1>3, <2>1, FlattenOne
  <2>3. t[1] = f[1] /\ Drop(input[1], Len(Header)) = f[1]
    BY <1>1, <1>3, <2>1 DEF l
  <2>4. Last(input) = input[1]
    BY <1>7 DEF Last
  <2> QED
    BY <2>2, <2>3, <2>4 DEF InputText
<1> QED
  BY <1>4, <1>6, <1>7

(* Every step of the test is one of the log, or leaves it alone. *)
LEMMA LogStep ==
  ASSUME PAYLOAD_ \in Seq(Characters), [Next]_vars
  PROVE  [LogNext]_logVars
<1>1. CASE SendPayload
  BY <1>1 DEF SendPayload
<1>2. CASE BrokerTakes
  BY <1>2 DEF BrokerTakes, LogNext
<1>3. CASE SendWithoutToken
  BY <1>3 DEF SendWithoutToken, LogNext
<1>4. CASE PublishOther
  BY <1>4, LogAssumption DEF PublishOther, LogNext
<1>5. CASE PublisherSteps
  BY <1>5 DEF PublisherSteps
<1>6. CASE SubscriberSteps
  BY <1>6 DEF SubscriberSteps, LogNext
<1>7. CASE UNCHANGED vars
  BY <1>7 DEF vars
<1> QED
  BY <1>1, <1>2, <1>3, <1>4, <1>5, <1>6, <1>7 DEF Next

(* Nothing writes to the input file. *)
LEMMA InputStep == LogTypeOK /\ [LogNext]_logVars => input' = input
<1> SUFFICES ASSUME [LogNext]_logVars PROVE input' = input
  OBVIOUS
<1>1. CASE \E p \in Seq(Characters) : Publish(p)
  BY <1>1 DEF Publish
<1>2. CASE MqttConnect \/ MsgArrvd \/ CloseFile
  BY <1>2 DEF MqttConnect, MsgArrvd, CloseFile
<1>3. CASE SubscriberStops
  BY <1>3 DEF SubscriberStops, Kill, Quit, SubscriberConnLost
<1>4. CASE UNCHANGED logVars
  BY <1>4 DEF logVars
<1> QED
  BY <1>1, <1>2, <1>3, <1>4 DEF LogNext

(* Only MqttMessage begins another message. *)
LEMMA MessageStep ==
  ASSUME PublisherTypeOK, [Next]_vars
  PROVE  /\ message' \in Nat /\ message \in Nat /\ message <= message'
         /\ ~SendPayload => message' = message
<1>1. message \in Nat
  BY PublisherAssumption DEF PublisherTypeOK
<1>2. CASE SendPayload
  <2>1. message' = message + 1
    BY <1>2, Zenon DEF SendPayload, MqttMessage, CallBegins
  <2> QED
    BY <1>1, <1>2, <2>1
<1>3. CASE BrokerTakes \/ PublishOther \/ SubscriberSteps \/ UNCHANGED vars
  BY <1>1, <1>3 DEF BrokerTakes, PublishOther, SubscriberSteps, vars, publisherVars, callVars
<1>4. CASE SendWithoutToken
  BY <1>1, <1>4 DEF SendWithoutToken, LibraryGivesNoToken
<1>5. CASE PublisherSteps
  BY <1>1, <1>5 DEF PublisherSteps, Construct, Destroy, LibrarySends, LibraryReturns, StoresToken,
                    SpinEnds, BrokerConfirms, Delivered, ConnLost, callVars
<1> QED
  BY <1>1, <1>2, <1>3, <1>4, <1>5 DEF Next

(* What MockPublisher holds is a text. *)
LEMMA PayloadStep ==
  ASSUME PAYLOAD_ \in Seq(Characters), input \in InputFiles, [Next]_vars
  PROVE  PAYLOAD_' \in Seq(Characters)
<1>1. CASE SendPayload
  <2>1. PICK before \in {<<>>, PAYLOAD_} : PAYLOAD_' = before \o InputPayload
    BY <1>1 DEF SendPayload
  <2>2. before \in Seq(Characters) /\ InputPayload \in Seq(Characters)
    BY InputPayloadType, EmptySeq
  <2> HIDE DEF InputPayload
  <2>3. before \o InputPayload \in Seq(Characters)
    BY <2>2, ConcatProperties
  <2> QED
    BY <2>1, <2>3
<1>2. CASE ~SendPayload
  <2>1. PAYLOAD_' = PAYLOAD_
    BY <1>2 DEF Next, BrokerTakes, PublishOther, SubscriberSteps, SendWithoutToken, PublisherSteps,
                testVars, vars
  <2> QED
    BY <2>1
<1> QED
  BY <1>1, <1>2

(* The type invariant is kept by every step. *)
LEMMA TestTypeNext ==
  ASSUME TypeOK, PublisherInv, PublisherTypeOK', input \in InputFiles, [Next]_vars
  PROVE  TypeOK'
<1>1. /\ PublisherTypeOK /\ LogTypeOK /\ PAYLOAD_ \in Seq(Characters)
      /\ taken \subseteq 1..message /\ others \in 0..MaxOthers /\ watched \in 0..message
  BY DEF TypeOK
<1>2. PAYLOAD_' \in Seq(Characters) /\ LogTypeOK'
  BY <1>1, PayloadStep, LogStep, LogTypeNext
<1>3. message' \in Nat /\ message \in Nat /\ message <= message'
  BY <1>1, MessageStep
<1>4. pc \in {"publish", "sent", "spin"} => message # 0
  BY DEF PublisherInv, WaitsForOwn
<1>5. inflight # {} => message # 0
  BY <1>1, <1>4 DEF PublisherInv, WaitsForOwn, PublisherTypeOK
<1>6. taken' \subseteq 1..message'
  <2>1. CASE BrokerTakes
    BY <1>1, <1>3, <1>5, <2>1 DEF BrokerTakes
  <2>2. CASE SendWithoutToken
    <3>1. pc = "publish"
      BY <2>2, Zenon DEF SendWithoutToken, LibraryGivesNoToken
    <3>2. taken' = taken \/ taken' = taken \cup {message}
      BY <2>2 DEF SendWithoutToken, testVars
    <3>3. message \in 1..message /\ \A n \in 1..message : n \in 1..message'
      BY <1>3, <1>4, <3>1
    <3>4. taken \subseteq 1..message
      BY <1>1
    <3>5. \A n \in taken' : n \in taken \/ n = message
      BY <3>2
    <3> QED
      BY <3>3, <3>4, <3>5
  <2>3. CASE SendPayload \/ PublishOther \/ PublisherSteps \/ SubscriberSteps \/ UNCHANGED vars
    <3>1. taken' = taken
      BY <2>3 DEF SendPayload, PublishOther, PublisherSteps, SubscriberSteps, testVars, vars
    <3> QED
      BY <1>1, <1>3, <3>1
  <2> QED
    BY <2>1, <2>2, <2>3 DEF Next
<1>7. others' \in 0..MaxOthers
  <2>1. CASE PublishOther
    BY <1>1, <2>1, TestAssumption DEF PublishOther
  <2>2. CASE ~PublishOther
    BY <1>1, <2>2 DEF Next, BrokerTakes, SendPayload, SubscriberSteps, SendWithoutToken,
                      PublisherSteps, testVars, vars
  <2> QED
    BY <2>1, <2>2
<1>8. watched' \in 0..message'
  <2>1. CASE SendPayload
    BY <1>3, <2>1 DEF SendPayload
  <2>2. CASE ~SendPayload
    <3>1. watched' \in {watched, 0}
      BY <2>2 DEF Next, BrokerTakes, PublishOther, SubscriberSteps, SendWithoutToken,
                      PublisherSteps, testVars, vars
    <3> QED
      BY <1>1, <1>3, <3>1
  <2> QED
    BY <2>1, <2>2
<1> QED
  BY <1>2, <1>6, <1>7, <1>8 DEF TypeOK

(* It holds at the start. *)
LEMMA TestTypeInit == Init => TypeOK /\ input \in InputFiles
<1> SUFFICES ASSUME Init PROVE TypeOK /\ input \in InputFiles
  OBVIOUS
<1>1. PublisherTypeOK /\ message = 0
  BY InitDelivery DEF DeliveryInv, PublisherInv, Init, PublisherInit
<1>2. input \in InputFiles
  BY DEF Init, LogInit, InputFiles
<1>3. input \in Seq(Seq(Characters))
  BY <1>2, InputIs
<1>4. <<>> \in Seq(Characters) /\ <<>> \in Seq(Seq(Characters)) /\ <<>> \in Seq(Seq(Characters) \cup {Damaged})
  BY EmptySeq
<1>5. /\ log = <<>> /\ subscriber = "off" /\ listening = FALSE /\ transit = <<>> /\ rest = <<>>
      /\ kills = 0 /\ received = <<>> /\ expected = <<>>
      /\ PAYLOAD_ = <<>> /\ taken = {} /\ others = 0 /\ watched = 0
  BY DEF Init, LogInit
<1>6. LogTypeOK
  <2>1. kills \in 0..MaxKills
    BY <1>5, LogAssumption
  <2> HIDE DEF Characters, Damaged
  <2> QED
    BY <1>3, <1>4, <1>5, <2>1 DEF LogTypeOK
<1> QED
  BY <1>1, <1>2, <1>4, <1>5, <1>6, TestAssumption DEF TypeOK

-----------------------------------------------------------------------------
(* What the two FileReaders find last. *)

(* FileReader::read: of a line of the input file, the payload. *)
LEMMA AfterHeader ==
  ASSUME NEW x \in Seq(Characters)
  PROVE  AfterSeparator(Header \o x) = x
<1> DEFINE line == Header \o x
           found == {i \in DOMAIN line : line[i] = Sep}
           n == Len(x)
<1>1. /\ line \in Seq(Characters) /\ Len(line) = 4 + n
      /\ \A i \in 1..4 : line[i] = Header[i]
  <2>1. IsConcat(Characters, Header, x, line)
    BY HeaderIs, ConcatAt
  <2> HIDE DEF line
  <2> QED
    BY <2>1, HeaderIs DEF IsConcat
<1>2. n \in Nat
  OBVIOUS
<1> HIDE DEF line, n
<1>3. DOMAIN line = 1..(4 + n)
  BY <1>1, LenProperties
<1>4. found \in SUBSET Nat /\ 4 \in found
  BY <1>1, <1>2, <1>3, HeaderIs
<1>5. \A i \in found : 4 <= i
  <2> SUFFICES ASSUME NEW i \in found, ~(4 <= i) PROVE FALSE
    OBVIOUS
  <2>1. i \in 1..3 /\ i \in 1..4 /\ line[i] = Sep
    BY <1>2, <1>3
  <2> QED
    BY <1>1, <2>1, HeaderIs
<1>6. Min(found) = 4
  BY <1>4, <1>5, MinIs
<1>7. AfterSeparator(line) = Drop(line, 4)
  <2>1. found # {}
    BY <1>4
  <2> QED
    BY <1>6, <2>1 DEF AfterSeparator
<1>8. Drop(Header \o x, Len(Header)) = x
  BY HeaderIs, DropConcat
<1> QED
  BY <1>7, <1>8, HeaderIs DEF line

(* Characters has what the marks and records are made of. *)
LEMMA CharactersMore ==
  {Blank, "|"} \subseteq Characters /\ {"t", Sep, EndLine} \subseteq Characters
<1>1. Blank \in Characters
  BY Zenon DEF Characters, Blank
<1>2. "|" \in Characters
  BY Zenon DEF Characters
<1> QED
  BY <1>1, <1>2, CharactersHas

(* The last message of the input file is its last payload. *)
LEMMA InputLast ==
  ASSUME input \in InputFiles, input # <<>>
  PROVE  /\ InputText \in Seq(Characters \ {EndLine}) /\ InputText \in Seq(Characters)
         /\ GetLastMessage(Joined(Messages(input))) = GetLastMessage(InputText \o Mark)
<1>1. PICK f \in Seq(Seq(Characters \ {EndLine})) :
           /\ f \in Inputs
           /\ input \in Seq(Seq(Characters)) /\ Len(input) = Len(f)
           /\ \A n \in 1..Len(f) : /\ f[n] \in Seq(Characters \ {EndLine})
                                   /\ f[n] \in Seq(Characters)
                                   /\ input[n] = Header \o f[n]
                                   /\ Drop(input[n], Len(Header)) = f[n]
  BY InputIs
<1> DEFINE l == Len(input)
           ms == Messages(input)
<1>2. l \in 1..l /\ l = Len(f)
  BY <1>1
<1>3. ms \in Seq(Seq(Characters)) /\ Len(ms) = l /\ ms[l] = AfterSeparator(input[l])
  BY <1>1, <1>2, MessagesType
<1> HIDE DEF l, ms
<1>4. InputText = f[l]
  BY <1>1, <1>2 DEF InputText, Last, l
<1>5. f[l] \in Seq(Characters) /\ f[l] \in Seq(Characters \ {EndLine}) /\ input[l] = Header \o f[l]
  BY <1>1, <1>2
<1>6. ms[l] = InputText
  BY <1>3, <1>4, <1>5, AfterHeader
<1>7. ms # <<>>
  BY <1>2, <1>3
<1>8. GetLastMessage(Joined(ms)) = GetLastMessage(ms[l] \o Mark)
  BY <1>3, <1>7, JoinedIs, CharactersMore
<1> QED
  BY <1>4, <1>5, <1>6, <1>8 DEF ms

(* The last message of the log is what follows the stamp in its last line. *)
LEMMA LogLast ==
  ASSUME NEW C, log \in Seq(C), log \in Seq(Characters), Lines(log) # <<>>
  PROVE  LET m == AfterSeparator(Lines(log)[Len(Lines(log))]) IN
           /\ m \in Seq(C)
           /\ GetLastMessage(Joined(Messages(Lines(log)))) = GetLastMessage(m \o Mark)
<1> DEFINE lines == Lines(log)
           l == Len(lines)
           ms == Messages(lines)
           m == AfterSeparator(lines[l])
<1>1. lines \in Seq(Seq(C)) /\ lines \in Seq(Seq(Characters)) /\ lines # <<>>
  BY LinesType
<1> HIDE DEF lines
<1>2. l \in 1..l
  BY <1>1
<1>3. ms \in Seq(Seq(C)) /\ ms \in Seq(Seq(Characters)) /\ Len(ms) = l /\ ms[l] = m
  BY <1>1, <1>2, MessagesType
<1>4. ms[l] \in Seq(C) /\ ms # <<>>
  <2> HIDE DEF ms, l
  <2> QED
    BY <1>2, <1>3, ElementOfSeq
<1>5. GetLastMessage(Joined(ms)) = GetLastMessage(ms[l] \o Mark)
  <2> HIDE DEF ms, m, l
  <2> QED
    BY <1>3, <1>4, JoinedIs, CharactersMore
<1> HIDE DEF m, l
<1>6. m \in Seq(C) /\ GetLastMessage(Joined(ms)) = GetLastMessage(m \o Mark)
  BY <1>3, <1>4, <1>5
<1> QED
  BY <1>6 DEF ms, m, l, lines

(* All characters but the bar. *)
Plain == Characters \ {"|"}

(* Without a bar in the payloads there is none in the log. *)
PlainLog ==
  received \in Seq(Seq(Plain)) => log \in Seq(Plain) /\ rest \in Seq(Plain)

(* A text has no bar when its characters are plain. *)
LEMMA PlainIs ==
  ASSUME NEW s \in Seq(Characters)
  PROVE  Bars(s) = {} <=> s \in Seq(Plain)
<1> DEFINE l == Len(s)
<1>1. l \in Nat /\ Bars(s) = {i \in 1..l : s[i] = "|"} /\ \A i \in 1..l : s[i] \in Characters
  BY BarsAre, ElementOfSeq
<1>2. ASSUME Bars(s) = {} PROVE s \in Seq(Plain)
  <2>1. \A i \in 1..l : s[i] \in Plain
    BY <1>1, <1>2 DEF Plain
  <2>2. s \in [1..l -> Characters] /\ s = [i \in 1..l |-> s[i]]
    BY LenProperties
  <2> HIDE DEF l
  <2>3. s \in [1..l -> Plain]
    BY <2>1, <2>2
  <2> QED
    BY <1>1, <2>3, IsASeq
<1>3. ASSUME s \in Seq(Plain) PROVE Bars(s) = {}
  <2>1. \A i \in 1..l : s[i] \in Plain
    BY <1>3, ElementOfSeq
  <2> QED
    BY <1>1, <2>1 DEF Plain
<1> QED
  BY <1>2, <1>3

(* The record of a plain payload is plain, and so are its parts. *)
LEMMA PlainRecord ==
  ASSUME NEW p \in Seq(Plain), NEW n \in 0..Len(Record(p))
  PROVE  SubSeq(Record(p), 1, n) \in Seq(Plain) /\ Drop(Record(p), n) \in Seq(Plain)
<1>1. "t" \in Plain /\ Sep \in Plain /\ EndLine \in Plain
  BY Zenon, CharactersMore DEF Plain, Sep, EndLine
<1>2. Time \in Seq(Plain) /\ <<Sep>> \in Seq(Plain) /\ <<EndLine>> \in Seq(Plain)
  BY <1>1 DEF Time
<1> DEFINE a == Time \o <<Sep>>
           b == a \o p
           R == b \o <<EndLine>>
<1>3. a \in Seq(Plain)
  BY <1>2, ConcatProperties
<1> HIDE DEF a
<1>4. b \in Seq(Plain)
  BY <1>3, ConcatProperties
<1> HIDE DEF b
<1>5. R \in Seq(Plain)
  BY <1>2, <1>4, ConcatProperties
<1>6. Record(p) = R
  BY DEF Record, R, a, b
<1> HIDE DEF R
<1>7. n \in Nat /\ \A i \in 1..n : R[i] \in Plain
  <2>1. n \in Nat /\ Len(R) \in Nat /\ n <= Len(R)
    BY <1>5, <1>6
  <2>2. \A i \in 1..n : i \in 1..Len(R)
    BY <2>1
  <2> QED
    BY <1>5, <2>1, <2>2, ElementOfSeq
<1>8. SubSeq(R, 1, n) \in Seq(Plain)
  BY <1>7, SubSeqProperties
<1>9. Drop(R, n) \in Seq(Plain)
  BY <1>5, <1>7, DropType
<1> QED
  BY <1>6, <1>8, <1>9

(* msgArrvd keeps PlainLog. *)
LEMMA PlainArrives ==
  ASSUME LogTypeOK, PlainLog, MsgArrvd
  PROVE  PlainLog'
<1> SUFFICES ASSUME received' \in Seq(Seq(Plain)) PROVE log' \in Seq(Plain) /\ rest' \in Seq(Plain)
  BY DEF PlainLog
<1> DEFINE p == Head(transit)
<1>1. received \in Seq(Seq(Characters)) /\ transit \in Seq(Seq(Characters)) /\ transit # <<>>
  BY DEF LogTypeOK, MsgArrvd
<1>2. p \in Seq(Characters)
  BY <1>1, HeadTailProperties
<1>3. received' = Append(received, p)
  BY DEF MsgArrvd
<1>4. PICK n \in 0..Len(Record(p)) : log' = log \o SubSeq(Record(p), 1, n) /\ rest' = Drop(Record(p), n)
  BY DEF MsgArrvd, Opened
<1> HIDE DEF p
<1>5. received \in Seq(Seq(Plain)) /\ p \in Seq(Plain)
  <2> DEFINE q == Append(received, p)
             l == Len(received)
  <2>1. /\ l \in Nat /\ Len(q) = l + 1 /\ q[l + 1] = p /\ \A i \in 1..l : q[i] = received[i]
    BY <1>1, <1>2, OneMore
  <2>2. q \in Seq(Seq(Plain))
    BY <1>3
  <2> HIDE DEF q, l
  <2>3. \A i \in 1..(l + 1) : q[i] \in Seq(Plain)
    BY <2>1, <2>2, ElementOfSeq
  <2>4. p \in Seq(Plain)
    <3>1. l + 1 \in 1..(l + 1)
      BY <2>1
    <3> QED
      BY <2>1, <2>3, <3>1
  <2>5. \A i \in 1..l : received[i] \in Seq(Plain)
    <3>1. \A i \in 1..l : i \in 1..(l + 1)
      BY <2>1
    <3> QED
      BY <2>1, <2>3, <3>1
  <2>6. received \in [1..l -> Seq(Characters)]
    BY <1>1, LenProperties DEF l
  <2>7. received \in [1..l -> Seq(Plain)]
    BY <2>5, <2>6
  <2> QED
    BY <2>1, <2>4, <2>7, IsASeq
<1>6. log \in Seq(Plain)
  BY <1>5 DEF PlainLog
<1> DEFINE P == SubSeq(Record(p), 1, n)
<1>7. P \in Seq(Plain) /\ Drop(Record(p), n) \in Seq(Plain)
  BY <1>5, PlainRecord
<1> HIDE DEF P
<1>8. log \o P \in Seq(Plain)
  BY <1>6, <1>7, ConcatProperties
<1> QED
  BY <1>4, <1>7, <1>8 DEF P

(* PlainLog is kept by every step of the log. *)
LEMMA PlainNext == LogTypeOK /\ PlainLog /\ [LogNext]_logVars => PlainLog'
<1> SUFFICES ASSUME LogTypeOK, PlainLog, [LogNext]_logVars PROVE PlainLog'
  OBVIOUS
<1>1. CASE UNCHANGED <<log, rest, received>>
  BY <1>1 DEF PlainLog
<1>2. CASE MsgArrvd
  BY <1>2, PlainArrives
<1>3. CASE CloseFile
  <2>1. log' = log \o rest /\ rest' = <<>> /\ received' = received
    BY <1>3 DEF CloseFile, historyVars
  <2>2. ASSUME received \in Seq(Seq(Plain)) PROVE log \o rest \in Seq(Plain) /\ <<>> \in Seq(Plain)
    BY <2>2, ConcatProperties, EmptySeq DEF PlainLog
  <2> QED
    BY <2>1, <2>2 DEF PlainLog
<1>4. CASE Kill
  <2>1. log' = log /\ rest' = <<>> /\ received' = received /\ <<>> \in Seq(Plain)
    BY <1>4, EmptySeq DEF Kill
  <2> QED
    BY <2>1 DEF PlainLog
<1>5. CASE \E p \in Seq(Characters) : Publish(p)
  BY <1>1, <1>5 DEF Publish, subscriberVars, historyVars
<1>6. CASE MqttConnect \/ Quit \/ SubscriberConnLost
  BY <1>1, <1>6 DEF MqttConnect, Quit, SubscriberConnLost, historyVars
<1>7. CASE UNCHANGED logVars
  BY <1>1, <1>7 DEF logVars, subscriberVars, historyVars
<1> QED
  BY <1>2, <1>3, <1>4, <1>5, <1>6, <1>7 DEF LogNext, SubscriberStops

(* It holds at the start. *)
LEMMA PlainInit == LogInit => PlainLog
  BY EmptySeq DEF LogInit, PlainLog

(* The test passes when both files have lines that are read, and the same  *)
(* last message.                                                           *)
LEMMA Passes ==
  Verdict = "pass" <=>
    /\ input # <<>> /\ Lines(log) # <<>>
    /\ \A line \in Range(input) \cup Range(Lines(log)) : ~LineThrows(line)
    /\ GetLastMessage(Joined(Messages(input))) = GetLastMessage(Joined(Messages(Lines(log))))
<1> DEFINE A == input = <<>> \/ Lines(log) = <<>>
           B == \E line \in Range(input) \cup Range(Lines(log)) : LineThrows(line)
           D == GetLastMessage(Joined(Messages(input))) = GetLastMessage(Joined(Messages(Lines(log))))
<1>1. Verdict = IF A THEN "exit" ELSE IF B THEN "throws" ELSE IF D THEN "pass" ELSE "fail"
  BY Zenon DEF Verdict
<1> HIDE DEF A, B, D
<1>2. Verdict = "pass" <=> ~A /\ ~B /\ D
  BY <1>1
<1> QED
  BY <1>2, Zenon DEF A, B, D

(* The invariants imply PassIsEarned: with the file ended, the last line   *)
(* ends with a whole record, and a text before it would leave a separator  *)
(* in the message.                                                         *)
LEMMA EarnedPass ==
  ASSUME LogTypeOK, FileInv, PlainLog, input \in InputFiles
  PROVE  PassIsEarned
<1> SUFFICES ASSUME Verdict = "pass", subscriber # "writing", ~Torn, PlainTexts, OneLine
             PROVE  \E i \in DOMAIN received : Text(received[i]) = InputText
  BY DEF PassIsEarned
<1> DEFINE lines == Lines(log)
           l == Len(lines)
           m == AfterSeparator(lines[l])
<1>1. /\ input # <<>> /\ Lines(log) # <<>>
      /\ GetLastMessage(Joined(Messages(input))) = GetLastMessage(Joined(Messages(lines)))
  BY Passes
<1>2. /\ log \in Seq(Characters) /\ received \in Seq(Seq(Characters))
      /\ Ended(log) /\ Kept(log, expected, received)
  BY TornIs DEF LogTypeOK, FileInv
<1>3. received \in Seq(Seq(Plain))
  <2> DEFINE k == Len(received)
  <2>1. k \in Nat /\ Range(received) = {received[i] : i \in 1..k}
    BY <1>2, RangeEquality
  <2>2. \A i \in 1..k : received[i] \in Seq(Characters) /\ Bars(received[i]) = {}
    BY <1>2, <2>1, ElementOfSeq DEF PlainTexts
  <2>3. \A i \in 1..k : received[i] \in Seq(Plain)
    BY <2>2, PlainIs
  <2>4. received \in [1..k -> Seq(Characters)]
    BY <1>2, LenProperties
  <2> HIDE DEF k
  <2>5. received \in [1..k -> Seq(Plain)]
    BY <2>3, <2>4
  <2> QED
    BY <2>1, <2>5, IsASeq
<1>4. log \in Seq(Plain)
  BY <1>3 DEF PlainLog
<1>5. m \in Seq(Plain) /\ m \in Seq(Characters)
  BY <1>1, <1>2, <1>4, LogLast
<1>6. GetLastMessage(Joined(Messages(lines))) = GetLastMessage(m \o Mark)
  BY <1>1, <1>2, LogLast
<1>7. InputText \in Seq(Characters) /\ Bars(InputText) = {} /\ Sep \notin Range(InputText)
      /\ GetLastMessage(Joined(Messages(input))) = GetLastMessage(InputText \o Mark)
  BY <1>1, InputLast DEF PlainTexts
<1> HIDE DEF m
<1>8. Bars(m) = {}
  BY <1>5, PlainIs
<1>9. m \o Mark = InputText \o Mark
  BY <1>1, <1>5, <1>6, <1>7, <1>8, PlainLast, CharactersMore
<1>10. m = InputText
  BY <1>5, <1>7, <1>9, MarkIs, CharactersMore, ConcatSimplifications
<1>11. Whole(lines[l], received)
  <2>1. lines \in Seq(Seq(Characters)) /\ l \in 1..Len(expected)
    BY <1>1, <1>2, LinesType DEF Kept
  <2> QED
    BY <1>2, <2>1 DEF Kept
<1>12. PICK z \in Seq(Characters), k \in 1..Len(received) : lines[l] = z \o (Stamp \o Text(received[k]))
  BY <1>11 DEF Whole
<1>13. IsLine(received[k]) /\ received[k] \in Seq(Characters)
  BY <1>2, OneLineIs, ElementOfSeq
<1>14. Text(received[k]) \in Seq(Characters)
  BY <1>13, IsLineType
<1>15. /\ (\A i \in 1..Len(z) : z[i] # Sep) => m = Text(received[k])
       /\ (\E i \in 1..Len(z) : z[i] = Sep) => \E i \in 1..Len(m) : m[i] = Sep
  <2> DEFINE x == Text(received[k])
  <2>1. m = AfterSeparator(z \o (Stamp \o x))
    BY <1>12 DEF m
  <2> HIDE DEF x
  <2>2. x \in Seq(Characters)
    BY <1>14 DEF x
  <2>3. LET a == AfterSeparator(z \o (Stamp \o x)) IN
          /\ (\A i \in 1..Len(z) : z[i] # Sep) => a = x
          /\ (\E i \in 1..Len(z) : z[i] = Sep) => \E i \in 1..Len(a) : a[i] = Sep
    BY <2>2, AfterStamp, CharactersHas
  <2>4. /\ (\A i \in 1..Len(z) : z[i] # Sep) => m = x
        /\ (\E i \in 1..Len(z) : z[i] = Sep) => \E i \in 1..Len(m) : m[i] = Sep
    BY <2>1, <2>3
  <2> QED
    BY <2>4 DEF x
<1>16. ~\E i \in 1..Len(m) : m[i] = Sep
  <2>1. Range(InputText) = {InputText[i] : i \in 1..Len(InputText)}
    BY <1>7, RangeEquality
  <2> QED
    BY <1>7, <1>10, <2>1
<1>17. m = Text(received[k])
  BY <1>15, <1>16
<1>18. k \in DOMAIN received
  BY <1>2, LenProperties
<1> QED
  BY <1>10, <1>17, <1>18

-----------------------------------------------------------------------------
(* The message that was sent last. *)

(* The last line of the log is the payload of the file, or was spoilt. *)
Expects ==
  /\ expected # <<>>
  /\ expected[Len(expected)] = InputPayload \/ expected[Len(expected)] = Damaged

(* Nothing comes after the watched message: it is the last one on its way, *)
(* or the last one received.                                               *)
WatchInv ==
  watched # 0 =>
    /\ watched = message /\ PAYLOAD_ = InputPayload
    /\ watched \notin taken => listening
    /\ watched \in taken =>
         /\ transit # <<>> => transit[Len(transit)] = InputPayload
         /\ transit = <<>> => /\ received # <<>> /\ received[Len(received)] = InputPayload
                              /\ OneLine => Expects

(* The watched message, or the same one again, reaches the broker. *)
LEMMA PublishKeeps ==
  ASSUME WatchInv, transit \in Seq(Seq(Characters)), PAYLOAD_ \in Seq(Characters), watched # 0,
         Publish(PAYLOAD_), taken' = taken \cup {message},
         UNCHANGED <<PAYLOAD_, watched, message>>
  PROVE  WatchInv'
<1>1. /\ watched = message /\ PAYLOAD_ = InputPayload
      /\ watched \notin taken => listening
      /\ watched \in taken =>
           /\ transit # <<>> => transit[Len(transit)] = InputPayload
           /\ transit = <<>> => /\ received # <<>> /\ received[Len(received)] = InputPayload
                                /\ OneLine => Expects
  BY DEF WatchInv
<1>2. /\ UNCHANGED <<input, log, listening, received, expected>>
      /\ transit' = IF listening THEN Append(transit, PAYLOAD_) ELSE transit
  BY DEF Publish, subscriberVars, historyVars
<1>3. InputPayload' = InputPayload /\ OneLine' = OneLine /\ Expects' = Expects
  BY <1>2 DEF InputPayload, OneLine, Expects
<1>4. CASE listening
  <2> DEFINE q == Append(transit, PAYLOAD_)
  <2>1. q # <<>> /\ Len(transit) \in Nat /\ Len(q) = Len(transit) + 1 /\ q[Len(transit) + 1] = PAYLOAD_
    BY OneMore
  <2> HIDE DEF q
  <2>2. transit' = q
    BY <1>2, <1>4 DEF q
  <2>3. transit' # <<>> /\ transit'[Len(transit')] = InputPayload
    BY <1>1, <2>1, <2>2
  <2> QED
    BY <1>1, <1>2, <1>3, <1>4, <2>3 DEF WatchInv
<1>5. CASE ~listening
  <2>1. transit' = transit /\ watched \in taken /\ watched \in taken'
    BY <1>1, <1>2, <1>5
  <2> QED
    BY <1>1, <1>2, <1>3, <2>1 DEF WatchInv
<1> QED
  BY <1>4, <1>5

(* A message arrives: the last one on its way becomes the last one         *)
(* received, and the last line of the log is its own or damaged.           *)
LEMMA ArrivalKeeps ==
  ASSUME LogTypeOK, FileInv, WatchInv, watched # 0, MsgArrvd,
         UNCHANGED <<PAYLOAD_, watched, message, taken>>
  PROVE  WatchInv'
<1>1. /\ watched = message /\ PAYLOAD_ = InputPayload
      /\ watched \notin taken => listening
      /\ watched \in taken => (transit # <<>> => transit[Len(transit)] = InputPayload)
  BY DEF WatchInv
<1> DEFINE p == Head(transit)
           u == Tail(transit)
<1>2. /\ transit \in Seq(Seq(Characters)) /\ transit # <<>>
      /\ received \in Seq(Seq(Characters)) /\ log \in Seq(Characters)
      /\ expected \in Seq(Kinds)
  BY DEF LogTypeOK, MsgArrvd, Kinds
<1>3. /\ p \in Seq(Characters) /\ u \in Seq(Seq(Characters)) /\ Len(u) = Len(transit) - 1
      /\ p = transit[1] /\ \A i \in 1..Len(u) : u[i] = transit[i + 1]
  BY <1>2, HeadTailProperties
<1>4. /\ subscriber = "waiting" /\ UNCHANGED <<input, listening>>
      /\ transit' = u /\ received' = Append(received, p)
      /\ expected' = IF Torn THEN expected ELSE Append(expected, p)
  BY DEF MsgArrvd
<1> HIDE DEF p, u
<1>5. InputPayload' = InputPayload
  BY <1>4 DEF InputPayload
<1> DEFINE n == Len(transit)
<1>6. n \in Nat /\ n # 0
  BY <1>2
<1>7. ASSUME watched \in taken, u # <<>> PROVE u[Len(u)] = InputPayload
  <2> HIDE DEF n
  <2>1. Len(u) \in 1..Len(u) /\ Len(u) + 1 = n
    BY <1>3, <1>6, <1>7 DEF n
  <2>2. u[Len(u)] = transit[n]
    BY <1>3, <2>1
  <2> QED
    BY <1>1, <1>2, <1>7, <2>2 DEF n
<1>8. ASSUME watched \in taken, u = <<>> PROVE p = InputPayload
  <2>1. n = 1
    BY <1>3, <1>6, <1>8
  <2> QED
    BY <1>1, <1>2, <1>3, <1>8, <2>1
<1>9. /\ received' # <<>> /\ received'[Len(received')] = p
      /\ \A i \in 1..Len(received) : received'[i] = received[i]
      /\ Len(received) \in Nat /\ Len(received') = Len(received) + 1
      /\ received' \in Seq(Seq(Characters))
  <2> DEFINE q == Append(received, p)
  <2>1. /\ q # <<>> /\ q[Len(received) + 1] = p /\ \A i \in 1..Len(received) : q[i] = received[i]
        /\ Len(received) \in Nat /\ Len(q) = Len(received) + 1 /\ q \in Seq(Seq(Characters))
    <3>1. IsAppended(Seq(Characters), received, p, q)
      BY <1>2, <1>3, Appends
    <3> HIDE DEF q
    <3> QED
      BY <3>1 DEF IsAppended
  <2>2. received' = q
    BY <1>4
  <2> HIDE DEF q
  <2> QED
    BY <2>1, <2>2
<1>10. ASSUME OneLine' PROVE OneLine
  <2> PICK r : r = received'
    OBVIOUS
  <2>1. Range(r) = {r[i] : i \in 1..Len(r)} /\ Range(received) = {received[i] : i \in 1..Len(received)}
    BY <1>2, <1>9, RangeEquality
  <2>2. \A i \in 1..Len(received) : i \in 1..Len(r)
    BY <1>9
  <2>3. Range(received) \subseteq Range(r)
    BY <1>9, <2>1, <2>2
  <2> QED
    BY <1>10, <2>3 DEF OneLine
<1>11. ASSUME OneLine, p = InputPayload
       PROVE  /\ expected' # <<>>
              /\ expected'[Len(expected')] = InputPayload \/ expected'[Len(expected')] = Damaged
  <2>1. CASE Torn
    <3>1. Kept(log, expected, received) /\ ~Ended(log)
      BY <1>2, <1>4, <1>11, <2>1, TornIs DEF FileInv
    <3>2. Lines(log) # <<>> /\ Len(Lines(log)) = Len(expected) /\ Lines(log) \in Seq(Seq(Characters))
          /\ expected[Len(expected)] = Damaged
      BY <1>2, <3>1, LinesType DEF Kept
    <3>3. expected # <<>>
      BY <1>2, <3>2
    <3> QED
      BY <1>4, <2>1, <3>2, <3>3
  <2>2. CASE ~Torn
    <3> DEFINE q == Append(expected, p)
    <3>1. /\ q # <<>> /\ q[Len(expected) + 1] = p /\ Len(expected) \in Nat /\ Len(q) = Len(expected) + 1
      <4>1. p \in Kinds
        BY <1>3 DEF Kinds
      <4>2. IsAppended(Kinds, expected, p, q)
        BY <1>2, <4>1, Appends
      <4> HIDE DEF q
      <4> QED
        BY <4>2 DEF IsAppended
    <3>2. expected' = q
      BY <1>4, <2>2
    <3> HIDE DEF q
    <3> QED
      BY <1>11, <3>1, <3>2
  <2> QED
    BY <2>1, <2>2
<1>12. ASSUME watched \in taken, u = <<>> PROVE OneLine' => Expects'
  BY <1>5, <1>8, <1>10, <1>11, <1>12 DEF Expects
<1> QED
  BY <1>1, <1>4, <1>5, <1>7, <1>8, <1>9, <1>12 DEF WatchInv

(* The subscriber stops after it has written the watched message. *)
LEMMA StopKeeps ==
  ASSUME WatchInv, watched # 0, Written, SubscriberStops,
         UNCHANGED <<PAYLOAD_, watched, message, taken>>
  PROVE  WatchInv'
<1>1. /\ watched = message /\ PAYLOAD_ = InputPayload /\ watched \in taken
      /\ transit = <<>> /\ rest = <<>>
      /\ received # <<>> /\ received[Len(received)] = InputPayload
      /\ OneLine => Expects
  BY DEF WatchInv, Written
<1>2. transit' = <<>> /\ UNCHANGED <<input, received, expected>>
  <2>1. CASE Kill
    BY <1>1, <2>1 DEF Kill
  <2>2. CASE Quit \/ SubscriberConnLost
    BY <2>2 DEF Quit, SubscriberConnLost, historyVars
  <2> QED
    BY <2>1, <2>2 DEF SubscriberStops
<1>3. InputPayload' = InputPayload /\ OneLine' = OneLine /\ Expects' = Expects
  BY <1>2 DEF InputPayload, OneLine, Expects
<1> QED
  BY <1>1, <1>2, <1>3 DEF WatchInv

(* Nothing the invariant speaks of has changed, but the connection of a    *)
(* subscriber that need not listen any more.                               *)
LEMMA WatchSame ==
  ASSUME WatchInv, watched # 0 => watched \in taken \/ listening' = listening,
         UNCHANGED <<input, transit, received, expected, PAYLOAD_, taken, watched, message>>
  PROVE  WatchInv'
<1>1. InputPayload' = InputPayload /\ OneLine' = OneLine /\ Expects' = Expects
  BY DEF InputPayload, OneLine, Expects
<1> QED
  BY <1>1 DEF WatchInv

(* WatchInv is kept by every step. *)
LEMMA WatchNext ==
  ASSUME TypeOK, FileInv, WatchInv, [Next]_vars
  PROVE  WatchInv'
<1>1. /\ PublisherTypeOK /\ LogTypeOK /\ PAYLOAD_ \in Seq(Characters)
      /\ transit \in Seq(Seq(Characters))
      /\ taken \subseteq 1..message /\ message \in Nat
  BY PublisherAssumption DEF TypeOK, LogTypeOK, PublisherTypeOK
<1>2. CASE SendPayload
  <2>1. /\ watched' = IF listening /\ PAYLOAD_' = InputPayload THEN message' ELSE 0
        /\ UNCHANGED <<input, listening, taken>>
    BY <1>2 DEF SendPayload, logVars, subscriberVars
  <2>2. message' = message + 1
    BY <1>2, Zenon DEF SendPayload, MqttMessage, CallBegins
  <2>3. InputPayload' = InputPayload
    BY <2>1 DEF InputPayload
  <2>4. message' \notin taken'
    BY <1>1, <2>1, <2>2
  <2> QED
    BY <2>1, <2>3, <2>4 DEF WatchInv
<1> SUFFICES ASSUME ~SendPayload PROVE WatchInv'
  BY <1>2
<1>3. message' = message
  BY <1>1, MessageStep
<1>4. SUFFICES ASSUME watched # 0 PROVE WatchInv'
  <2>1. watched = 0 => watched' = 0
    BY DEF Next, BrokerTakes, SendWithoutToken, PublishOther, PublisherSteps, SubscriberSteps,
           testVars, vars
  <2> QED
    BY <2>1 DEF WatchInv
<1>5. watched = message /\ (watched \notin taken => listening)
  BY <1>4 DEF WatchInv
<1>6. CASE BrokerTakes
  BY <1>1, <1>3, <1>4, <1>6, PublishKeeps DEF BrokerTakes
<1>7. CASE SendWithoutToken
  <2>1. CASE UNCHANGED <<logVars, testVars>>
    BY <1>3, <2>1, WatchSame DEF logVars, subscriberVars, historyVars, testVars
  <2>2. CASE Publish(PAYLOAD_) /\ taken' = taken \cup {message} /\ UNCHANGED <<PAYLOAD_, others, watched>>
    BY <1>1, <1>3, <1>4, <2>2, PublishKeeps
  <2> QED
    BY <1>7, <2>1, <2>2 DEF SendWithoutToken
<1>8. CASE PublishOther
  <2>1. PICK p : Publish(p)
    BY <1>8 DEF PublishOther
  <2>2. UNCHANGED <<PAYLOAD_, taken>> /\ watched' = IF listening THEN 0 ELSE watched
    BY <1>8 DEF PublishOther
  <2>3. CASE listening
    BY <2>2, <2>3 DEF WatchInv
  <2>4. CASE ~listening
    BY <1>3, <1>5, <2>1, <2>2, <2>4, WatchSame DEF Publish, historyVars
  <2> QED
    BY <2>3, <2>4
<1>9. CASE PublisherSteps
  BY <1>3, <1>9, WatchSame DEF PublisherSteps, logVars, subscriberVars, historyVars, testVars
<1>10. CASE SubscriberSteps
  <2>1. UNCHANGED <<PAYLOAD_, taken>>
    BY <1>10 DEF SubscriberSteps
  <2>2. CASE MqttConnect /\ UNCHANGED watched
    <3>1. watched \in taken
      BY <1>1, <1>5, <2>2 DEF MqttConnect, LogTypeOK
    <3> QED
      BY <1>3, <2>1, <2>2, <3>1, WatchSame DEF MqttConnect, historyVars
  <2>3. CASE MsgArrvd /\ UNCHANGED watched
    BY <1>1, <1>3, <1>4, <2>1, <2>3, ArrivalKeeps
  <2>4. CASE CloseFile /\ UNCHANGED watched
    BY <1>3, <2>1, <2>4, WatchSame DEF CloseFile, historyVars
  <2>5. CASE SubscriberStops /\ watched' = IF Written THEN watched ELSE 0
    <3>1. CASE Written
      BY <1>3, <1>4, <2>1, <2>5, <3>1, StopKeeps
    <3>2. CASE ~Written
      BY <2>5, <3>2 DEF WatchInv
    <3> QED
      BY <3>1, <3>2
  <2> QED
    BY <1>10, <2>2, <2>3, <2>4, <2>5 DEF SubscriberSteps
<1>11. CASE UNCHANGED vars
  BY <1>11, WatchSame DEF vars, publisherVars, callVars, logVars, subscriberVars, historyVars, testVars
<1> QED
  BY <1>6, <1>7, <1>8, <1>9, <1>10, <1>11 DEF Next

(* A text without an end of line is one line. *)
LEMMA UnendedLines ==
  \A w \in Seq(Characters \ {EndLine}) :
    w # <<>> => Len(Lines(w)) = 1 /\ Lines(w)[1] = w /\ ~Ended(w)
<1> DEFINE C == Characters \ {EndLine}
           S == {w \in Seq(C) : w # <<>> => Len(Lines(w)) = 1 /\ Lines(w)[1] = w /\ ~Ended(w)}
<1> HIDE DEF C
<1>1. <<>> \in S
  BY EmptySeq
<1>2. ASSUME NEW w \in S, NEW c \in C PROVE Append(w, c) \in S
  <2> DEFINE u == Append(w, c)
  <2>1. w \in Seq(C) /\ c # EndLine
    BY DEF C
  <2>2. u \in Seq(C) /\ u # <<>>
    BY <2>1, OneMore
  <2>3. /\ ~Ended(u)
        /\ Ended(w) => Lines(u) = Append(Lines(w), <<c>>)
        /\ ~Ended(w) => Lines(w) # <<>> /\ Lines(u) = Grown(Lines(w), c)
    BY <2>1, LinesStep
  <2>4. ASSUME w = <<>> PROVE Len(Lines(u)) = 1 /\ Lines(u)[1] = u
    <3>1. Ended(w) /\ Lines(w) = <<>>
      BY <2>4, LinesEmpty DEF Ended
    <3>2. u = <<c>>
      BY <2>4, PairIs
    <3>3. /\ <<>> \in Seq(Seq(C)) /\ Len(<<>>) = 0
          /\ Len(Append(<<>>, <<c>>)) = Len(<<>>) + 1
          /\ Append(<<>>, <<c>>)[Len(<<>>) + 1] = <<c>>
      BY EmptySeq, NewLine
    <3>4. Len(Lines(u)) = 1 /\ Lines(u)[1] = <<c>>
      BY <2>3, <3>1, <3>3
    <3> HIDE DEF u
    <3> QED
      BY <3>2, <3>4
  <2>5. ASSUME w # <<>> PROVE Len(Lines(u)) = 1 /\ Lines(u)[1] = u
    <3> DEFINE lines == Lines(w)
    <3>1. lines \in Seq(Seq(C)) /\ Len(lines) = 1 /\ lines[1] = w /\ ~Ended(w)
      BY <2>1, <2>5, LinesType
    <3>2. Lines(u) = Grown(lines, c) /\ lines # <<>>
      BY <2>3, <3>1
    <3> HIDE DEF lines
    <3>3. Len(Grown(lines, c)) = Len(lines) /\ Grown(lines, c)[Len(lines)] = Append(lines[Len(lines)], c)
      BY <3>1, <3>2, GrownIs
    <3>4. Len(Lines(u)) = 1 /\ Lines(u)[1] = u
      BY <3>1, <3>2, <3>3
    <3> QED
      BY <3>4
  <2> HIDE DEF u
  <2>6. u \in S
    BY <2>2, <2>3, <2>4, <2>5
  <2> QED
    BY <2>6 DEF u
<1>3. S = Seq(C)
  <2> HIDE DEF S
  <2>1. S \in SUBSET Seq(C)
    BY DEF S
  <2> QED
    BY <1>1, <1>2, <2>1, SeqInduction
<1> QED
  BY <1>3 DEF C

(* The payload of an input file of one line is that line and its end. *)
LEMMA PayloadText ==
  ASSUME input \in InputFiles, Len(input) = 1, IsLine(InputPayload)
  PROVE  Text(InputPayload) = InputText
<1> DEFINE w == InputText
<1>1. w \in Seq(Characters \ {EndLine}) /\ w \in Seq(Characters)
  <2>1. input # <<>>
    OBVIOUS
  <2> QED
    BY <2>1, InputLast
<1>2. InputPayload = w \o <<EndLine>>
  BY InputPayloadType
<1> HIDE DEF w
<1>3. InputPayload = Append(w, EndLine)
  BY <1>1, <1>2, AppendIsConcat, CharactersHas
<1>4. Lines(InputPayload) = Lines(w)
  BY <1>1, <1>3, LinesStep, CharactersHas
<1>5. w # <<>>
  <2>1. Len(Lines(w)) = 1
    BY <1>4 DEF IsLine
  <2> QED
    BY <2>1, LinesEmpty
<1>6. Len(Lines(w)) = 1 /\ Lines(w)[1] = w
  BY <1>1, <1>5, UnendedLines
<1>7. Text(InputPayload) = Lines(w)[1]
  BY <1>4 DEF Text
<1> QED
  BY <1>6, <1>7 DEF w

(* FileReader::read: of an undamaged line of the log, the text. *)
LEMMA StampText ==
  ASSUME NEW x \in Seq(Characters)
  PROVE  /\ AfterSeparator(Stamp \o x) = x
         /\ Stamp \o x \in Seq(Characters) /\ Len(Stamp \o x) = 2 + Len(x)
<1> DEFINE y == Stamp \o x
<1>1. Stamp \in Seq(Characters) /\ Len(Stamp) = 2
  BY StampLines, CharactersHas DEF Stamp
<1>2. y \in Seq(Characters) /\ Len(y) = Len(Stamp) + Len(x)
  BY <1>1, ConcatProperties
<1>3. <<>> \in Seq(Characters) /\ <<>> \o y = y /\ \A j \in 1..Len(<<>>) : <<>>[j] # Sep
  <2> HIDE DEF y
  <2> QED
    BY <1>2, EmptySeq, ConcatEmptySeq
<1>4. AfterSeparator(<<>> \o y) = x
  BY <1>3, AfterStamp, CharactersHas
<1> HIDE DEF y
<1>5. AfterSeparator(y) = x /\ y \in Seq(Characters) /\ Len(y) = 2 + Len(x)
  BY <1>1, <1>2, <1>3, <1>4
<1> QED
  BY <1>5 DEF y

(* A line that ends with a whole record is long enough for substr. *)
LEMMA WholeLength ==
  ASSUME NEW r \in Seq(Seq(Characters)), \A k \in 1..Len(r) : IsLine(r[k]),
         NEW line, Whole(line, r)
  PROVE  ~LineThrows(line)
<1>1. PICK z \in Seq(Characters), k \in 1..Len(r) : line = z \o (Stamp \o Text(r[k]))
  BY DEF Whole
<1> DEFINE x == Text(r[k])
<1>2. x \in Seq(Characters)
  <2>1. r[k] \in Seq(Characters) /\ IsLine(r[k])
    BY ElementOfSeq
  <2> QED
    BY <2>1, IsLineType
<1>3. line = z \o (Stamp \o x)
  BY <1>1
<1> HIDE DEF x
<1>4. IsStamped(Characters, z, x, z \o (Stamp \o x))
  BY <1>2, StampedAt, CharactersHas
<1>5. Len(line) = Len(z) + 2 + Len(x)
  <2>1. IsStamped(Characters, z, x, line)
    BY <1>3, <1>4
  <2> QED
    BY <2>1 DEF IsStamped
<1>6. Len(z) \in Nat /\ Len(x) \in Nat
  BY <1>2
<1>7. Len(line) # 1
  BY <1>5, <1>6
<1> QED
  BY <1>7 DEF LineThrows

(* So is every line of the input file. *)
LEMMA InputReadable ==
  ASSUME input \in InputFiles
  PROVE  \A line \in Range(input) : ~LineThrows(line)
<1>1. PICK f \in Seq(Seq(Characters \ {EndLine})) :
           /\ f \in Inputs
           /\ input \in Seq(Seq(Characters)) /\ Len(input) = Len(f)
           /\ \A n \in 1..Len(f) : /\ f[n] \in Seq(Characters \ {EndLine})
                                   /\ f[n] \in Seq(Characters)
                                   /\ input[n] = Header \o f[n]
                                   /\ Drop(input[n], Len(Header)) = f[n]
  BY InputIs
<1> SUFFICES ASSUME NEW n \in 1..Len(input) PROVE ~LineThrows(input[n])
  <2>1. Range(input) = {input[n] : n \in 1..Len(input)}
    BY <1>1, RangeEquality
  <2> QED
    BY <2>1
<1> DEFINE x == f[n]
           line == input[n]
<1>2. x \in Seq(Characters) /\ line = Header \o x
  BY <1>1
<1> HIDE DEF x, line
<1>3. Len(line) = 4 + Len(x) /\ Len(x) \in Nat
  <2>1. IsConcat(Characters, Header, x, Header \o x)
    BY <1>2, HeaderIs, ConcatAt
  <2>2. IsConcat(Characters, Header, x, line)
    BY <1>2, <2>1
  <2> QED
    BY <1>2, <2>2, HeaderIs DEF IsConcat
<1>4. ~LineThrows(line)
  BY <1>3 DEF LineThrows
<1> QED
  BY <1>4 DEF line

(* The invariants imply PassAfterReturn. *)
LEMMA PassFollows ==
  ASSUME TypeOK, PublisherInv, confirmed \subseteq taken, FileInv, WatchInv, input \in InputFiles
  PROVE  PassAfterReturn
<1> SUFFICES ASSUME watched \in returned \ blind, transit = <<>>, subscriber # "writing",
                    Len(input) = 1, OneLine, Last(expected) # Damaged
             PROVE  Verdict = "pass"
  BY DEF PassAfterReturn
<1>1. LogTypeOK /\ log \in Seq(Characters) /\ received \in Seq(Seq(Characters))
      /\ expected \in Seq(Kinds)
  BY DEF TypeOK, LogTypeOK, Kinds
<1>2. watched # 0 /\ watched \in taken
  <2>1. returned \subseteq 1..message /\ message \in Nat
    BY PublisherAssumption DEF TypeOK, PublisherTypeOK
  <2>2. watched \in confirmed
    BY DEF PublisherInv, ReportSafe
  <2> QED
    BY <2>1, <2>2
<1>3. expected # <<>> /\ expected[Len(expected)] = InputPayload /\ expected[Len(expected)] # Damaged
  BY <1>2 DEF WatchInv, Expects, Last
<1> DEFINE lines == Lines(log)
           n == Len(expected)
<1>4. Kept(log, expected, received) /\ \A k \in 1..Len(received) : IsLine(received[k])
  BY <1>1, OneLineIs DEF FileInv
<1>5. /\ lines \in Seq(Seq(Characters)) /\ Len(lines) = n /\ n \in 1..n
      /\ \A i \in 1..n : i < n => Whole(lines[i], received)
      /\ IsLine(InputPayload) /\ lines[n] = Stamp \o Text(InputPayload)
  <2>1. n \in 1..n
    BY <1>1, <1>3
  <2> QED
    BY <1>1, <1>3, <1>4, <2>1, LinesType DEF Kept
<1>6. InputText \in Seq(Characters) /\ Text(InputPayload) = InputText
      /\ GetLastMessage(Joined(Messages(input))) = GetLastMessage(InputText \o Mark)
  <2>1. input # <<>>
    OBVIOUS
  <2> QED
    BY <1>5, <2>1, InputLast, PayloadText
<1> HIDE DEF lines, n
<1>7. AfterSeparator(lines[n]) = InputText /\ ~LineThrows(lines[n])
  <2>1. /\ AfterSeparator(Stamp \o InputText) = InputText
        /\ Len(Stamp \o InputText) = 2 + Len(InputText)
    BY <1>6, StampText
  <2>2. lines[n] = Stamp \o InputText
    BY <1>5, <1>6
  <2>3. Len(lines[n]) = 2 + Len(InputText) /\ Len(InputText) \in Nat
    BY <1>6, <2>1, <2>2
  <2>4. Len(lines[n]) # 1
    BY <2>3
  <2> QED
    BY <2>1, <2>2, <2>4 DEF LineThrows
<1>8. lines # <<>>
  BY <1>5
<1>9. GetLastMessage(Joined(Messages(lines))) = GetLastMessage(InputText \o Mark)
  BY <1>1, <1>5, <1>7, <1>8, LogLast DEF lines
<1>10. \A line \in Range(input) \cup Range(lines) : ~LineThrows(line)
  <2>1. Range(lines) = {lines[i] : i \in 1..n}
    BY <1>5, RangeEquality
  <2>2. ASSUME NEW i \in 1..n PROVE ~LineThrows(lines[i])
    <3>1. CASE i = n
      BY <1>7, <3>1
    <3>2. CASE i # n
      <4>1. i < n
        BY <1>5, <3>2
      <4> QED
        BY <1>1, <1>4, <1>5, <4>1, WholeLength
    <3> QED
      BY <3>1, <3>2
  <2> QED
    BY <2>1, <2>2, InputReadable
<1>11. input # <<>>
  OBVIOUS
<1> QED
  BY <1>6, <1>8, <1>9, <1>10, <1>11, Passes DEF lines

-----------------------------------------------------------------------------
(* The inductive invariant: FileInv says what is on the file, PlainLog of  *)
(* which characters, WatchInv what was sent last.                          *)
IInv ==
  /\ DeliveryInv /\ TypeOK /\ input \in InputFiles
  /\ FileInv /\ PlainLog /\ WatchInv

(* The inductive invariant holds at first. *)
LEMMA InitIInv == Init => IInv
<1> SUFFICES ASSUME Init PROVE IInv
  OBVIOUS
<1>1. FileInv /\ PlainLog
  BY FileInit, PlainInit DEF Init
<1>2. WatchInv
  BY DEF Init, WatchInv
<1> QED
  BY <1>1, <1>2, InitDelivery, TestTypeInit DEF IInv

(* Every step of the test keeps the inductive invariant. *)
LEMMA NextIInv == IInv /\ [Next]_vars => IInv'
<1> SUFFICES ASSUME IInv, [Next]_vars PROVE IInv'
  OBVIOUS
<1>1. DeliveryInv'
  BY Split, PublisherNextInv, ConfirmedTaken DEF IInv, DeliveryInv
<1>2. TypeOK'
  <2>1. PublisherTypeOK'
    BY <1>1 DEF DeliveryInv, PublisherInv
  <2> QED
    BY <2>1, TestTypeNext DEF IInv, DeliveryInv
<1>3. LogTypeOK /\ [LogNext]_logVars
  BY LogStep DEF IInv, TypeOK
<1>4. (input \in InputFiles)'
  <2>1. input' = input
    BY <1>3, InputStep
  <2> QED
    BY <2>1 DEF IInv, InputFiles
<1>5. FileInv' /\ PlainLog'
  BY <1>3, FileNext, PlainNext DEF IInv
<1>6. WatchInv'
  BY WatchNext DEF IInv
<1> QED
  BY <1>1, <1>2, <1>4, <1>5, <1>6 DEF IInv

(* The inductive invariant holds always. *)
LEMMA Invariant == Spec => []IInv
  BY InitIInv, NextIInv, PTL DEF Spec

(* Type correctness of the test. *)
THEOREM Typing == Spec => []TypeOK
<1>1. IInv => TypeOK
  BY DEF IInv
<1> QED
  BY Invariant, <1>1, PTL

(* A call of MqttMessage returns only when its own message was taken and   *)
(* its delivery reported, whatever tokens are reused: no other message can *)
(* be in flight with it.                                                   *)
THEOREM DeliverySafety == Spec => []ReturnMeansDelivered
<1>1. IInv => ReturnMeansDelivered
  BY DEF IInv, DeliveryInv, PublisherInv, ReportSafe, ReturnMeansDelivered
<1> QED
  BY Invariant, <1>1, PTL

(* FileReader reads back what msgArrvd was given, a message for a record   *)
(* and in order, wherever kills have cut the file.                         *)
THEOREM FileSafety == Spec => []ReadBack
<1>1. IInv => ReadBack
  BY ReadsBack DEF IInv, TypeOK
<1> QED
  BY Invariant, <1>1, PTL

(* The test passes only when the last payload of the input file came       *)
(* through the broker.                                                     *)
THEOREM PassSafety == Spec => []PassIsEarned
<1>1. IInv => PassIsEarned
  BY EarnedPass DEF IInv, TypeOK
<1> QED
  BY Invariant, <1>1, PTL

(* The test passes once MqttMessage has returned and the subscriber has    *)
(* written what it was sent.                                               *)
THEOREM ReturnSafety == Spec => []PassAfterReturn
<1>1. IInv => PassAfterReturn
  BY PassFollows DEF IInv, DeliveryInv
<1> QED
  BY Invariant, <1>1, PTL
=============================================================================
