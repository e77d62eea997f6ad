------------------------- MODULE SerialLine_proofs -------------------------
(***************************************************************************)
(* Proofs about SerialLine: types, the lines that the machine reads, and   *)
(* the numbers on its panel.                                               *)
(***************************************************************************)
EXTENDS SerialLine, WellFoundedInduction, SequenceTheorems, TLAPS

-----------------------------------------------------------------------------
(* What FlattenSeq computes, step by step. *)

\* A set of numbers has a least one.
LEMMA LeastNumber ==
    ASSUME NEW T, T \subseteq Nat, T # {}
    PROVE  \E k \in T : \A j \in T : k <= j
<1> DEFINE R == OpToRel(<, Nat)
<1>1. IsWellFoundedOn(R, Nat)
  BY NatLessThanWellFounded, Zenon
<1>2. \A x, y \in Nat : <<y, x>> \in R <=> y < x
  BY DEF OpToRel
<1> HIDE DEF R
<1>3. PICK x \in T : \A y \in T : ~(<<y, x>> \in R)
  BY <1>1, WFMin
<1>4. \A y \in T : x \in Nat /\ y \in Nat /\ ~(y < x)
  BY <1>2, <1>3
<1> QED BY <1>4

\* What FlattenSeq does with the first n of seqs.
Flattens(f, seqs, n) ==
    f = [i \in 1 .. n |-> IF i = 1 THEN seqs[i] ELSE f[i - 1] \o seqs[i]]

\* The recursion of FlattenSeq has a solution, for as many sequences as there are.
LEMMA FlattenExists ==
    ASSUME NEW seqs, NEW n \in Nat
    PROVE  \E f : Flattens(f, seqs, n)
<1> DEFINE T == {m \in Nat : ~ \E f : Flattens(f, seqs, m)}
<1> SUFFICES ASSUME T # {} PROVE FALSE
  OBVIOUS
<1>1. PICK m \in T : \A j \in T : m <= j
  BY LeastNumber
<1>2. m # 0
  <2>1. Flattens([i \in 1 .. 0 |-> 0], seqs, 0)
    BY DEF Flattens
  <2> QED BY <2>1
<1>3. m - 1 \in Nat /\ m - 1 \notin T
  BY <1>1, <1>2
<1>4. PICK g : Flattens(g, seqs, m - 1)
  BY <1>3
<1> DEFINE h == [i \in 1 .. m |-> IF i = m THEN IF m = 1 THEN seqs[m] ELSE g[m - 1] \o seqs[m]
                                  ELSE g[i]]
<1>5. \A i \in 1 .. m :
         h[i] = IF i = 1 THEN seqs[i] ELSE h[i - 1] \o seqs[i]
  <2> TAKE i \in 1 .. m
  <2>1. CASE i = m
    BY <1>1, <1>2, <2>1
  <2>2. CASE i # m
    <3>1. i \in 1 .. m - 1 /\ (i # 1 => i - 1 \in 1 .. m - 1)
      BY <1>1, <1>2, <2>2
    <3>2. g[i] = IF i = 1 THEN seqs[i] ELSE g[i - 1] \o seqs[i]
      BY <1>4, <3>1 DEF Flattens
    <3>3. h[i] = g[i] /\ (i # 1 => h[i - 1] = g[i - 1])
      BY <2>2, <3>1, <1>1
    <3> HIDE DEF h
    <3> QED BY <3>2, <3>3
  <2> QED BY <2>1, <2>2
<1>6. h = [i \in 1 .. m |-> h[i]]
  OBVIOUS
<1> HIDE DEF h
<1>7. Flattens(h, seqs, m)
  BY <1>5, <1>6 DEF Flattens
<1> QED BY <1>1, <1>7

\* FlattenSeq appends one sequence after the other.
LEMMA FlattenSteps ==
    ASSUME NEW S, NEW seqs \in Seq(Seq(S))
    PROVE  \/ seqs = <<>> /\ FlattenSeq(seqs) = <<>>
           \/ /\ Len(seqs) \in Nat \ {0}
              /\ \E f \in [1 .. Len(seqs) -> Seq(S)] :
                    /\ f[1] = seqs[1]
                    /\ \A i \in 2 .. Len(seqs) : f[i] = f[i - 1] \o seqs[i]
                    /\ FlattenSeq(seqs) = f[Len(seqs)]
<1>1. Len(seqs) \in Nat /\ \A i \in 1 .. Len(seqs) : seqs[i] \in Seq(S)
  OBVIOUS
<1>2. CASE Len(seqs) = 0
  <2>1. seqs = <<>>
    BY <1>2
  <2> QED BY <1>2, <2>1 DEF FlattenSeq
<1>3. CASE Len(seqs) # 0
  <2> DEFINE n == Len(seqs)
             f == CHOOSE g : Flattens(g, seqs, n)
  <2>1. Flattens(f, seqs, n)
    BY <1>1, FlattenExists
  <2>2. FlattenSeq(seqs) = f[n]
    BY <1>3 DEF FlattenSeq, Flattens
  <2> HIDE DEF f
  <2>3. \A i \in 1 .. n : f[i] = IF i = 1 THEN seqs[i] ELSE f[i - 1] \o seqs[i]
    BY <2>1 DEF Flattens
  <2>4. \A i \in 1 .. n : f[i] \in Seq(S)
    <3> DEFINE T == {i \in 1 .. n : f[i] \notin Seq(S)}
    <3> SUFFICES ASSUME T # {} PROVE FALSE
      OBVIOUS
    <3>0. T \subseteq Nat
      BY <1>1
    <3>1. PICK i \in T : \A j \in T : i <= j
      <4> HIDE DEF T
      <4> QED BY <3>0, LeastNumber
    <3>2. i # 1
      BY <1>1, <2>3, <3>1
    <3>3. i - 1 \in 1 .. n /\ i - 1 \notin T
      BY <1>1, <3>1, <3>2
    <3>4. f[i - 1] \in Seq(S) /\ seqs[i] \in Seq(S)
      BY <1>1, <3>1, <3>3
    <3>5. f[i] = f[i - 1] \o seqs[i]
      BY <2>3, <3>1, <3>2
    <3>6. f[i] \in Seq(S)
      BY <3>4, <3>5, ConcatProperties
    <3> QED BY <3>1, <3>6
  <2>5. f \in [1 .. n -> Seq(S)]
    BY <2>1, <2>4 DEF Flattens
  <2>6. /\ f[1] = seqs[1]
        /\ \A i \in 2 .. n : f[i] = f[i - 1] \o seqs[i]
    <3>1. n \in Nat /\ 1 \in 1 .. n /\ \A i \in 2 .. n : i \in 1 .. n /\ i # 1
      BY <1>1, <1>3
    <3> HIDE DEF n
    <3> QED BY <2>3, <3>1
  <2> QED BY <1>1, <1>3, <2>2, <2>5, <2>6
<1> QED BY <1>2, <1>3

\* It makes a sequence of the same elements.
LEMMA FlattenType ==
    ASSUME NEW S, NEW seqs \in Seq(Seq(S))
    PROVE  FlattenSeq(seqs) \in Seq(S)
<1>1. CASE seqs = <<>> /\ FlattenSeq(seqs) = <<>>
  <2>1. <<>> \in Seq(S)
    OBVIOUS
  <2> QED BY <1>1, <2>1
<1>2. ASSUME Len(seqs) \in Nat \ {0}, NEW f \in [1 .. Len(seqs) -> Seq(S)],
             FlattenSeq(seqs) = f[Len(seqs)]
      PROVE  FlattenSeq(seqs) \in Seq(S)
  <2>1. Len(seqs) \in 1 .. Len(seqs)
    BY <1>2
  <2>2. f[Len(seqs)] \in Seq(S)
    BY <1>2, <2>1, Zenon
  <2> QED BY <1>2, <2>2, Zenon
<1>3. \/ seqs = <<>> /\ FlattenSeq(seqs) = <<>>
      \/ /\ Len(seqs) \in Nat \ {0}
         /\ \E f \in [1 .. Len(seqs) -> Seq(S)] : FlattenSeq(seqs) = f[Len(seqs)]
  BY FlattenSteps, Zenon
<1> QED BY <1>1, <1>2, <1>3, Zenon

\* The intermediate results f of n sequences.
Concats(S, s, n) ==
    {f \in [1 .. n -> Seq(S)] : f[1] = s[1] /\ \A i \in 2 .. n : f[i] = f[i - 1] \o s[i]}

\* The same, for a number of sequences.
LEMMA FlattenStepsOf ==
    ASSUME NEW S, NEW seqs \in Seq(Seq(S)), NEW n \in Nat, n = Len(seqs), n # 0
    PROVE  /\ seqs \in [1 .. n -> Seq(S)]
           /\ \E f \in Concats(S, seqs, n) : FlattenSeq(seqs) = f[n]
<1>1. seqs # <<>> /\ seqs \in [1 .. Len(seqs) -> Seq(S)]
  BY EmptySeq, LenProperties, Zenon
<1>2. \E f \in [1 .. Len(seqs) -> Seq(S)] :
         /\ f[1] = seqs[1]
         /\ \A i \in 2 .. Len(seqs) : f[i] = f[i - 1] \o seqs[i]
         /\ FlattenSeq(seqs) = f[Len(seqs)]
  BY <1>1, FlattenSteps, Zenon
<1> QED BY <1>1, <1>2 DEF Concats

\* Nothing is put together to nothing.
LEMMA FlattenNone == FlattenSeq(<<>>) = <<>>
<1>1. <<>> \in Seq(Seq({})) /\ Len(<<>>) = 0
  BY EmptySeq, Zenon
<1>2. 0 \notin Nat \ {0}
  OBVIOUS
<1> QED BY <1>1, <1>2, FlattenSteps, Zenon

\* A sequence more is appended.
LEMMA FlattenAppend ==
    ASSUME NEW S, NEW seqs \in Seq(Seq(S)), NEW x \in Seq(S)
    PROVE  FlattenSeq(Append(seqs, x)) = FlattenSeq(seqs) \o x
<1> DEFINE n == Len(seqs)
           t == Append(seqs, x)
<1>1. /\ n \in Nat /\ t \in Seq(Seq(S)) /\ Len(t) = n + 1 /\ t[n + 1] = x
      /\ \A i \in 1 .. n : t[i] = seqs[i]
  <2>1. n \in Nat
    BY LenProperties, Zenon
  <2>2. /\ Append(seqs, x) \in Seq(Seq(S)) /\ Len(Append(seqs, x)) = Len(seqs) + 1
        /\ \A i \in 1 .. Len(seqs) : Append(seqs, x)[i] = seqs[i]
        /\ Append(seqs, x)[Len(seqs) + 1] = x
    BY AppendProperties
  <2> QED BY <2>1, <2>2, Zenon
<1> HIDE DEF t
<1>1a. n + 1 \in Nat /\ n + 1 # 0 /\ n <= n + 1
  BY <1>1
<1>2. /\ t \in [1 .. n + 1 -> Seq(S)]
      /\ \E g \in Concats(S, t, n + 1) : FlattenSeq(t) = g[n + 1]
  BY <1>1, <1>1a, FlattenStepsOf
<1>3. CASE seqs = <<>>
  <2>1. n = 0 /\ n + 1 = 1
    BY <1>3
  <2>2. FlattenSeq(seqs) = <<>>
    BY <1>3, FlattenNone
  <2>3. FlattenSeq(t) = x
    BY <1>1, <1>2, <2>1 DEF Concats
  <2>4. <<>> \o x = x
    BY ConcatEmptySeq
  <2> QED BY <2>2, <2>3, <2>4, Zenon DEF t
<1>4. CASE seqs # <<>>
  <2>1. n # 0
    BY <1>4
  <2>2. PICK g \in Concats(S, t, n + 1) : FlattenSeq(t) = g[n + 1]
    BY <1>2, Zenon
  <2>3. seqs \in [1 .. n -> Seq(S)]
    BY <1>1, <2>1, FlattenStepsOf
  <2>3a. PICK f \in Concats(S, seqs, n) : FlattenSeq(seqs) = f[n]
    BY <1>1, <2>1, FlattenStepsOf
  <2> HIDE DEF n
  <2>4. f[n] = g[n]
    <3>1. \A i \in 1 .. n : seqs[i] = t[i]
      BY <1>1, Zenon
    <3>2. n \in Nat /\ n # 0
      BY <1>1, <2>1, Zenon
    <3>3. n \in 1 .. n /\ 1 \in 1 .. n /\ 1 .. n \subseteq Nat
      BY <3>2
    <3>4. \A i \in 1 .. n : i # 1 =>
             i - 1 \in 1 .. n /\ i \in 2 .. n /\ i \in 2 .. n + 1 /\ ~(i <= i - 1)
      BY <3>2
    <3> DEFINE T == {i \in 1 .. n : f[i] # g[i]}
    <3>5. T \subseteq Nat
      BY <3>3, Zenon
    <3> SUFFICES ASSUME T # {} PROVE FALSE
      BY <3>3, Zenon
    <3>6. PICK i \in T : \A j \in T : i <= j
      <4> HIDE DEF T
      <4> QED BY <3>5, LeastNumber, Zenon
    <3>7. i \in 1 .. n /\ f[i] # g[i] /\ i # 1
      BY <2>2, <2>3a, <3>1, <3>3, <3>6, Zenon DEF Concats
    <3>8. i - 1 \in 1 .. n /\ i - 1 \notin T /\ i \in 2 .. n /\ i \in 2 .. n + 1
      BY <3>4, <3>6, <3>7, Zenon
    <3>9. f[i - 1] = g[i - 1]
      BY <3>8, Zenon
    <3>10. f[i] = f[i - 1] \o seqs[i] /\ g[i] = g[i - 1] \o t[i] /\ seqs[i] = t[i]
      BY <2>2, <2>3a, <3>1, <3>7, <3>8, Zenon DEF Concats
    <3> QED BY <3>7, <3>9, <3>10, Zenon
  <2>5. n + 1 \in 2 .. n + 1 /\ (n + 1) - 1 = n
    BY <1>1, <2>1
  <2>6. g[n + 1] = g[n] \o x
    BY <1>1, <2>2, <2>5, Zenon DEF Concats
  <2> QED BY <2>2, <2>3a, <2>4, <2>6, Zenon DEF t
<1> QED BY <1>3, <1>4, Zenon

\* Of a sequence in front of the others comes first.
LEMMA FlattenCons ==
    ASSUME NEW S, NEW seqs \in Seq(Seq(S)), seqs # <<>>
    PROVE  FlattenSeq(seqs) = Head(seqs) \o FlattenSeq(Tail(seqs))
<1> DEFINE T == {n \in Nat : \E s \in Seq(Seq(S)) :
                    /\ s # <<>> /\ Len(s) = n
                    /\ FlattenSeq(s) # Head(s) \o FlattenSeq(Tail(s))}
<1>0. \A a, b, c \in Seq(S) : (a \o b) \o c = a \o (b \o c)
  BY ConcatAssociative, SMTT(30)
<1>a. Len(seqs) \in Nat
  OBVIOUS
<1> SUFFICES ASSUME T # {} PROVE FALSE
  BY <1>a, Zenon
<1>1. PICK n \in T : \A j \in T : n <= j
  <2>1. T \subseteq Nat
    BY Zenon
  <2> HIDE DEF T
  <2> QED BY <2>1, LeastNumber, Zenon
<1>2. n \in Nat /\ \E s \in Seq(Seq(S)) :
         s # <<>> /\ Len(s) = n /\ FlattenSeq(s) # Head(s) \o FlattenSeq(Tail(s))
  BY <1>1, Zenon
<1>2s. PICK s \in Seq(Seq(S)) :
         s # <<>> /\ Len(s) = n /\ FlattenSeq(s) # Head(s) \o FlattenSeq(Tail(s))
  BY <1>2, Zenon
<1>3. n # 0
  BY <1>2s
<1>3a. n - 1 \in Nat /\ n # 0 /\ ~(n <= n - 1)
  BY <1>2, <1>3
<1>3b. n - 1 \notin T
  BY <1>1, <1>3a, Zenon
<1> HIDE DEF T
<1>4. PICK front \in Seq(Seq(S)), x \in Seq(S) : s = Append(front, x)
  BY <1>2s, SequenceEmptyOrAppend, Zenon
<1>4a. Len(front) \in Nat /\ n = Len(front) + 1
  BY <1>2s, <1>4, AppendProperties, LenProperties, Zenon
<1>4b. Len(front) = n - 1
  BY <1>4a
<1>5. FlattenSeq(s) = FlattenSeq(front) \o x
  BY <1>4, FlattenAppend, Zenon
<1>5a. /\ Head(s) = IF front = <<>> THEN x ELSE Head(front)
       /\ Tail(s) = IF front = <<>> THEN <<>> ELSE Append(Tail(front), x)
  BY <1>4, HeadTailAppend, Zenon
<1>6. CASE front = <<>>
  <2>1. <<>> \o x = x /\ x \o <<>> = x
    BY <1>4, ConcatEmptySeq, Zenon
  <2> QED BY <1>2s, <1>5, <1>5a, <1>6, <2>1, FlattenNone, Zenon
<1>7. CASE front # <<>>
  <2>1. Head(front) \in Seq(S) /\ Tail(front) \in Seq(Seq(S))
    BY <1>4, <1>7, HeadTailProperties, Zenon
  <2>3. FlattenSeq(front) = Head(front) \o FlattenSeq(Tail(front))
    BY <1>3a, <1>3b, <1>4, <1>4b, <1>7, Zenon DEF T
  <2>4. FlattenSeq(Tail(s)) = FlattenSeq(Tail(front)) \o x
    BY <1>4, <1>5a, <1>7, <2>1, FlattenAppend, Zenon
  <2>5. FlattenSeq(Tail(front)) \in Seq(S)
    BY <2>1, FlattenType, Zenon
  <2>6. (Head(front) \o FlattenSeq(Tail(front))) \o x = Head(front) \o (FlattenSeq(Tail(front)) \o x)
    BY <1>0, <1>4, <2>1, <2>5, Zenon
  <2> QED BY <1>2s, <1>5, <1>5a, <1>7, <2>3, <2>4, <2>6, Zenon
<1> QED BY <1>6, <1>7

\* Sequences of one element each are put together to one sequence.
LEMMA FlattenSingles ==
    ASSUME NEW S, NEW s \in Seq(S), NEW seqs \in Seq(Seq(S)), Len(seqs) = Len(s),
           \A k \in 1 .. Len(s) : seqs[k] = <<s[k]>>
    PROVE  FlattenSeq(seqs) = s
<1>0. Len(s) \in Nat
  BY LenProperties
<1>1. CASE Len(s) = 0
  <2>1. s = <<>> /\ seqs = <<>>
    BY <1>1
  <2> QED BY <2>1, FlattenNone
<1>2. CASE Len(s) # 0
  <2> DEFINE n == Len(s)
  <2>1. n \in Nat \ {0}
    BY <1>0, <1>2
  <2>2. PICK f \in Concats(S, seqs, n) : FlattenSeq(seqs) = f[n]
    BY <1>0, <1>2, FlattenStepsOf
  <2> DEFINE T == {i \in 1 .. n : f[i] # SubSeq(s, 1, i)}
  <2>2a. n \in 1 .. n /\ 1 \in 1 .. n /\ 1 .. n \subseteq Nat
    BY <2>1
  <2>2b. \A i \in 1 .. n : i # 1 => i - 1 \in 1 .. n /\ i \in 2 .. n /\ ~(i <= i - 1)
    BY <2>1
  <2>2r. \A i \in 1 .. n : SubSeq(s, 1, i) = SubSeq(s, 1, i - 1) \o <<s[i]>>
    <3> TAKE i \in 1 .. n
    <3>1. 1 \in 1 .. Len(s) /\ i \in 1 .. Len(s) /\ i >= 1
      BY <2>1
    <3> QED BY <3>1, SubSeqRecursiveSecond
  <2>2c. SubSeq(s, 1, 1) = <<s[1]>>
    <3>1. SubSeq(s, 1, 1 - 1) = <<>>
      BY SubSeqEmpty
    <3>2. s[1] \in S
      BY <2>2a, ElementOfSeq, Zenon
    <3>3. <<>> \o <<s[1]>> = <<s[1]>>
      BY <3>2, ConcatEmptySeq
    <3> QED BY <2>2a, <2>2r, <3>1, <3>3, Zenon
  <2>2d. \A i \in 2 .. n : SubSeq(s, 1, i - 1) \o <<s[i]>> = SubSeq(s, 1, i)
    <3>1. \A i \in 2 .. n : i \in 1 .. n
      BY <2>1
    <3> QED BY <2>2r, <3>1, Zenon
  <2>2e. \A i \in 1 .. n : seqs[i] = <<s[i]>>
    BY Zenon
  <2> HIDE DEF n
  <2>3. T = {}
    <3> SUFFICES ASSUME T # {} PROVE FALSE
      BY Zenon
    <3>0. T \subseteq Nat
      BY <2>2a, Zenon
    <3>1. PICK i \in T : \A j \in T : i <= j
      <4> HIDE DEF T
      <4> QED BY <3>0, LeastNumber, Zenon
    <3>2. i \in 1 .. n /\ f[i] # SubSeq(s, 1, i)
      BY <3>1, Zenon
    <3>3. CASE i = 1
      BY <2>2, <2>2a, <2>2c, <2>2e, <3>2, <3>3, Zenon DEF Concats
    <3>4. CASE i # 1
      <4>1. i - 1 \in 1 .. n /\ i - 1 \notin T /\ i \in 2 .. n
        BY <2>2b, <3>1, <3>2, <3>4, Zenon
      <4>2. f[i - 1] = SubSeq(s, 1, i - 1)
        BY <4>1, Zenon
      <4>3. f[i] = f[i - 1] \o <<s[i]>>
        BY <2>2, <2>2e, <3>2, <4>1, Zenon DEF Concats
      <4> QED BY <2>2d, <3>2, <4>1, <4>2, <4>3, Zenon
    <3> QED BY <3>3, <3>4, Zenon
  <2>5. f[n] = SubSeq(s, 1, n)
    BY <2>2a, <2>3, Zenon
  <2>6. SubSeq(s, 1, n) = s
    BY SubSeqFull DEF n
  <2> QED BY <2>2, <2>5, <2>6, Zenon
<1> QED BY <1>1, <1>2

\* Concatenation is associative, whatever the elements.
LEMMA JoinAssociative == \A S : \A a, b, c \in Seq(S) : (a \o b) \o c = a \o (b \o c)
  BY ConcatAssociative

\* A pair is one element, then the other.
LEMMA JoinSingles == \A a, b : <<a, b>> = <<a>> \o <<b>>
<1> TAKE a, b
<1>1. /\ <<a, b>> \in Seq({a, b}) /\ Len(<<a, b>>) = 2
      /\ <<a, b>>[1] = a /\ <<a, b>>[2] = b
  OBVIOUS
<1>2. /\ <<a>> \o <<b>> \in Seq({a, b}) /\ Len(<<a>> \o <<b>>) = 2
      /\ (<<a>> \o <<b>>)[1] = a /\ (<<a>> \o <<b>>)[2] = b
  <2>1. <<a>> \in Seq({a, b}) /\ <<b>> \in Seq({a, b}) /\ Len(<<a>>) = 1 /\ Len(<<b>>) = 1
    OBVIOUS
  <2> QED BY <2>1
<1>3. \A i \in 1 .. 2 : i = 1 \/ i = 2
  OBVIOUS
<1>4. \A i \in 1 .. 2 : <<a, b>>[i] = (<<a>> \o <<b>>)[i]
  BY <1>1, <1>2, <1>3, Zenon
<1> QED BY <1>1, <1>2, <1>4, SeqEqual, Zenon

-----------------------------------------------------------------------------
(* Tokens. *)

\* The words that a text of the program holds.
Words == Items \cup {"!g:", "!s:", "=", "HTTPD", "DHCP", "PHY Event", "phy:", "READ", "'",
                     "Hi UART", ";"}

\* What is inside a line.
Plain == {Minus, Space} \cup { Word(x) : x \in Words } \cup { Digit(n) : n \in 0 .. 9 }

\* What the line carries.
Tokens == Plain \cup {CR, LF}

\* The ends of a line are not inside one, and only digits carry a digit.
LEMMA TokenKinds ==
    /\ CR # LF /\ CR \notin Plain /\ LF \notin Plain /\ Plain \subseteq Tokens
    /\ CR \in Tokens /\ LF \in Tokens /\ Minus \in Plain /\ Space \in Plain
    /\ \A x \in Words : Word(x) \in Plain
    /\ \A n \in 0 .. 9 : Digit(n) \in Plain
    /\ \A t \in Tokens : t.kind = "digit" => t.value \in 0 .. 9
<1>1. CR.kind = "cr" /\ LF.kind = "lf" /\ Minus.kind = "minus" /\ Space.kind = "fill"
  BY DEF CR, LF, Minus, Space
<1>2. \A x : Word(x).kind = "word"
  BY DEF Word
<1>3. \A n : Digit(n).kind = "digit" /\ Digit(n).value = n
  BY DEF Digit
<1>4. "cr" # "lf" /\ "cr" # "minus" /\ "cr" # "fill" /\ "cr" # "word" /\ "cr" # "digit"
  OBVIOUS
<1>5. "lf" # "minus" /\ "lf" # "fill" /\ "lf" # "word" /\ "lf" # "digit"
  OBVIOUS
<1>6. "digit" # "minus" /\ "digit" # "fill" /\ "digit" # "word"
  OBVIOUS
<1>7. CR # LF /\ CR \notin Plain /\ LF \notin Plain
  BY <1>1, <1>2, <1>3, <1>4, <1>5, Zenon DEF Plain
<1>8. /\ CR \in Tokens /\ LF \in Tokens /\ Minus \in Plain /\ Space \in Plain
      /\ Plain \subseteq Tokens
      /\ \A x \in Words : Word(x) \in Plain
      /\ \A n \in 0 .. 9 : Digit(n) \in Plain
  BY Zenon DEF Plain, Tokens
<1>9. \A t \in Tokens : t.kind = "digit" => t.value \in 0 .. 9
  BY <1>1, <1>2, <1>3, <1>4, <1>5, <1>6, Zenon DEF Plain, Tokens
<1> QED BY <1>7, <1>8, <1>9, Zenon

-----------------------------------------------------------------------------
(* Numbers. *)

\* The powers of ten of ulIdx, one after the other.
LEMMA PowersGrow ==
    /\ \A k \in 1 .. 10 : Powers[k] \in Nat \ {0}
    /\ \A k \in 1 .. 9 : Powers[k + 1] = 10 * Powers[k]
    /\ Powers[1] = 1
  BY SMT DEF Powers

\* A number of the code is below 2^31, or that.
Numbers == 0 .. WORD \div 2

\* A number of 32 bits has at most ten digits, and its magnitude is a number.
LEMMA NumbersAreSmall ==
    /\ WORD \in Nat /\ WORD >= 32 /\ Numbers \subseteq Nat
    /\ \A u \in Numbers : u < WORD /\ u < 10 * Powers[10]
    /\ \A v \in Int32 : v \in Int /\ Magnitude(v) \in Numbers
                        /\ (v >= 0 => Magnitude(v) = v) /\ (v < 0 => Magnitude(v) = -v)
    /\ Int32 \subseteq Int
<1>1. /\ WORD \in Nat /\ WORD >= 32 /\ WORD % 2 = 0 /\ WORD \div 2 \in Nat
      /\ WORD \div 2 < 10 * Powers[10]
  BY SMT, WordAssumption DEF Powers
<1>2. PICK h \in Nat : h = WORD \div 2
  BY <1>1
<1>3. WORD = 2 * h /\ h < 10 * Powers[10]
  BY <1>1, <1>2
<1> QED BY <1>1, <1>2, <1>3, PowersGrow DEF Numbers, Int32, Magnitude

\* The power of the first digit is the greatest that is not above the number.
LEMMA ExponentFits ==
    ASSUME NEW u \in Numbers
    PROVE  /\ Exponent(u) \in 0 .. 9
           /\ u \div Powers[Exponent(u) + 1] \in 0 .. 9
           /\ 0 < Exponent(u) => Powers[Exponent(u) + 1] < WORD
<1> DEFINE P == { k \in 0 .. 9 : Powers[k + 1] < WORD /\ Powers[k + 1] <= u }
<1>0. u \in Nat /\ u < 10 * Powers[10] /\ u < WORD /\ WORD \in Nat /\ WORD >= 32
  BY NumbersAreSmall
<1>1. CASE u = 0
  <2>1. \A k \in 0 .. 9 : ~(Powers[k + 1] <= 0)
    BY PowersGrow
  <2>2. P = {}
    BY <1>1, <2>1
  <2>3. Exponent(u) = 0
    BY <2>2 DEF Exponent
  <2> QED BY <1>1, <2>3, PowersGrow
<1>2. CASE u # 0
  <2>1. 0 \in P /\ P \subseteq 0 .. 9
    BY <1>0, <1>2, PowersGrow
  <2>2. \E k \in P : \A j \in P : j <= k
    <3> DEFINE Q == { 9 - k : k \in P }
    <3>1. Q \subseteq Nat /\ Q # {}
      BY <2>1
    <3>2. PICK q \in Q : \A j \in Q : q <= j
      <4> HIDE DEF Q
      <4> QED BY <3>1, LeastNumber
    <3>3. PICK k \in P : q = 9 - k
      BY <3>2
    <3>4. ASSUME NEW j \in P PROVE j <= k
      <4>1. 9 - j \in Q
        BY Zenon
      <4>2. q <= 9 - j
        BY <3>2, <4>1, Zenon
      <4> QED BY <2>1, <3>3, <4>2
    <3> QED BY <3>4, Zenon
  <2>3. PICK k \in P : Exponent(u) = k /\ \A j \in P : j <= k
    <3>1. Exponent(u) = CHOOSE k \in P : \A j \in P : j <= k
      BY <2>1, Zenon DEF Exponent
    <3> QED BY <2>2, <3>1, Zenon
  <2>4. k \in 0 .. 9 /\ Powers[k + 1] < WORD /\ Powers[k + 1] <= u
    BY <2>3
  <2>5. k < 9 => u < Powers[k + 2]
    <3> SUFFICES ASSUME k < 9 PROVE u < Powers[k + 2]
      OBVIOUS
    <3>1. k + 1 \in 0 .. 9 /\ ~(k + 1 <= k) /\ (k + 1) + 1 = k + 2
      BY <2>4
    <3>2. k + 1 \notin P
      BY <2>3, <3>1, Zenon
    <3>3. ~(Powers[k + 2] < WORD /\ Powers[k + 2] <= u)
      BY <3>1, <3>2, Zenon
    <3>4. Powers[k + 2] \in Nat
      BY <2>4, PowersGrow
    <3> QED BY <1>0, <3>3, <3>4
  <2>6. PICK p \in Nat : p = Powers[k + 1] /\ p # 0
    BY <2>4, PowersGrow
  <2>7. u < 10 * p
    <3>1. CASE k = 9
      BY <1>0, <2>6, <3>1, PowersGrow
    <3>2. CASE k # 9
      <4>1. k + 1 \in 1 .. 9 /\ (k + 1) + 1 = k + 2 /\ k < 9
        BY <2>4, <3>2
      <4>2. Powers[k + 2] = 10 * p
        BY <2>6, <4>1, PowersGrow
      <4> QED BY <2>5, <4>1, <4>2
    <3> QED BY <3>1, <3>2
  <2>8. u \div p \in 0 .. 9
    BY <1>0, <2>6, <2>7
  <2> QED BY <2>3, <2>4, <2>6, <2>8
<1> QED BY <1>1, <1>2

\* The numbers that a number's first digits make up.
LEMMA DigitsMakeUp ==
    ASSUME NEW u \in Nat
    PROVE  \A i \in 1 .. 9 :
              /\ u \div Powers[i] \in Nat /\ u \div Powers[i + 1] \in Nat
              /\ u \div Powers[i] = 10 * (u \div Powers[i + 1]) + ((u \div Powers[i]) % 10)
<1>1. /\ u \div 1 \in Nat /\ u \div 10 \in Nat
      /\ u \div 1 = 10 * (u \div 10) + ((u \div 1) % 10)
  BY SMT
<1>2. /\ u \div 10 \in Nat /\ u \div 100 \in Nat
      /\ u \div 10 = 10 * (u \div 100) + ((u \div 10) % 10)
  BY SMT
<1>3. /\ u \div 100 \in Nat /\ u \div 1000 \in Nat
      /\ u \div 100 = 10 * (u \div 1000) + ((u \div 100) % 10)
  BY SMT
<1>4. /\ u \div 1000 \in Nat /\ u \div 10000 \in Nat
      /\ u \div 1000 = 10 * (u \div 10000) + ((u \div 1000) % 10)
  BY SMT
<1>5. /\ u \div 10000 \in Nat /\ u \div 100000 \in Nat
      /\ u \div 10000 = 10 * (u \div 100000) + ((u \div 10000) % 10)
  BY SMT
<1>6. /\ u \div 100000 \in Nat /\ u \div 1000000 \in Nat
      /\ u \div 100000 = 10 * (u \div 1000000) + ((u \div 100000) % 10)
  BY SMT
<1>7. /\ u \div 1000000 \in Nat /\ u \div 10000000 \in Nat
      /\ u \div 1000000 = 10 * (u \div 10000000) + ((u \div 1000000) % 10)
  BY SMT
<1>8. /\ u \div 10000000 \in Nat /\ u \div 100000000 \in Nat
      /\ u \div 10000000 = 10 * (u \div 100000000) + ((u \div 10000000) % 10)
  BY SMT
<1>9. /\ u \div 100000000 \in Nat /\ u \div 1000000000 \in Nat
      /\ u \div 100000000 = 10 * (u \div 1000000000) + ((u \div 100000000) % 10)
  BY SMT
<1>10. TAKE i \in 1 .. 9
<1>11. \/ i = 1 \/ i = 2 \/ i = 3 \/ i = 4 \/ i = 5 \/ i = 6 \/ i = 7 \/ i = 8 \/ i = 9
  OBVIOUS
<1> QED BY <1>1, <1>2, <1>3, <1>4, <1>5, <1>6, <1>7, <1>8, <1>9, <1>11, SMT DEF Powers

\* The numerals of a number are as many digits as its exponent says.
LEMMA NumeralsFit ==
    ASSUME NEW u \in Numbers
    PROVE  /\ Numerals(u) \in Seq(Plain) /\ Len(Numerals(u)) = Exponent(u) + 1
           /\ \A j \in 1 .. Exponent(u) + 1 :
                 /\ (u \div Powers[Exponent(u) + 2 - j]) % 10 \in 0 .. 9
                 /\ Numerals(u)[j] = Digit((u \div Powers[Exponent(u) + 2 - j]) % 10)
<1>1. PICK k \in 0 .. 9 : k = Exponent(u)
  BY ExponentFits, Zenon
<1>2. u \in Nat
  BY NumbersAreSmall
<1>3. \A j \in 1 .. k + 1 : k + 2 - j \in 1 .. 10
  BY <1>1
<1>4. \A p \in Nat \ {0} : (u \div p) % 10 \in 0 .. 9
  BY <1>2
<1> DEFINE e(j) == Digit((u \div Powers[k + 2 - j]) % 10)
<1>5. \A j \in 1 .. k + 1 : (u \div Powers[k + 2 - j]) % 10 \in 0 .. 9
  BY <1>3, <1>4, PowersGrow, Zenon
<1>6. \A j \in 1 .. k + 1 : e(j) \in Plain
  BY <1>5, TokenKinds, Zenon
<1>7. Numerals(u) = [j \in 1 .. k + 1 |-> e(j)]
  BY <1>1, Zenon DEF Numerals
<1>8. /\ [j \in 1 .. k + 1 |-> e(j)] \in Seq(Plain) /\ Len([j \in 1 .. k + 1 |-> e(j)]) = k + 1
      /\ \A j \in 1 .. k + 1 : [i \in 1 .. k + 1 |-> e(i)][j] = e(j)
  <2> HIDE DEF e
  <2> QED BY <1>1, <1>6
<1> QED BY <1>1, <1>5, <1>7, <1>8, Zenon

\* Nothing is filled in in front of a number without a width.
LEMMA DecimalsFit ==
    ASSUME NEW v \in Int32
    PROVE  /\ UARTDecimal(v, 0, Space) \in Seq(Plain) \ {<<>>}
           /\ StringDecimal(v, 0, Space) = Sign(v) \o Numerals(Magnitude(v))
           /\ StringDecimal(v, 0, Space) \in Seq(Plain)
           /\ Len(StringDecimal(v, 0, Space)) \in 1 .. 11
<1>1. PICK u \in Numbers : u = Magnitude(v)
  BY NumbersAreSmall, Zenon
<1>2. PICK k \in 0 .. 9 : k = Exponent(u)
  BY ExponentFits, Zenon
<1>3. Numerals(u) \in Seq(Plain) /\ Len(Numerals(u)) = k + 1
  BY <1>2, NumeralsFit, Zenon
<1>4. Sign(v) \in Seq(Plain) /\ Len(Sign(v)) \in 0 .. 1
  <2>1. Sign(v) = <<Minus>> \/ Sign(v) = <<>>
    BY Zenon DEF Sign
  <2>2. Minus \in Plain
    BY TokenKinds
  <2>3. <<Minus>> \in Seq(Plain) /\ Len(<<Minus>>) = 1 /\ <<>> \in Seq(Plain) /\ Len(<<>>) = 0
    BY <2>2
  <2>4. 0 \in 0 .. 1 /\ 1 \in 0 .. 1
    OBVIOUS
  <2> QED BY <2>1, <2>3, <2>4, Zenon
<1>5. \A n \in Int : Pad(n, Space) \in Seq(Plain)
  <2> TAKE n \in Int
  <2>1. CASE n > 1 /\ n < 16
    <3>1. n - 1 \in Nat
      BY <2>1
    <3>2. [j \in 1 .. n - 1 |-> Space] \in Seq(Plain)
      BY <3>1, TokenKinds
    <3> QED BY <2>1, <3>2, Zenon DEF Pad
  <2>2. CASE ~(n > 1 /\ n < 16)
    <3>1. <<>> \in Seq(Plain)
      BY EmptySeq, Zenon
    <3> QED BY <2>2, <3>1, Zenon DEF Pad
  <2> QED BY <2>1, <2>2, Zenon
<1>6. (0 - k - Len(Sign(v))) % WORD \in Int /\ Space # Digit(0)
  <2>1. (0 - k - Len(Sign(v))) % WORD \in Int
    BY <1>2, <1>4, NumbersAreSmall
  <2>2. Space # Digit(0)
    BY DEF Space, Digit
  <2> QED BY <2>1, <2>2
<1>7. UARTDecimal(v, 0, Space) = Pad((0 - k - Len(Sign(v))) % WORD, Space) \o Sign(v) \o Numerals(u)
  BY <1>1, <1>2, <1>6, Zenon DEF UARTDecimal
<1>8. UARTDecimal(v, 0, Space) \in Seq(Plain) \ {<<>>}
  <2>1. PICK s \in Seq(Plain) : s = Pad((0 - k - Len(Sign(v))) % WORD, Space)
    BY <1>5, <1>6, Zenon
  <2>2. s \o Sign(v) \in Seq(Plain)
    BY <1>4, ConcatProperties, Zenon
  <2>3. PICK x \in Seq(Plain), y \in Seq(Plain) : x = s \o Sign(v) /\ y = Numerals(u) /\ Len(y) = k + 1
    BY <1>3, <2>2, Zenon
  <2>4. x \o y \in Seq(Plain) /\ x \o y # <<>>
    BY <1>2, <2>3
  <2> QED BY <1>7, <2>1, <2>3, <2>4, Zenon
<1>9. Pad((0 - k) % WORD, Space) = <<>>
  <2>1. PICK w \in Nat : w = WORD /\ w >= 32
    BY NumbersAreSmall, Zenon
  <2>2. PICK n \in Int : n = (0 - k) % w
    BY <1>2, <2>1
  <2>3. ~(n > 1 /\ n < 16)
    <3>1. CASE k = 0
      BY <2>1, <2>2, <3>1
    <3>2. CASE k # 0
      <4>1. 0 - k = (-1) * w + (w - k) /\ w - k \in 0 .. w - 1
        BY <1>2, <2>1, <3>2
      <4>2. n = w - k
        BY <1>2, <2>1, <2>2, <3>2, <4>1
      <4> QED BY <1>2, <2>1, <3>2, <4>2
    <3> QED BY <3>1, <3>2
  <2> QED BY <2>1, <2>2, <2>3, Zenon DEF Pad
<1>10. StringDecimal(v, 0, Space) = Sign(v) \o <<>> \o Numerals(u)
  BY <1>1, <1>2, <1>9, Zenon DEF StringDecimal
<1>11. Sign(v) \o <<>> = Sign(v)
  BY <1>4, ConcatEmptySeq, Zenon
<1>12. /\ Sign(v) \o Numerals(u) \in Seq(Plain)
       /\ Len(Sign(v) \o Numerals(u)) = Len(Sign(v)) + Len(Numerals(u))
  BY <1>3, <1>4, ConcatProperties, Zenon
<1>13. Len(Sign(v)) + Len(Numerals(u)) \in 1 .. 11
  <2>1. \A a \in 0 .. 1, b \in 0 .. 9 : a + (b + 1) \in 1 .. 11
    OBVIOUS
  <2> QED BY <1>2, <1>3, <1>4, <2>1, Zenon
<1> QED BY <1>1, <1>8, <1>10, <1>11, <1>12, <1>13, Zenon

\* What a string of n digits is read as, digit by digit.
Reads(f, from, n) ==
    f = [k \in 0 .. n |-> IF k = 0 THEN 0 ELSE 10 * f[k - 1] + from[k].value]

\* The number that n digits are read as.
ReadAs(from, n) == (CHOOSE f : Reads(f, from, n))[n]

\* There is such a reading of every string.
LEMMA ReadsExist ==
    ASSUME NEW from, NEW n \in Nat
    PROVE  \E f : Reads(f, from, n)
<1> DEFINE T == {m \in Nat : ~ \E f : Reads(f, from, m)}
<1> SUFFICES ASSUME T # {} PROVE FALSE
  OBVIOUS
<1>1. PICK m \in T : \A j \in T : m <= j
  BY LeastNumber
<1>2. m # 0
  <2> DEFINE z == [k \in 0 .. 0 |-> 0]
  <2>1. z = [k \in 0 .. 0 |-> IF k = 0 THEN 0 ELSE 10 * z[k - 1] + from[k].value]
    OBVIOUS
  <2> HIDE DEF z
  <2>2. Reads(z, from, 0)
    BY <2>1, Zenon DEF Reads
  <2> QED BY <2>2
<1>3. m - 1 \in Nat /\ m - 1 \notin T
  BY <1>1, <1>2
<1>4. PICK g : Reads(g, from, m - 1)
  BY <1>3
<1> DEFINE h == [k \in 0 .. m |-> IF k = m THEN 10 * g[m - 1] + from[m].value ELSE g[k]]
<1>5. \A k \in 0 .. m : h[k] = IF k = 0 THEN 0 ELSE 10 * h[k - 1] + from[k].value
  <2> TAKE k \in 0 .. m
  <2>1. CASE k = m
    <3>1. k \in 0 .. m /\ k - 1 \in 0 .. m /\ k - 1 # m /\ k # 0
      BY <1>1, <1>2, <2>1
    <3>2. h[k] = 10 * g[m - 1] + from[m].value /\ h[k - 1] = g[k - 1]
      BY <2>1, <3>1, Zenon
    <3> HIDE DEF h
    <3> QED BY <2>1, <3>1, <3>2, Zenon
  <2>2. CASE k # m
    <3>1. k \in 0 .. m - 1 /\ (k # 0 => k - 1 \in 0 .. m /\ k - 1 # m)
      BY <1>1, <1>2, <2>2
    <3>2. g[k] = IF k = 0 THEN 0 ELSE 10 * g[k - 1] + from[k].value
      BY <1>4, <3>1 DEF Reads
    <3>3. h[k] = g[k] /\ (k # 0 => h[k - 1] = g[k - 1])
      BY <2>2, <3>1, Zenon
    <3> HIDE DEF h
    <3> QED BY <3>2, <3>3, Zenon
  <2> QED BY <2>1, <2>2, Zenon
<1>6. h = [k \in 0 .. m |-> h[k]]
  OBVIOUS
<1> HIDE DEF h
<1>7. h = [k \in 0 .. m |-> IF k = 0 THEN 0 ELSE 10 * h[k - 1] + from[k].value]
  BY <1>5, <1>6
<1>8. Reads(h, from, m)
  BY <1>7, Zenon DEF Reads
<1> QED BY <1>1, <1>8

\* The number is that of the last step.
LEMMA ReadAsSteps ==
    ASSUME NEW from, NEW n \in Nat
    PROVE  \E f : /\ f[0] = 0 /\ ReadAs(from, n) = f[n]
                  /\ \A k \in 1 .. n : f[k] = 10 * f[k - 1] + from[k].value
<1> DEFINE f == CHOOSE f : Reads(f, from, n)
<1>1. Reads(f, from, n)
  BY ReadsExist, Zenon
<1> HIDE DEF f
<1>2. 0 \in 0 .. n /\ \A k \in 1 .. n : k \in 0 .. n /\ k # 0
  OBVIOUS
<1>3. \A k \in 0 .. n : f[k] = IF k = 0 THEN 0 ELSE 10 * f[k - 1] + from[k].value
  BY <1>1, Zenon DEF Reads
<1>4. f[0] = 0 /\ \A k \in 1 .. n : f[k] = 10 * f[k - 1] + from[k].value
  BY <1>2, <1>3, Zenon
<1>5. ReadAs(from, n) = f[n]
  BY Zenon DEF ReadAs, f
<1> QED BY <1>4, <1>5, Zenon

\* Digits are read as a natural number.
LEMMA ReadAsNumber ==
    ASSUME NEW from, NEW n \in Nat, \A k \in 1 .. n : from[k].value \in 0 .. 9
    PROVE  ReadAs(from, n) \in Nat
<1>1. PICK f : /\ f[0] = 0 /\ ReadAs(from, n) = f[n]
               /\ \A k \in 1 .. n : f[k] = 10 * f[k - 1] + from[k].value
  BY ReadAsSteps, Zenon
<1> DEFINE T == {k \in 0 .. n : f[k] \notin Nat}
<1>2. T \subseteq Nat /\ n \in 0 .. n
  OBVIOUS
<1>3. T = {}
  <2> SUFFICES ASSUME T # {} PROVE FALSE
    BY Zenon
  <2>1. PICK k \in T : \A j \in T : k <= j
    <3> HIDE DEF T
    <3> QED BY <1>2, LeastNumber, Zenon
  <2>2. k \in 0 .. n /\ f[k] \notin Nat
    BY <2>1, Zenon
  <2>3. k # 0
    BY <1>1, <2>2
  <2>4. k \in 1 .. n /\ k - 1 \in 0 .. n /\ ~(k <= k - 1)
    BY <2>2, <2>3
  <2>5. f[k - 1] \in Nat
    BY <2>1, <2>4, Zenon
  <2>6. f[k] = 10 * f[k - 1] + from[k].value /\ from[k].value \in 0 .. 9
    BY <1>1, <2>4, Zenon
  <2>7. f[k] \in Nat
    BY <2>5, <2>6
  <2> QED BY <2>2, <2>7, Zenon
<1> QED BY <1>1, <1>2, <1>3, Zenon

\* What atoi makes of a text, by its first part that is digits.
LEMMA AtoiReads ==
    ASSUME NEW text \in Seq(Plain)
    PROVE  \E n \in Nat, from \in Seq(Plain) :
              /\ from = IF text # <<>> /\ text[1] = Minus THEN Tail(text) ELSE text
              /\ n \in 0 .. Len(from)
              /\ \A k \in 1 .. n : from[k].kind = "digit"
              /\ n < Len(from) => from[n + 1].kind # "digit"
              /\ \A signed \in Int :
                    signed = (IF text # <<>> /\ text[1] = Minus THEN -ReadAs(from, n)
                              ELSE ReadAs(from, n))
                    => Atoi(text) = IF signed < -(WORD \div 2) THEN -(WORD \div 2)
                                    ELSE IF signed >= WORD \div 2 THEN WORD \div 2 - 1 ELSE signed
<1> DEFINE sign == text # <<>> /\ text[1] = Minus
           from == IF sign THEN Tail(text) ELSE text
           stops == { k \in DOMAIN from : from[k].kind # "digit" }
           n == IF stops = {} THEN Len(from) ELSE (CHOOSE k \in stops : \A j \in stops : k <= j) - 1
<1>1. from \in Seq(Plain)
  BY HeadTailProperties, Zenon
<1>2. Len(from) \in Nat /\ DOMAIN from = 1 .. Len(from)
  <2> HIDE DEF from
  <2> QED BY <1>1, LenProperties, Zenon
<1>3. /\ n \in 0 .. Len(from) /\ \A k \in 1 .. n : from[k].kind = "digit"
      /\ n < Len(from) => from[n + 1].kind # "digit"
  <2> HIDE DEF from
  <2>1. CASE stops = {}
    BY <1>2, <2>1
  <2>2. CASE stops # {}
    <3>1. stops \subseteq Nat
      BY <1>2
    <3>2. \E k \in stops : \A j \in stops : k <= j
      <4> HIDE DEF stops
      <4> QED BY <2>2, <3>1, LeastNumber, Zenon
    <3>3. PICK k \in stops : n = k - 1 /\ \A j \in stops : k <= j
      BY <2>2, <3>2, Zenon
    <3>4. k \in 1 .. Len(from) /\ from[k].kind # "digit"
      BY <1>2, <3>3, Zenon
    <3>5. \A j \in 1 .. k - 1 : j \in 1 .. Len(from) /\ ~(k <= j)
      BY <1>2, <3>4
    <3>6. \A j \in 1 .. k - 1 : from[j].kind = "digit"
      BY <1>2, <3>3, <3>5, Zenon
    <3>7. k - 1 \in 0 .. Len(from) /\ (k - 1) + 1 = k
      BY <1>2, <3>4
    <3> QED BY <3>3, <3>4, <3>6, <3>7, Zenon
  <2> QED BY <2>1, <2>2, Zenon
<1>4. Atoi(text) = LET signed == IF sign THEN -ReadAs(from, n) ELSE ReadAs(from, n)
                   IN IF signed < -(WORD \div 2) THEN -(WORD \div 2)
                      ELSE IF signed >= WORD \div 2 THEN WORD \div 2 - 1 ELSE signed
  BY Zenon DEF Atoi, ReadAs, Reads
<1>5. n \in Nat
  <2> HIDE DEF n, from
  <2> QED BY <1>2, <1>3
<1> HIDE DEF n, stops
<1>6. from = IF text # <<>> /\ text[1] = Minus THEN Tail(text) ELSE text
  OBVIOUS
<1> HIDE DEF from
<1> QED BY <1>1, <1>3, <1>4, <1>5, <1>6, Zenon

\* What a text is read as is a number of 32 bits, whatever the text.
LEMMA AtoiFits ==
    ASSUME NEW text \in Seq(Plain)
    PROVE  Atoi(text) \in Int32
<1>1. PICK n \in Nat, from \in Seq(Plain) :
              /\ from = IF text # <<>> /\ text[1] = Minus THEN Tail(text) ELSE text
              /\ n \in 0 .. Len(from)
              /\ \A k \in 1 .. n : from[k].kind = "digit"
              /\ \A signed \in Int :
                    signed = (IF text # <<>> /\ text[1] = Minus THEN -ReadAs(from, n)
                              ELSE ReadAs(from, n))
                    => Atoi(text) = IF signed < -(WORD \div 2) THEN -(WORD \div 2)
                                    ELSE IF signed >= WORD \div 2 THEN WORD \div 2 - 1 ELSE signed
  BY AtoiReads, Zenon
<1>2. \A k \in 1 .. n : k \in 1 .. Len(from)
  BY <1>1
<1>3. \A k \in 1 .. n : from[k] \in Tokens
  BY <1>1, <1>2, ElementOfSeq, TokenKinds
<1>4. \A k \in 1 .. n : from[k].value \in 0 .. 9
  BY <1>1, <1>3, TokenKinds, Zenon
<1>5. PICK r \in Nat : r = ReadAs(from, n)
  BY <1>1, <1>4, ReadAsNumber, Zenon
<1>6. PICK signed \in Int : signed = IF text # <<>> /\ text[1] = Minus THEN -ReadAs(from, n)
                                   ELSE ReadAs(from, n)
  <2>1. -r \in Int /\ r \in Int
    BY <1>5
  <2> QED BY <1>5, <2>1, Zenon
<1>7. Atoi(text) = IF signed < -(WORD \div 2) THEN -(WORD \div 2)
                   ELSE IF signed >= WORD \div 2 THEN WORD \div 2 - 1 ELSE signed
  BY <1>1, <1>6, Zenon
<1>8. PICK h \in Nat : h = WORD \div 2 /\ h > 0
  BY NumbersAreSmall
<1>9. (IF signed < -h THEN -h ELSE IF signed >= h THEN h - 1 ELSE signed) \in -h .. h - 1
  BY <1>6, <1>8
<1> QED BY <1>7, <1>8, <1>9, Zenon DEF Int32

\* atoi undoes the conversion of a number.
LEMMA AtoiUndoes ==
    ASSUME NEW v \in Int32
    PROVE  Atoi(StringDecimal(v, 0, Space)) = v
<1>1. PICK u \in Numbers : u = Magnitude(v)
  BY NumbersAreSmall, Zenon
<1>2. PICK e \in 0 .. 9 : e = Exponent(u)
  BY ExponentFits, Zenon
<1> DEFINE N == Numerals(u)
           text == StringDecimal(v, 0, Space)
<1>3. /\ N \in Seq(Plain) /\ Len(N) = e + 1
      /\ \A j \in 1 .. e + 1 : /\ (u \div Powers[e + 2 - j]) % 10 \in 0 .. 9
                               /\ N[j] = Digit((u \div Powers[e + 2 - j]) % 10)
  BY <1>2, NumeralsFit, Zenon
<1>4. text = Sign(v) \o N /\ text \in Seq(Plain)
  BY <1>1, DecimalsFit, Zenon
<1>5. \A j \in 1 .. e + 1 : N[j].kind = "digit" /\ N[j].value = (u \div Powers[e + 2 - j]) % 10
  <2>1. \A n : Digit(n).kind = "digit" /\ Digit(n).value = n
    BY DEF Digit
  <2> TAKE j \in 1 .. e + 1
  <2>2. N[j] = Digit((u \div Powers[e + 2 - j]) % 10)
    BY <1>3, Zenon
  <2> QED BY <2>1, <2>2, Zenon
<1>6. N # <<>> /\ N[1] # Minus
  <2>1. Len(N) # 0 /\ 1 \in 1 .. e + 1
    BY <1>2, <1>3
  <2>2. Len(<<>>) = 0 /\ Minus.kind = "minus" /\ "minus" # "digit"
    BY EmptySeq DEF Minus
  <2> QED BY <1>5, <2>1, <2>2, Zenon
<1> HIDE DEF N, text
<1>7. IF v < 0 THEN text # <<>> /\ text[1] = Minus /\ Tail(text) = N
      ELSE text = N
  <2>1. CASE v < 0
    <3>1. text = <<Minus>> \o N
      BY <1>4, <2>1, Zenon DEF Sign
    <3>2. <<Minus>> \in Seq(Plain)
      BY TokenKinds
    <3>3. text # <<>> /\ text[1] = Minus /\ Tail(text) = N
      BY <1>3, <3>1, <3>2
    <3> QED BY <2>1, <3>3, Zenon
  <2>2. CASE ~(v < 0)
    <3>1. text = <<>> \o N
      BY <1>4, <2>2, Zenon DEF Sign
    <3> QED BY <1>3, <2>2, <3>1, ConcatEmptySeq, Zenon
  <2> QED BY <2>1, <2>2, Zenon
<1>8. (text # <<>> /\ text[1] = Minus) <=> v < 0
  BY <1>6, <1>7, Zenon
<1>9. PICK n \in Nat, from \in Seq(Plain) :
              /\ from = IF text # <<>> /\ text[1] = Minus THEN Tail(text) ELSE text
              /\ n \in 0 .. Len(from)
              /\ n < Len(from) => from[n + 1].kind # "digit"
              /\ \A signed \in Int :
                    signed = (IF text # <<>> /\ text[1] = Minus THEN -ReadAs(from, n)
                              ELSE ReadAs(from, n))
                    => Atoi(text) = IF signed < -(WORD \div 2) THEN -(WORD \div 2)
                                    ELSE IF signed >= WORD \div 2 THEN WORD \div 2 - 1 ELSE signed
  BY <1>4, AtoiReads, Zenon
<1>10. from = N
  BY <1>7, <1>8, <1>9, Zenon
<1>11. n = e + 1
  <2>1. CASE n < e + 1
    <3>1. n + 1 \in 1 .. e + 1
      BY <1>2, <1>9, <2>1
    <3> QED BY <1>3, <1>5, <1>9, <1>10, <2>1, <3>1, Zenon
  <2>2. CASE ~(n < e + 1)
    <3>1. n \in 0 .. e + 1
      BY <1>3, <1>9, <1>10, Zenon
    <3> QED BY <1>2, <2>2, <3>1
  <2> QED BY <2>1, <2>2, Zenon
<1>12. ReadAs(N, e + 1) = u
  <2>0. e + 1 \in Nat /\ u \in Nat
    BY <1>2, NumbersAreSmall
  <2>1. PICK f : /\ f[0] = 0 /\ ReadAs(N, e + 1) = f[e + 1]
                 /\ \A k \in 1 .. e + 1 : f[k] = 10 * f[k - 1] + N[k].value
    BY <2>0, ReadAsSteps, Zenon
  <2>2. \A k \in 1 .. e + 1 : f[k] = 10 * f[k - 1] + ((u \div Powers[e + 2 - k]) % 10)
    BY <1>5, <2>1, Zenon
  <2> DEFINE T == {k \in 1 .. e + 1 : f[k] # u \div Powers[e + 2 - k]}
  <2>3. T = {}
    <3> SUFFICES ASSUME T # {} PROVE FALSE
      BY Zenon
    <3>1. T \subseteq Nat
      BY <2>0
    <3>2. PICK k \in T : \A j \in T : k <= j
      <4> HIDE DEF T
      <4> QED BY <3>1, LeastNumber, Zenon
    <3>3. k \in 1 .. e + 1 /\ f[k] # u \div Powers[e + 2 - k]
      BY <3>2, Zenon
    <3>4. CASE k = 1
      <4>1. 1 \in 1 .. e + 1 /\ e + 2 - 1 = e + 1 /\ 1 - 1 = 0
        BY <1>2
      <4>2. PICK q \in 0 .. 9 : q = u \div Powers[e + 1]
        BY <1>2, ExponentFits, Zenon
      <4>3. f[1] = 10 * 0 + (q % 10)
        BY <2>1, <2>2, <4>1, <4>2, Zenon
      <4>4. f[1] = q
        BY <4>2, <4>3, SMTT(30)
      <4> QED BY <3>3, <3>4, <4>1, <4>2, <4>4, Zenon
    <3>5. CASE k # 1
      <4>1. /\ k - 1 \in 1 .. e + 1 /\ ~(k <= k - 1) /\ e + 2 - (k - 1) = (e + 2 - k) + 1
            /\ e + 2 - k \in 1 .. 9
        <5>1. k \in 1 .. e + 1 /\ e \in 0 .. 9 /\ k # 1
          BY <1>2, <3>3, <3>5, Zenon
        <5> QED BY <5>1
      <4>2. f[k - 1] = u \div Powers[(e + 2 - k) + 1]
        BY <3>2, <4>1, Zenon
      <4>3. f[k] = 10 * (u \div Powers[(e + 2 - k) + 1]) + ((u \div Powers[e + 2 - k]) % 10)
        BY <2>2, <3>3, <4>2, Zenon
      <4>4. u \div Powers[e + 2 - k]
               = 10 * (u \div Powers[(e + 2 - k) + 1]) + ((u \div Powers[e + 2 - k]) % 10)
        BY <2>0, <4>1, DigitsMakeUp, Zenon
      <4> QED BY <3>3, <4>3, <4>4, Zenon
    <3> QED BY <3>4, <3>5, Zenon
  <2>4. e + 1 \in 1 .. e + 1 /\ e + 2 - (e + 1) = 1 /\ u \div Powers[1] = u
    <3>1. e \in 0 .. 9 /\ u \in Nat /\ Powers[1] = 1
      BY <1>2, <2>0, PowersGrow, Zenon
    <3> QED BY <3>1
  <2> QED BY <2>1, <2>3, <2>4, Zenon
<1>13. PICK w \in Int : w = v /\ w = IF v < 0 THEN -u ELSE u
  BY <1>1, NumbersAreSmall
<1>14. v = IF text # <<>> /\ text[1] = Minus THEN -ReadAs(from, n) ELSE ReadAs(from, n)
  BY <1>8, <1>10, <1>11, <1>12, <1>13, Zenon
<1>15. v \in Int /\ ~(v < -(WORD \div 2)) /\ ~(v >= WORD \div 2)
  <2>1. PICK h \in Nat : h = WORD \div 2
    BY NumbersAreSmall
  <2>2. v \in -h .. h - 1
    BY <2>1, Zenon DEF Int32
  <2> QED BY <2>1, <2>2
<1>16. Atoi(text) = v
  BY <1>9, <1>14, <1>15, Zenon
<1> QED BY <1>16 DEF text

-----------------------------------------------------------------------------
(* Formats. *)

\* UARTwrite of no text sends nothing.
LEMMA WriteNone == UARTwrite(<<>>) = <<>>
<1>1. DOMAIN <<>> = {} /\ \A f : [k \in {} |-> f] = <<>>
  OBVIOUS
<1>2. [k \in DOMAIN <<>> |-> IF <<>>[k] = LF THEN <<CR, LF>> ELSE <<(<<>>[k])>>] = <<>>
  OBVIOUS
<1> QED BY <1>2, FlattenNone, Zenon DEF UARTwrite

\* What is written for one token.
Writes(t) == IF t = LF THEN <<CR, LF>> ELSE <<t>>

\* UARTwrite sends one token after the other.
LEMMA WriteAppend ==
    ASSUME NEW text \in Seq(Tokens), NEW t \in Tokens
    PROVE  /\ UARTwrite(text) \in Seq(Tokens)
           /\ UARTwrite(Append(text, t)) = UARTwrite(text) \o Writes(t)
<1>1. \A x \in Tokens : Writes(x) \in Seq(Tokens)
  <2> TAKE x \in Tokens
  <2>1. <<CR, LF>> \in Seq(Tokens) /\ <<x>> \in Seq(Tokens)
    BY TokenKinds
  <2> QED BY <2>1, Zenon DEF Writes
<1> DEFINE seqs(s) == [k \in DOMAIN s |-> Writes(s[k])]
<1>2. \A s \in Seq(Tokens) : /\ seqs(s) \in Seq(Seq(Tokens)) /\ Len(seqs(s)) = Len(s)
                             /\ \A k \in 1 .. Len(s) : seqs(s)[k] = Writes(s[k])
                             /\ UARTwrite(s) = FlattenSeq(seqs(s))
  <2> TAKE s \in Seq(Tokens)
  <2>1. Len(s) \in Nat /\ DOMAIN s = 1 .. Len(s) /\ \A k \in 1 .. Len(s) : Writes(s[k]) \in Seq(Tokens)
    BY <1>1, LenProperties, ElementOfSeq
  <2> DEFINE e(k) == Writes(s[k])
  <2>2. /\ [k \in 1 .. Len(s) |-> e(k)] \in Seq(Seq(Tokens))
        /\ Len([k \in 1 .. Len(s) |-> e(k)]) = Len(s)
        /\ \A k \in 1 .. Len(s) : [j \in 1 .. Len(s) |-> e(j)][k] = e(k)
    <3>1. \A k \in 1 .. Len(s) : e(k) \in Seq(Tokens)
      BY <2>1
    <3> HIDE DEF e
    <3> QED BY <2>1, <3>1
  <2>3. UARTwrite(s) = FlattenSeq(seqs(s))
    BY Zenon DEF UARTwrite, Writes
  <2> QED BY <2>1, <2>2, <2>3, Zenon
<1>3. UARTwrite(text) \in Seq(Tokens)
  BY <1>2, FlattenType, Zenon
<1>4. seqs(Append(text, t)) = Append(seqs(text), Writes(t))
  <2> DEFINE a == Append(text, t)
  <2>1. /\ a \in Seq(Tokens) /\ Len(a) = Len(text) + 1 /\ a[Len(text) + 1] = t
        /\ \A k \in 1 .. Len(text) : a[k] = text[k]
    BY AppendProperties
  <2> DEFINE b == Append(seqs(text), Writes(t))
  <2>2. /\ b \in Seq(Seq(Tokens)) /\ Len(b) = Len(text) + 1 /\ b[Len(text) + 1] = Writes(t)
        /\ \A k \in 1 .. Len(text) : b[k] = Writes(text[k])
    <3>1. PICK w \in Seq(Tokens) : w = Writes(t)
      BY <1>1, Zenon
    <3>2. PICK ss \in Seq(Seq(Tokens)) : ss = seqs(text)
      BY <1>2, Zenon
    <3>3. /\ Append(ss, w) \in Seq(Seq(Tokens)) /\ Len(Append(ss, w)) = Len(ss) + 1
          /\ Append(ss, w)[Len(ss) + 1] = w
          /\ \A k \in 1 .. Len(ss) : Append(ss, w)[k] = ss[k]
      BY AppendProperties
    <3>4. Len(ss) = Len(text) /\ \A k \in 1 .. Len(text) : ss[k] = Writes(text[k])
      BY <1>2, <3>2, Zenon
    <3> QED BY <3>1, <3>2, <3>3, <3>4, Zenon
  <2>3. /\ seqs(a) \in Seq(Seq(Tokens)) /\ Len(seqs(a)) = Len(text) + 1
        /\ \A k \in 1 .. Len(text) + 1 : seqs(a)[k] = Writes(a[k])
    BY <1>2, <2>1, Zenon
  <2>4. \A k \in 1 .. Len(text) + 1 : k \in 1 .. Len(text) \/ k = Len(text) + 1
    OBVIOUS
  <2>5. \A k \in 1 .. Len(text) + 1 : seqs(a)[k] = b[k]
    <3> HIDE DEF a, b, seqs
    <3> QED BY <2>1, <2>2, <2>3, <2>4, Zenon
  <2> HIDE DEF a, b, seqs
  <2> QED BY <2>2, <2>3, <2>5, SeqEqual, Zenon DEF a, b
<1>5. Append(text, t) \in Seq(Tokens)
  BY AppendProperties, Zenon
<1>6. FlattenSeq(Append(seqs(text), Writes(t))) = FlattenSeq(seqs(text)) \o Writes(t)
  <2> HIDE DEF seqs
  <2> QED BY <1>1, <1>2, FlattenAppend, Zenon
<1> QED BY <1>2, <1>3, <1>4, <1>5, <1>6, Zenon

\* A text without ends of line is written as it is.
LEMMA WritePlain ==
    ASSUME NEW text \in Seq(Plain)
    PROVE  UARTwrite(text) = text
<1>1. Len(text) \in Nat /\ DOMAIN text = 1 .. Len(text)
  BY LenProperties, Zenon
<1>2. \A k \in 1 .. Len(text) : text[k] \in Plain
  BY ElementOfSeq, Zenon
<1> DEFINE e(k) == <<text[k]>>
<1>3. [k \in 1 .. Len(text) |-> IF text[k] = LF THEN <<CR, LF>> ELSE <<text[k]>>]
         = [k \in 1 .. Len(text) |-> e(k)]
  BY <1>2, TokenKinds, Zenon
<1>4. \A k \in 1 .. Len(text) : e(k) \in Seq(Plain)
  BY <1>2
<1>5. /\ [k \in 1 .. Len(text) |-> e(k)] \in Seq(Seq(Plain))
      /\ Len([k \in 1 .. Len(text) |-> e(k)]) = Len(text)
      /\ \A k \in 1 .. Len(text) : [j \in 1 .. Len(text) |-> e(j)][k] = e(k)
  <2> HIDE DEF e
  <2> QED BY <1>1, <1>4
<1>6. FlattenSeq([k \in 1 .. Len(text) |-> e(k)]) = text
  BY <1>5, FlattenSingles, Zenon
<1> QED BY <1>1, <1>3, <1>6, Zenon DEF UARTwrite

\* An LF is sent with a CR before it, also where the text has one.
LEMMA WriteEnds ==
    /\ UARTwrite(<<LF>>) = <<CR, LF>>
    /\ UARTwrite(<<CR, LF>>) = <<CR, CR, LF>>
<1>1. /\ <<>> \in Seq(Tokens) /\ <<CR>> \in Seq(Tokens) /\ <<LF>> = Append(<<>>, LF)
      /\ <<CR>> = Append(<<>>, CR) /\ <<CR, LF>> = Append(<<CR>>, LF)
  BY TokenKinds
<1>2. /\ UARTwrite(<<LF>>) = <<>> \o <<CR, LF>> /\ UARTwrite(<<CR>>) = <<>> \o <<CR>>
  BY <1>1, WriteAppend, WriteNone, TokenKinds, Zenon DEF Writes
<1>3. <<>> \o <<CR, LF>> = <<CR, LF>> /\ <<>> \o <<CR>> = <<CR>> /\ <<CR>> \o <<CR, LF>> = <<CR, CR, LF>>
  <2>1. \A a, b : <<>> \o <<a>> = <<a>>
    OBVIOUS
  <2>2. \A a, b : <<>> \o <<a, b>> = <<a, b>>
    OBVIOUS
  <2>3. ASSUME NEW a, NEW b PROVE <<a>> \o <<a, b>> = <<a, a, b>>
    <3> DEFINE s == <<a>> \o <<a, b>>
               t == <<a, a, b>>
    <3>1. <<a>> \in Seq({a, b}) /\ <<a, b>> \in Seq({a, b})
      OBVIOUS
    <3>2. s \in Seq({a, b}) /\ Len(s) = 3 /\ s[1] = a /\ s[2] = a /\ s[3] = b
      BY <3>1
    <3>3. t \in Seq({a, b}) /\ Len(t) = 3 /\ t[1] = a /\ t[2] = a /\ t[3] = b
      OBVIOUS
    <3>4. \A i \in 1 .. 3 : i = 1 \/ i = 2 \/ i = 3
      OBVIOUS
    <3> HIDE DEF s, t
    <3>5. s = t
      BY <3>2, <3>3, <3>4, SeqEqual
    <3> QED BY <3>5 DEF s, t
  <2> QED BY <2>1, <2>2, <2>3, Zenon
<1>4. UARTwrite(<<CR, LF>>) = <<CR>> \o <<CR, LF>>
  BY <1>1, <1>2, <1>3, WriteAppend, TokenKinds, Zenon DEF Writes
<1> QED BY <1>2, <1>3, <1>4, Zenon

\* A piece of a format, of numbers without a width and of texts of tokens of S.
Pieces(S) == { Text(t) : t \in S } \cup { String(s) : s \in Seq(S) }
                \cup { Decimal(v, 0, Space) : v \in Int32 }

\* What is written for it, but for the CRs.
PieceText(f) == IF f.as = "text" THEN f.of ELSE UARTDecimal(f.of, f.width, f.fill)

\* The pieces of the formats that the program prints.
LEMMA PiecesFit ==
    /\ Pieces(Plain) \subseteq Pieces(Tokens)
    /\ \A f \in Pieces(Plain) : PieceText(f) \in Seq(Plain)
    /\ \A f \in Pieces(Tokens) : PieceText(f) \in Seq(Tokens)
    /\ Text(LF) \in Pieces(Tokens) /\ PieceText(Text(LF)) = <<LF>>
    /\ \A x \in Words : Text(Word(x)) \in Pieces(Plain)
    /\ \A s \in Seq(Plain) : String(s) \in Pieces(Plain)
    /\ \A v \in Int32 : Decimal(v, 0, Space) \in Pieces(Plain)
<1>1. Seq(Plain) \subseteq Seq(Tokens)
  BY TokenKinds, SeqMonotonic
<1>2. \A t : PieceText(Text(t)) = <<t>>
  BY DEF PieceText, Text
<1>3. \A s : PieceText(String(s)) = s
  BY DEF PieceText, String
<1>4. \A v : PieceText(Decimal(v, 0, Space)) = UARTDecimal(v, 0, Space)
  BY DEF PieceText, Decimal
<1>5. Pieces(Plain) \subseteq Pieces(Tokens)
  BY <1>1, TokenKinds, Zenon DEF Pieces
<1>6. \A t \in Plain : <<t>> \in Seq(Plain)
  OBVIOUS
<1>7. \A t \in Tokens : <<t>> \in Seq(Tokens)
  OBVIOUS
<1>8. \A f \in Pieces(Plain) : PieceText(f) \in Seq(Plain)
  BY <1>2, <1>3, <1>4, <1>6, DecimalsFit, Zenon DEF Pieces
<1>9. \A f \in Pieces(Tokens) : PieceText(f) \in Seq(Tokens)
  BY <1>1, <1>2, <1>3, <1>4, <1>7, DecimalsFit, ZenonT(60) DEF Pieces
<1>10. /\ Text(LF) \in Pieces(Tokens)
       /\ \A x \in Words : Text(Word(x)) \in Pieces(Plain)
       /\ \A s \in Seq(Plain) : String(s) \in Pieces(Plain)
       /\ \A v \in Int32 : Decimal(v, 0, Space) \in Pieces(Plain)
  BY TokenKinds, Zenon DEF Pieces
<1> QED BY <1>2, <1>5, <1>8, <1>9, <1>10, Zenon

\* A format is printed piece by piece.
LEMMA PrintfPieces ==
    ASSUME NEW S, S = Plain \/ S = Tokens, NEW format \in Seq(Pieces(S))
    PROVE  /\ UARTprintf(format) \in Seq(S)
           /\ \A f \in Pieces(S) :
                 UARTprintf(Append(format, f)) = UARTprintf(format) \o UARTwrite(PieceText(f))
<1> DEFINE w(f) == UARTwrite(PieceText(f))
           seqs(s) == [k \in DOMAIN s |-> w(s[k])]
<1>1. \A f \in Pieces(S) : w(f) \in Seq(S)
  <2>1. \A s \in Seq(Plain) : UARTwrite(s) \in Seq(Plain)
    BY WritePlain, Zenon
  <2>2. \A s \in Seq(Tokens) : UARTwrite(s) \in Seq(Tokens)
    BY WriteAppend, TokenKinds, Zenon
  <2> QED BY <2>1, <2>2, PiecesFit, Zenon
<1>2. \A s \in Seq(Pieces(S)) : /\ seqs(s) \in Seq(Seq(S)) /\ Len(seqs(s)) = Len(s)
                                /\ \A k \in 1 .. Len(s) : seqs(s)[k] = w(s[k])
                                /\ UARTprintf(s) = FlattenSeq(seqs(s))
  <2> TAKE s \in Seq(Pieces(S))
  <2>0. \A k \in 1 .. Len(s) : s[k] \in Pieces(S)
    BY ElementOfSeq, Zenon
  <2>1. Len(s) \in Nat /\ DOMAIN s = 1 .. Len(s) /\ \A k \in 1 .. Len(s) : w(s[k]) \in Seq(S)
    BY <1>1, <2>0, LenProperties, Zenon
  <2> DEFINE e(k) == w(s[k])
  <2>2. /\ [k \in 1 .. Len(s) |-> e(k)] \in Seq(Seq(S))
        /\ Len([k \in 1 .. Len(s) |-> e(k)]) = Len(s)
        /\ \A k \in 1 .. Len(s) : [j \in 1 .. Len(s) |-> e(j)][k] = e(k)
    <3>1. \A k \in 1 .. Len(s) : e(k) \in Seq(S)
      BY <2>1, Zenon
    <3> HIDE DEF e
    <3> QED BY <2>1, <3>1
  <2>3. UARTprintf(s) = FlattenSeq(seqs(s))
    BY Zenon DEF UARTprintf, PieceText
  <2> QED BY <2>1, <2>2, <2>3, Zenon
<1> HIDE DEF w
<1>3. UARTprintf(format) \in Seq(S)
  BY <1>2, FlattenType, Zenon
<1>4. ASSUME NEW f \in Pieces(S)
      PROVE  UARTprintf(Append(format, f)) = UARTprintf(format) \o w(f)
  <2> DEFINE a == Append(format, f)
             b == Append(seqs(format), w(f))
  <2>1. /\ a \in Seq(Pieces(S)) /\ Len(a) = Len(format) + 1 /\ a[Len(format) + 1] = f
        /\ \A k \in 1 .. Len(format) : a[k] = format[k]
    BY AppendProperties
  <2>2. /\ b \in Seq(Seq(S)) /\ Len(b) = Len(format) + 1 /\ b[Len(format) + 1] = w(f)
        /\ \A k \in 1 .. Len(format) : b[k] = w(format[k])
    <3>1. PICK x \in Seq(S) : x = w(f)
      BY <1>1, Zenon
    <3>2. PICK ss \in Seq(Seq(S)) : ss = seqs(format)
      BY <1>2, Zenon
    <3>3. /\ Append(ss, x) \in Seq(Seq(S)) /\ Len(Append(ss, x)) = Len(ss) + 1
          /\ Append(ss, x)[Len(ss) + 1] = x
          /\ \A k \in 1 .. Len(ss) : Append(ss, x)[k] = ss[k]
      BY AppendProperties
    <3>4. Len(ss) = Len(format) /\ \A k \in 1 .. Len(format) : ss[k] = w(format[k])
      BY <1>2, <3>2, Zenon
    <3> QED BY <3>1, <3>2, <3>3, <3>4, Zenon
  <2>3. /\ seqs(a) \in Seq(Seq(S)) /\ Len(seqs(a)) = Len(format) + 1
        /\ \A k \in 1 .. Len(format) + 1 : seqs(a)[k] = w(a[k])
    BY <1>2, <2>1, Zenon
  <2>4. \A k \in 1 .. Len(format) + 1 : k \in 1 .. Len(format) \/ k = Len(format) + 1
    OBVIOUS
  <2>5. \A k \in 1 .. Len(format) + 1 : seqs(a)[k] = b[k]
    <3> HIDE DEF a, b, seqs
    <3> QED BY <2>1, <2>2, <2>3, <2>4, Zenon
  <2>6. seqs(a) = b
    <3> HIDE DEF a, b, seqs
    <3> QED BY <2>2, <2>3, <2>5, SeqEqual, Zenon
  <2>7. FlattenSeq(b) = FlattenSeq(seqs(format)) \o w(f)
    <3> HIDE DEF seqs
    <3> QED BY <1>1, <1>2, FlattenAppend, Zenon
  <2> HIDE DEF seqs
  <2> QED BY <1>2, <2>1, <2>6, <2>7, Zenon
<1> QED BY <1>3, <1>4, Zenon DEF w

\* A log line or a command is a line.
LEMMA PrintfLine ==
    ASSUME NEW format \in Seq(Pieces(Plain))
    PROVE  /\ UARTprintf(Append(format, Text(LF))) \in Seq(Tokens) \ {<<>>}
           /\ UARTprintf(Append(format, Text(LF))) = UARTprintf(format) \o <<CR, LF>>
           /\ LineOf(UARTprintf(Append(format, Text(LF))))
                 = [text |-> UARTprintf(format), end |-> <<CR, LF>>]
<1>1. PICK line \in Seq(Plain) : line = UARTprintf(format)
  BY PrintfPieces, Zenon
<1>2. format \in Seq(Pieces(Tokens))
  BY PiecesFit, SeqMonotonic, Zenon
<1>3. UARTprintf(Append(format, Text(LF))) = line \o <<CR, LF>>
  <2>1. UARTprintf(Append(format, Text(LF))) = UARTprintf(format) \o UARTwrite(PieceText(Text(LF)))
    BY <1>2, PrintfPieces, PiecesFit, Zenon
  <2> QED BY <1>1, <2>1, PiecesFit, WriteEnds, Zenon
<1>4. line \in Seq(Tokens) /\ <<CR, LF>> \in Seq(Tokens) /\ Len(<<CR, LF>>) = 2
  <2>1. line \in Seq(Tokens)
    BY <1>1, TokenKinds, SeqMonotonic, Zenon
  <2>2. <<CR, LF>> \in Seq(Tokens) /\ Len(<<CR, LF>>) = 2
    BY TokenKinds
  <2> QED BY <2>1, <2>2, Zenon
<1>5. /\ line \o <<CR, LF>> \in Seq(Tokens) /\ Len(line \o <<CR, LF>>) = Len(line) + 2
      /\ line \o <<CR, LF>> # <<>>
      /\ SubSeq(line \o <<CR, LF>>, 1, Len(line)) = line
  BY <1>4
<1>6. (Len(line) + 2) - 2 = Len(line)
  BY <1>4
<1> QED BY <1>1, <1>3, <1>5, <1>6, Zenon DEF LineOf

\* What the machine's sprintf makes of a name and a value.
LEMMA ValueTextFits ==
    ASSUME NEW i \in Items, NEW v \in Int32
    PROVE  usprintf(<<Text(Word(i)), Decimal(v, 0, Space)>>)
              = <<Word(i)>> \o StringDecimal(v, 0, Space)
<1> DEFINE d == StringDecimal(v, 0, Space)
           format == <<Text(Word(i)), Decimal(v, 0, Space)>>
           seqs == <<(<<Word(i)>>), d>>
<1>1. Word(i) \in Plain /\ d \in Seq(Plain) /\ Len(d) \in 1 .. 11
  BY TokenKinds, DecimalsFit, Zenon DEF Words
<1> HIDE DEF d
<1>2. Converted(format) = FlattenSeq(seqs)
  <2>1. /\ Text(Word(i)).as = "text" /\ Text(Word(i)).of = <<Word(i)>>
        /\ Decimal(v, 0, Space).as # "text" /\ Decimal(v, 0, Space).of = v
        /\ Decimal(v, 0, Space).width = 0 /\ Decimal(v, 0, Space).fill = Space
    BY DEF Text, Decimal
  <2> DEFINE c(f) == IF f.as = "text" THEN f.of ELSE StringDecimal(f.of, f.width, f.fill)
  <2>2. c(Text(Word(i))) = <<Word(i)>> /\ c(Decimal(v, 0, Space)) = d
    BY <2>1, Zenon DEF d
  <2>3. Converted(format) = FlattenSeq([k \in DOMAIN format |-> c(format[k])])
    BY Zenon DEF Converted
  <2> HIDE DEF c
  <2>4. ASSUME NEW a, NEW b
        PROVE  [k \in DOMAIN <<a, b>> |-> c(<<a, b>>[k])] = <<c(a), c(b)>>
    OBVIOUS
  <2> QED BY <2>2, <2>3, <2>4, ZenonT(60)
<1>3. FlattenSeq(seqs) = <<Word(i)>> \o d
  <2>1. <<Word(i)>> \in Seq(Plain)
    BY <1>1
  <2>2. \A a, b \in Seq(Plain) : FlattenSeq(<<a, b>>) = a \o b
    <3> TAKE a, b \in Seq(Plain)
    <3>1. /\ <<>> \in Seq(Seq(Plain)) /\ <<a>> \in Seq(Seq(Plain))
          /\ <<a>> = Append(<<>>, a) /\ <<a, b>> = Append(<<a>>, b)
      <4>1. ASSUME NEW S, NEW x \in S, NEW y \in S
            PROVE  /\ <<>> \in Seq(S) /\ <<x>> \in Seq(S)
                   /\ <<x>> = Append(<<>>, x) /\ <<x, y>> = Append(<<x>>, y)
        OBVIOUS
      <4> QED BY <4>1, Zenon
    <3>2. FlattenSeq(<<a>>) = <<>> \o a
      BY <3>1, FlattenAppend, FlattenNone, Zenon
    <3>3. FlattenSeq(<<a, b>>) = (<<>> \o a) \o b
      BY <3>1, <3>2, FlattenAppend, Zenon
    <3> QED BY <3>3, ConcatEmptySeq, Zenon
  <2> QED BY <1>1, <2>1, <2>2, Zenon
<1>4. PICK n \in Nat : n > 12 /\ usprintf(format) = Copied(Converted(format), n)
  BY SMT DEF usprintf, uvsnprintf
<1>5. Copied(<<Word(i)>> \o d, n) = <<Word(i)>> \o d
  <2>1. <<Word(i)>> \in Seq(Plain) /\ Len(<<Word(i)>>) = 1
    BY <1>1
  <2>2. PICK s \in Seq(Plain) : s = <<Word(i)>> \o d /\ Len(s) = 1 + Len(d)
    <3>1. <<Word(i)>> \o d \in Seq(Plain) /\ Len(<<Word(i)>> \o d) = Len(<<Word(i)>>) + Len(d)
      BY <1>1, <2>1, ConcatProperties, Zenon
    <3> QED BY <2>1, <3>1, Zenon
  <2>3. Len(s) < n
    <3>1. \A l \in 1 .. 11 : 1 + l < n
      BY <1>4
    <3> QED BY <1>1, <2>2, <3>1, Zenon
  <2>4. SubSeq(s, 1, Len(s)) = s
    BY SubSeqFull, Zenon
  <2> QED BY <2>2, <2>3, <2>4, Zenon DEF Copied
<1> QED BY <1>2, <1>3, <1>4, <1>5, Zenon DEF d

-----------------------------------------------------------------------------
(* The lines on their way to the machine. *)

\* A line on its way: its text, and how it ends.
LineSet == [text : Seq(Plain), end : {<<CR>>, <<CR, LF>>}]

\* The tokens that lines are sent as.
Stream(lines) == FlattenSeq([k \in DOMAIN lines |-> lines[k].text \o lines[k].end])

\* The text and the end of a line are tokens.
LEMMA LineTokens ==
    /\ \A l \in LineSet : /\ l.text \in Seq(Plain) /\ l.text \in Seq(Tokens) /\ l.end \in Seq(Tokens)
                          /\ l.text \o l.end \in Seq(Tokens)
    /\ \A t \in Seq(Plain) : /\ [text |-> t, end |-> <<CR>>] \in LineSet
                             /\ [text |-> t, end |-> <<CR, LF>>] \in LineSet
<1>1. \A l \in LineSet : l.text \in Seq(Plain) /\ (l.end = <<CR>> \/ l.end = <<CR, LF>>)
  BY DEF LineSet
<1>2. <<CR>> \in Seq(Tokens) /\ <<CR, LF>> \in Seq(Tokens)
  BY TokenKinds
<1>3. Seq(Plain) \subseteq Seq(Tokens)
  BY TokenKinds, SeqMonotonic
<1>4. \A l \in LineSet : l.text \in Seq(Plain) /\ l.text \in Seq(Tokens) /\ l.end \in Seq(Tokens)
  BY <1>1, <1>2, <1>3, Zenon
<1>5. \A l \in LineSet : l.text \o l.end \in Seq(Tokens)
  BY <1>4, ConcatProperties, Zenon
<1>6. \A t \in Seq(Plain) : /\ [text |-> t, end |-> <<CR>>] \in LineSet
                            /\ [text |-> t, end |-> <<CR, LF>>] \in LineSet
  BY DEF LineSet
<1> QED BY <1>4, <1>5, <1>6, Zenon

\* Lines are sent in their order: a new one last, the first one first.
LEMMA StreamFits ==
    ASSUME NEW lines \in Seq(LineSet)
    PROVE  /\ Stream(lines) \in Seq(Tokens)
           /\ \A l \in LineSet : Stream(Append(lines, l)) = Stream(lines) \o (l.text \o l.end)
           /\ lines # <<>> =>
                 Stream(lines) = (Head(lines).text \o Head(lines).end) \o Stream(Tail(lines))
<1> DEFINE w(l) == l.text \o l.end
           seqs(s) == [k \in DOMAIN s |-> w(s[k])]
<1>1. \A l \in LineSet : w(l) \in Seq(Tokens)
  BY LineTokens, Zenon
<1>2. \A s \in Seq(LineSet) : /\ seqs(s) \in Seq(Seq(Tokens)) /\ Len(seqs(s)) = Len(s)
                              /\ \A k \in 1 .. Len(s) : seqs(s)[k] = w(s[k])
                              /\ Stream(s) = FlattenSeq(seqs(s))
  <2> TAKE s \in Seq(LineSet)
  <2>0. \A k \in 1 .. Len(s) : s[k] \in LineSet
    BY ElementOfSeq, Zenon
  <2>1. Len(s) \in Nat /\ DOMAIN s = 1 .. Len(s) /\ \A k \in 1 .. Len(s) : w(s[k]) \in Seq(Tokens)
    BY <1>1, <2>0, LenProperties, Zenon
  <2> DEFINE e(k) == w(s[k])
  <2>2. /\ [k \in 1 .. Len(s) |-> e(k)] \in Seq(Seq(Tokens))
        /\ Len([k \in 1 .. Len(s) |-> e(k)]) = Len(s)
        /\ \A k \in 1 .. Len(s) : [j \in 1 .. Len(s) |-> e(j)][k] = e(k)
    <3>1. \A k \in 1 .. Len(s) : e(k) \in Seq(Tokens)
      BY <2>1, Zenon
    <3> HIDE DEF e
    <3> QED BY <2>1, <3>1
  <2>3. Stream(s) = FlattenSeq(seqs(s))
    BY Zenon DEF Stream
  <2> QED BY <2>1, <2>2, <2>3, Zenon
<1> HIDE DEF w
<1>3. Stream(lines) \in Seq(Tokens)
  BY <1>2, FlattenType, Zenon
<1>4. ASSUME NEW l \in LineSet
      PROVE  Stream(Append(lines, l)) = Stream(lines) \o w(l)
  <2> DEFINE a == Append(lines, l)
             b == Append(seqs(lines), w(l))
  <2>1. /\ a \in Seq(LineSet) /\ Len(a) = Len(lines) + 1 /\ a[Len(lines) + 1] = l
        /\ \A k \in 1 .. Len(lines) : a[k] = lines[k]
    BY AppendProperties
  <2>2. /\ b \in Seq(Seq(Tokens)) /\ Len(b) = Len(lines) + 1 /\ b[Len(lines) + 1] = w(l)
        /\ \A k \in 1 .. Len(lines) : b[k] = w(lines[k])
    <3>1. PICK x \in Seq(Tokens) : x = w(l)
      BY <1>1, Zenon
    <3>2. PICK ss \in Seq(Seq(Tokens)) : ss = seqs(lines)
      BY <1>2, Zenon
    <3>3. /\ Append(ss, x) \in Seq(Seq(Tokens)) /\ Len(Append(ss, x)) = Len(ss) + 1
          /\ Append(ss, x)[Len(ss) + 1] = x
          /\ \A k \in 1 .. Len(ss) : Append(ss, x)[k] = ss[k]
      BY AppendProperties
    <3>4. Len(ss) = Len(lines) /\ \A k \in 1 .. Len(lines) : ss[k] = w(lines[k])
      BY <1>2, <3>2, Zenon
    <3> QED BY <3>1, <3>2, <3>3, <3>4, Zenon
  <2>3. /\ seqs(a) \in Seq(Seq(Tokens)) /\ Len(seqs(a)) = Len(lines) + 1
        /\ \A k \in 1 .. Len(lines) + 1 : seqs(a)[k] = w(a[k])
    BY <1>2, <2>1, Zenon
  <2>4. \A k \in 1 .. Len(lines) + 1 : k \in 1 .. Len(lines) \/ k = Len(lines) + 1
    OBVIOUS
  <2>5. \A k \in 1 .. Len(lines) + 1 : seqs(a)[k] = b[k]
    <3> HIDE DEF a, b, seqs
    <3> QED BY <2>1, <2>2, <2>3, <2>4, Zenon
  <2>6. seqs(a) = b
    <3> HIDE DEF a, b, seqs
    <3> QED BY <2>2, <2>3, <2>5, SeqEqual, Zenon
  <2>7. FlattenSeq(b) = FlattenSeq(seqs(lines)) \o w(l)
    <3> HIDE DEF seqs
    <3> QED BY <1>1, <1>2, FlattenAppend, Zenon
  <2> HIDE DEF seqs
  <2> QED BY <1>2, <2>1, <2>6, <2>7, Zenon
<1>5. ASSUME lines # <<>>
      PROVE  Stream(lines) = w(Head(lines)) \o Stream(Tail(lines))
  <2>1. /\ Len(lines) \in Nat \ {0} /\ Head(lines) = lines[1] /\ Head(lines) \in LineSet
        /\ Tail(lines) \in Seq(LineSet) /\ Len(Tail(lines)) = Len(lines) - 1
        /\ \A k \in 1 .. Len(Tail(lines)) : Tail(lines)[k] = lines[k + 1]
    <3>1. Len(lines) \in Nat \ {0} /\ Head(lines) = lines[1]
      BY <1>5
    <3> QED BY <1>5, <3>1, HeadTailProperties, Zenon
  <2>2. PICK ss \in Seq(Seq(Tokens)) : ss = seqs(lines)
    BY <1>2, Zenon
  <2>3. Len(ss) = Len(lines) /\ \A k \in 1 .. Len(lines) : ss[k] = w(lines[k])
    BY <1>2, <2>2, Zenon
  <2>4. 1 \in 1 .. Len(lines) /\ \A k \in 1 .. Len(lines) - 1 : k + 1 \in 1 .. Len(lines)
    BY <2>1
  <2>5. ss # <<>> /\ Head(ss) = w(Head(lines))
    <3>1. ss # <<>> /\ Head(ss) = ss[1]
      BY <2>1, <2>3
    <3> QED BY <2>1, <2>3, <2>4, <3>1, Zenon
  <2>6. /\ Tail(ss) \in Seq(Seq(Tokens)) /\ Len(Tail(ss)) = Len(ss) - 1
        /\ \A k \in 1 .. Len(Tail(ss)) : Tail(ss)[k] = ss[k + 1]
    BY <2>5, HeadTailProperties, Zenon
  <2>7. /\ seqs(Tail(lines)) \in Seq(Seq(Tokens)) /\ Len(seqs(Tail(lines))) = Len(lines) - 1
        /\ \A k \in 1 .. Len(lines) - 1 : seqs(Tail(lines))[k] = w(Tail(lines)[k])
    BY <1>2, <2>1, Zenon
  <2>8. Tail(ss) = seqs(Tail(lines))
    <3> HIDE DEF seqs
    <3>1. \A k \in 1 .. Len(lines) - 1 : Tail(ss)[k] = seqs(Tail(lines))[k]
      BY <2>1, <2>3, <2>4, <2>6, <2>7, Zenon
    <3> QED BY <2>3, <2>6, <2>7, <3>1, SeqEqual, Zenon
  <2>9. FlattenSeq(ss) = Head(ss) \o FlattenSeq(Tail(ss))
    BY <2>5, FlattenCons, Zenon
  <2> HIDE DEF seqs
  <2> QED BY <1>2, <2>1, <2>2, <2>5, <2>8, <2>9, Zenon
<1> QED BY <1>3, <1>4, <1>5, Zenon DEF w

\* No lines are sent as no tokens.
LEMMA StreamNone == Stream(<<>>) = <<>>
<1>1. [k \in DOMAIN <<>> |-> <<>>[k].text \o <<>>[k].end] = <<>>
  OBVIOUS
<1> QED BY <1>1, FlattenNone, Zenon DEF Stream

\* Tokens one after the other.
LEMMA Joins ==
    /\ \A a, b, c \in Seq(Tokens) : (a \o b) \o c = a \o (b \o c)
    /\ \A a, b \in Seq(Tokens) : a \o b \in Seq(Tokens)
    /\ \A a \in Seq(Tokens) : a \o <<>> = a /\ <<>> \o a = a
    /\ \A a \in Seq(Plain) : a \in Seq(Tokens)
    /\ <<>> \in Seq(Tokens) /\ <<>> \in Seq(Plain)
<1>1. \A a, b, c \in Seq(Tokens) : (a \o b) \o c = a \o (b \o c)
  BY JoinAssociative
<1>2. \A a, b \in Seq(Tokens) : a \o b \in Seq(Tokens)
  BY ConcatProperties, Zenon
<1>3. \A a \in Seq(Tokens) : a \o <<>> = a /\ <<>> \o a = a
  BY ConcatEmptySeq, Zenon
<1>4. <<>> \in Seq(Tokens) /\ <<>> \in Seq(Plain)
  BY EmptySeq, Zenon
<1>5. \A a \in Seq(Plain) : a \in Seq(Tokens)
  BY TokenKinds, SeqMonotonic, Zenon
<1> QED BY <1>1, <1>2, <1>3, <1>4, <1>5, Zenon

\* What ends a line, and what is behind the end.
LEMMA Ends ==
    /\ <<CR>> \in Seq(Tokens) /\ <<LF>> \in Seq(Tokens)
    /\ <<CR, LF>> = <<CR>> \o <<LF>>
    /\ \A a \in Seq(Tokens) : /\ <<CR>> \o a # <<>> /\ Head(<<CR>> \o a) = CR /\ Tail(<<CR>> \o a) = a
                              /\ <<LF>> \o a # <<>> /\ Head(<<LF>> \o a) = LF /\ Tail(<<LF>> \o a) = a
<1>1. <<CR>> \in Seq(Tokens) /\ <<LF>> \in Seq(Tokens)
  BY TokenKinds
<1>2. \A a, b \in Tokens : <<a, b>> = <<a>> \o <<b>>
  BY JoinSingles, Zenon
<1>3. ASSUME NEW S, NEW c \in S, NEW a \in Seq(S)
      PROVE  <<c>> \o a # <<>> /\ Head(<<c>> \o a) = c /\ Tail(<<c>> \o a) = a
  <2>1. <<c>> \in Seq(S) /\ Len(<<c>>) = 1 /\ <<c>>[1] = c
    OBVIOUS
  <2> QED BY <2>1
<1>4. \A a \in Seq(Tokens) : /\ <<CR>> \o a # <<>> /\ Head(<<CR>> \o a) = CR /\ Tail(<<CR>> \o a) = a
                             /\ <<LF>> \o a # <<>> /\ Head(<<LF>> \o a) = LF /\ Tail(<<LF>> \o a) = a
  BY <1>3, TokenKinds, Zenon
<1> QED BY <1>1, <1>2, <1>4, TokenKinds, Zenon

\* Texts may be joined in any order.
LEMMA JoinOrder == \A a, b, c \in Seq(Tokens) : (a \o b) \o c = a \o (b \o c)
BY JoinAssociative

\* The same of an operator that the provers know nothing else about.
Join(a, b) == a \o b

\* The laws of Join that the proofs below rest on.
LEMMA JoinLaws ==
    /\ \A a, b \in Seq(Tokens) : Join(a, b) \in Seq(Tokens)
    /\ \A a, b, c \in Seq(Tokens) : Join(Join(a, b), c) = Join(a, Join(b, c))
    /\ \A a \in Seq(Tokens) : Join(a, <<>>) = a /\ Join(<<>>, a) = a
    /\ <<>> \in Seq(Tokens)
BY Joins, JoinOrder, Zenon DEF Join

\* What is behind the first line's text does not depend on how it is put together.
LEMMA Regroup ==
    \A t, c, r, s, q \in Seq(Tokens) :
        Join(Join(Join(t, Join(c, r)), s), q) = Join(t, Join(c, Join(r, Join(s, q))))
BY JoinLaws, SMT

\* Where the first token is that is not inside a line.
LEMMA FirstEnd ==
    \A a, b \in Seq(Plain), x, y \in Seq(Tokens) :
        (/\ a \o x = b \o y
         /\ x # <<>> /\ Head(x) \notin Plain
         /\ y = <<>> \/ Head(y) \notin Plain)
        => a = b /\ x = y
<1> SUFFICES ASSUME NEW a \in Seq(Plain), NEW b \in Seq(Plain),
                    NEW x \in Seq(Tokens), NEW y \in Seq(Tokens),
                    a \o x = b \o y, x # <<>>, Head(x) \notin Plain,
                    y = <<>> \/ Head(y) \notin Plain
             PROVE  a = b /\ x = y
  BY Zenon
<1>0. a \in Seq(Tokens) /\ b \in Seq(Tokens)
  BY TokenKinds, SeqMonotonic
<1>1. PICK l \in Nat, m \in Nat, p \in Nat, q \in Nat :
         l = Len(a) /\ m = Len(b) /\ p = Len(x) /\ q = Len(y) /\ p # 0
  BY EmptySeq, LenProperties
<1>2. l + p = m + q
  <2>1. Len(a \o x) = l + p /\ Len(b \o y) = m + q
    BY <1>0, <1>1, ConcatProperties
  <2> QED BY <2>1
<1>3. /\ \A i \in 1 .. l + p : (a \o x)[i] = IF i <= l THEN a[i] ELSE x[i - l]
      /\ \A i \in 1 .. m + q : (b \o y)[i] = IF i <= m THEN b[i] ELSE y[i - m]
  BY <1>0, <1>1, ConcatProperties, Zenon
<1>4. ~(l < m)
  <2> SUFFICES ASSUME l < m PROVE FALSE
    OBVIOUS
  <2>1. l + 1 \in 1 .. l + p /\ l + 1 \in 1 .. m + q /\ ~(l + 1 <= l) /\ l + 1 <= m
        /\ (l + 1) - l = 1 /\ l + 1 \in 1 .. m
    BY <1>1, <1>2
  <2>2. x[1] = b[l + 1]
    BY <1>3, <2>1, Zenon
  <2>3. x[1] = Head(x)
    BY <1>1
  <2>4. b[l + 1] \in Plain
    BY <1>1, <2>1, ElementOfSeq, Zenon
  <2> QED BY <2>2, <2>3, <2>4, Zenon
<1>5. ~(m < l)
  <2> SUFFICES ASSUME m < l PROVE FALSE
    OBVIOUS
  <2>1. m + 1 \in 1 .. l + p /\ m + 1 \in 1 .. m + q /\ ~(m + 1 <= m) /\ m + 1 <= l
        /\ (m + 1) - m = 1 /\ m + 1 \in 1 .. l /\ q # 0
    BY <1>1, <1>2
  <2>2. y[1] = a[m + 1]
    BY <1>3, <2>1, Zenon
  <2>3. y[1] = Head(y) /\ y # <<>>
    BY <1>1, <2>1
  <2>4. a[m + 1] \in Plain
    BY <1>1, <2>1, ElementOfSeq, Zenon
  <2> QED BY <2>2, <2>3, <2>4, Zenon
<1>6. l = m /\ p = q
  BY <1>2, <1>4, <1>5
<1>7. a = b
  <2>1. \A i \in 1 .. l : i \in 1 .. l + p /\ i \in 1 .. m + q /\ i <= l /\ i <= m
    BY <1>1, <1>6
  <2>2. \A i \in 1 .. l : a[i] = b[i]
    BY <1>3, <2>1, Zenon
  <2> QED BY <1>1, <1>6, <2>2, SeqEqual, Zenon
<1>8. x = y
  <2>1. \A i \in 1 .. p : l + i \in 1 .. l + p /\ l + i \in 1 .. m + q /\ ~(l + i <= l) /\ ~(l + i <= m)
                          /\ (l + i) - l = i /\ (l + i) - m = i
    BY <1>1, <1>6
  <2>2. \A i \in 1 .. p : x[i] = y[i]
    BY <1>3, <2>1, Zenon
  <2> QED BY <1>1, <1>6, <2>2, SeqEqual, Zenon
<1> QED BY <1>7, <1>8

\* What may follow the CR of an end of line.
Lates == {<<>>, <<LF>>}

\* The token that ends what was read of a line is the CR of the first line that
\* is not read, and its LF, if it has one, is next.
LEMMA FirstLine ==
    \A lines \in Seq(LineSet), rest \in Seq(Plain), read \in Seq(Plain), x \in Seq(Tokens) :
        (x # <<>> /\ Head(x) \notin Plain /\ Join(read, x) = Join(Stream(lines), rest))
        => /\ Head(x) = CR /\ lines # <<>> /\ Head(lines).text = read
           /\ \E rem \in Lates : Tail(x) = Join(rem, Join(Stream(Tail(lines)), rest))
<1> TAKE lines \in Seq(LineSet), rest \in Seq(Plain), read \in Seq(Plain), x \in Seq(Tokens)
<1> HAVE x # <<>> /\ Head(x) \notin Plain /\ Join(read, x) = Join(Stream(lines), rest)
<1>0. read \o x = Stream(lines) \o rest
  BY Zenon DEF Join
<1>1. lines # <<>>
  <2> SUFFICES ASSUME lines = <<>> PROVE FALSE
    OBVIOUS
  <2>1. read \o x = <<>> \o rest
    BY <1>0, StreamNone, Zenon
  <2>2. <<>> \o rest = rest /\ rest \o <<>> = rest
    BY ConcatEmptySeq, Zenon
  <2>3. read \o x = rest \o <<>>
    BY <2>1, <2>2, Zenon
  <2>4. x = <<>>
    BY <2>3, Joins, FirstEnd
  <2> QED BY <2>4
<1> DEFINE l == Head(lines)
           S == Stream(Tail(lines))
<1>2. l \in LineSet /\ Tail(lines) \in Seq(LineSet)
  BY <1>1, HeadTailProperties, Zenon
<1>3. S \in Seq(Tokens)
  BY <1>2, StreamFits, Zenon
<1>4. l.text \in Seq(Plain) /\ l.text \in Seq(Tokens)
  BY <1>2, LineTokens, Zenon
<1>5. PICK rem \in {<<>>, <<LF>>} : l.end = <<CR>> \o rem
  <2>1. l.end = <<CR>> \/ l.end = <<CR, LF>>
    BY <1>2 DEF LineSet
  <2>2. <<CR>> \o <<>> = <<CR>>
    BY Joins, Ends, ConcatEmptySeq, Zenon
  <2> QED BY Joins, Ends, <2>1, <2>2, Zenon
<1>6. rem \in Seq(Tokens) /\ rest \in Seq(Tokens) /\ S \o rest \in Seq(Tokens)
  BY Joins, Ends, <1>3, <1>5, Zenon
<1>7. PICK y \in Seq(Tokens) : y = <<CR>> \o (rem \o (S \o rest))
  BY Joins, Ends, <1>6, Zenon
<1>8. Stream(lines) \o rest = l.text \o y
  <2>1. Stream(lines) = (l.text \o (<<CR>> \o rem)) \o S
    BY <1>1, <1>5, StreamFits, Zenon
  <2>2. ((l.text \o (<<CR>> \o rem)) \o S) \o rest = l.text \o (<<CR>> \o (rem \o (S \o rest)))
    <3>1. PICK t \in Seq(Tokens), c \in Seq(Tokens), s \in Seq(Tokens) :
             t = l.text /\ c = <<CR>> /\ s = S
      BY <1>3, <1>4, Ends, Zenon
    <3>2. ((t \o (c \o rem)) \o s) \o rest = t \o (c \o (rem \o (s \o rest)))
      <4>1. /\ t \in Seq(Tokens) /\ c \in Seq(Tokens) /\ s \in Seq(Tokens)
            /\ rem \in Seq(Tokens) /\ rest \in Seq(Tokens)
        BY <1>6, <3>1, Zenon
      <4>2. Join(Join(Join(t, Join(c, rem)), s), rest) = Join(t, Join(c, Join(rem, Join(s, rest))))
        BY <4>1, Regroup, SMT
      <4> QED BY <4>2, Zenon DEF Join
    <3> QED BY <3>1, <3>2, Zenon
  <2> QED BY <1>7, <2>1, <2>2, Zenon
<1>9. y # <<>> /\ Head(y) = CR /\ Tail(y) = rem \o (S \o rest)
  <2>1. rem \o (S \o rest) \in Seq(Tokens)
    BY Joins, Ends, <1>6, Zenon
  <2> HIDE DEF S
  <2> QED BY <1>7, <2>1, Joins, Ends, Zenon
<1>10. read = l.text /\ x = y
  <2>1. read \o x = l.text \o y
    BY <1>0, <1>8, Zenon
  <2>2. Head(y) \notin Plain
    BY <1>9, TokenKinds, Zenon
  <2>3. PICK t \in Seq(Plain) : t = l.text
    BY <1>4, Zenon
  <2>4. read \o x = t \o y
    BY <2>1, <2>3, Zenon
  <2>4a. /\ read \in Seq(Plain) /\ t \in Seq(Plain)
         /\ x \in Seq(Tokens) /\ y \in Seq(Tokens)
         /\ x # <<>> /\ Head(x) \notin Plain
    BY Zenon
  <2>5. /\ \A a, b \in Seq(Plain), v, z \in Seq(Tokens) :
              a \o v = b \o z /\ v # <<>> /\ Head(v) \notin Plain /\ Head(z) \notin Plain
              => a = b
        /\ \A a, b \in Seq(Plain), v, z \in Seq(Tokens) :
              a \o v = b \o z /\ v # <<>> /\ Head(v) \notin Plain /\ Head(z) \notin Plain
              => v = z
    BY FirstEnd
  <2>6. read = t
    BY <2>2, <2>4, <2>4a, <2>5, ZenonT(60)
  <2>7. x = y
    BY <2>2, <2>4, <2>4a, <2>5, ZenonT(60)
  <2> QED BY <2>3, <2>6, <2>7, Zenon
<1>11. Tail(x) = Join(rem, Join(S, rest))
  BY <1>9, <1>10, Zenon DEF Join
<1>12. rem \in Lates
  BY <1>5, Zenon DEF Lates
<1>13. \E m \in Lates : Tail(x) = Join(m, Join(S, rest))
  BY <1>11, <1>12, Zenon
<1> QED BY <1>1, <1>9, <1>10, <1>13, Zenon

-----------------------------------------------------------------------------
(* The ports. *)

\* The fields of a port.
PortSet == [rx : Seq(Tokens), out : Seq(Tokens), buf : Seq(Plain), bLastWasCR : BOOLEAN,
            pc : {"off", "idle", "put", "gets", "line"}, then : {"idle", "gets", "line"}]

\* A port: its FIFO and its buffer are within their sizes, and it is sending
\* while it has something to send.
Ports == { p \in PortSet : /\ Len(p.rx) <= RX_FIFO /\ Len(p.buf) <= LINE
                           /\ p.pc = "put" <=> p.out # <<>> }

\* A token arrives; one is sent; a buffer is emptied; a program goes on; a token is read.
Received(p, t) == [p EXCEPT !.rx = Append(@, t)]
Sending(p) == [p EXCEPT !.out = Tail(@), !.pc = IF Len(p.out) = 1 THEN p.then ELSE "put"]
Emptied(p) == [p EXCEPT !.buf = <<>>]
Back(p, then) == [p EXCEPT !.pc = then]
Dropped(p) == [p EXCEPT !.rx = Tail(@)]

\* The tail of tokens.
LEMMA TailFits ==
    ASSUME NEW s \in Seq(Tokens), s # <<>>
    PROVE  /\ Head(s) \in Tokens /\ Tail(s) \in Seq(Tokens) /\ Len(Tail(s)) = Len(s) - 1
           /\ Len(s) \in Nat \ {0}
           /\ Tail(s) = <<>> <=> Len(s) = 1
<1>1. Len(s) \in Nat \ {0}
  OBVIOUS
<1>2. Head(s) \in Tokens /\ Tail(s) \in Seq(Tokens) /\ Len(Tail(s)) = Len(s) - 1
  BY HeadTailProperties, Zenon
<1>3. Tail(s) = <<>> <=> Len(Tail(s)) = 0
  BY <1>2, EmptySeq, Zenon
<1> QED BY <1>1, <1>2, <1>3

\* Two ports alike but for what is named.
LEMMA PortReceives ==
    ASSUME NEW p \in Ports, NEW t \in Tokens, ~(Len(p.rx) >= RX_FIFO)
    PROVE  /\ Received(p, t) \in Ports /\ Received(p, t).rx = Append(p.rx, t)
           /\ Received(p, t).out = p.out /\ Received(p, t).buf = p.buf
           /\ Received(p, t).bLastWasCR = p.bLastWasCR
           /\ Received(p, t).pc = p.pc /\ Received(p, t).then = p.then
<1>1. Append(p.rx, t) \in Seq(Tokens) /\ Len(Append(p.rx, t)) <= RX_FIFO
  BY SerialAssumption DEF Ports, PortSet
<1> QED BY <1>1 DEF Ports, PortSet, Received

\* A port that sends has a token to send, and stays a port.
LEMMA PortPuts ==
    ASSUME NEW p \in Ports, p.pc = "put"
    PROVE  /\ p.out \in Seq(Tokens) /\ p.out # <<>>
           /\ Sending(p) \in Ports /\ Sending(p).out = Tail(p.out)
           /\ Sending(p).pc = IF Len(p.out) = 1 THEN p.then ELSE "put"
           /\ Sending(p).rx = p.rx /\ Sending(p).buf = p.buf
           /\ Sending(p).bLastWasCR = p.bLastWasCR /\ Sending(p).then = p.then
<1>1. p.out \in Seq(Tokens) /\ p.out # <<>>
  BY DEF Ports, PortSet
<1>2. Tail(p.out) \in Seq(Tokens) /\ (Tail(p.out) = <<>> <=> Len(p.out) = 1)
  BY <1>1, TailFits, Zenon
<1> QED BY <1>1, <1>2 DEF Ports, PortSet, Sending

\* A token is read: only the receiver and bLastWasCR change.
LEMMA PortHandles ==
    ASSUME NEW p \in Ports, p.rx # <<>>, NEW last \in BOOLEAN
    PROVE  /\ p.rx \in Seq(Tokens)
           /\ Handled(p, last) \in Ports /\ Handled(p, last).rx = Tail(p.rx)
           /\ Handled(p, last).out = p.out /\ Handled(p, last).buf = p.buf
           /\ Handled(p, last).bLastWasCR = last
           /\ Handled(p, last).pc = p.pc /\ Handled(p, last).then = p.then
<1>1. p.rx \in Seq(Tokens) /\ Len(p.rx) <= RX_FIFO
  BY DEF Ports, PortSet
<1>2. Tail(p.rx) \in Seq(Tokens) /\ Len(Tail(p.rx)) <= RX_FIFO
  <2>1. PICK n \in Nat : n = RX_FIFO
    BY SerialAssumption
  <2>2. PICK l \in Nat : l = Len(p.rx) /\ l # 0
    BY <1>1, TailFits
  <2>3. Tail(p.rx) \in Seq(Tokens) /\ Len(Tail(p.rx)) = l - 1
    BY <1>1, <2>2, TailFits, Zenon
  <2>4. l - 1 <= n
    BY <1>1, <2>1, <2>2
  <2> QED BY <2>1, <2>3, <2>4, Zenon
<1> QED BY <1>1, <1>2 DEF Ports, PortSet, Handled

\* A token that is no end of line is inside a line, and is read.
LEMMA PortKeeps ==
    ASSUME NEW p \in Ports, p.rx # <<>>, Head(p.rx) \notin {CR, LF}
    PROVE  /\ p.rx \in Seq(Tokens)
           /\ Head(p.rx) \in Plain
           /\ Dropped(p) \in Ports /\ Dropped(p).rx = Tail(p.rx)
           /\ Dropped(p).out = p.out /\ Dropped(p).buf = p.buf
           /\ Dropped(p).bLastWasCR = p.bLastWasCR
           /\ Dropped(p).pc = p.pc /\ Dropped(p).then = p.then
<1>1. p.rx \in Seq(Tokens) /\ p.bLastWasCR \in BOOLEAN
  BY DEF Ports, PortSet
<1>2. Dropped(p) = Handled(p, p.bLastWasCR)
  BY DEF Dropped, Handled, Ports, PortSet
<1>3. Head(p.rx) \in Plain
  BY <1>1, TailFits, Zenon DEF Tokens
<1>4. PICK last \in BOOLEAN : last = p.bLastWasCR
  BY <1>1, Zenon
<1>5. /\ Handled(p, last) \in Ports /\ Handled(p, last).rx = Tail(p.rx)
      /\ Handled(p, last).out = p.out /\ Handled(p, last).buf = p.buf
      /\ Handled(p, last).bLastWasCR = last
      /\ Handled(p, last).pc = p.pc /\ Handled(p, last).then = p.then
  BY PortHandles, Zenon
<1> QED BY <1>1, <1>2, <1>3, <1>4, <1>5, Zenon

\* The buffer takes a token that it has room for.
LEMMA PortStores ==
    ASSUME NEW p \in Ports, NEW t \in Plain, Len(p.buf) < LINE
    PROVE  LET q == [p EXCEPT !.buf = Append(@, t)]
           IN /\ q \in Ports /\ q.buf = Append(p.buf, t)
              /\ q.rx = p.rx /\ q.out = p.out /\ q.bLastWasCR = p.bLastWasCR
              /\ q.pc = p.pc /\ q.then = p.then
<1>1. Append(p.buf, t) \in Seq(Plain) /\ Len(Append(p.buf, t)) <= LINE
  BY SerialAssumption DEF Ports, PortSet
<1> QED BY <1>1 DEF Ports, PortSet

\* The buffer is emptied.
LEMMA PortEmpties ==
    ASSUME NEW p \in Ports
    PROVE  /\ Emptied(p) \in Ports /\ Emptied(p).buf = <<>>
           /\ Emptied(p).rx = p.rx /\ Emptied(p).out = p.out /\ Emptied(p).bLastWasCR = p.bLastWasCR
           /\ Emptied(p).pc = p.pc /\ Emptied(p).then = p.then
<1>1. <<>> \in Seq(Plain) /\ Len(<<>>) <= LINE
  BY SerialAssumption, Joins, EmptySeq
<1> QED BY <1>1 DEF Ports, PortSet, Emptied

\* A port starts to send.
LEMMA PortPrints ==
    ASSUME NEW p \in Ports, NEW tokens \in Seq(Tokens) \ {<<>>}, NEW then \in {"idle", "gets", "line"}
    PROVE  LET q == Printing(p, tokens, then)
           IN /\ q \in Ports /\ q.out = tokens /\ q.pc = "put" /\ q.then = then
              /\ q.buf = p.buf /\ q.rx = p.rx /\ q.bLastWasCR = p.bLastWasCR
BY DEF Ports, PortSet, Printing

\* A port that does not send changes what it does.
LEMMA PortGoes ==
    ASSUME NEW p \in Ports, p.pc # "put", NEW then \in {"idle", "gets", "line"}
    PROVE  /\ Back(p, then) \in Ports /\ Back(p, then).pc = then /\ Back(p, then).out = p.out
           /\ Back(p, then).then = p.then
           /\ Back(p, then).buf = p.buf /\ Back(p, then).rx = p.rx
           /\ Back(p, then).bLastWasCR = p.bLastWasCR
BY DEF Ports, PortSet, Back

\* The two sides are each other's peers.
LEMMA Pairs ==
    \A s \in Sides : /\ Peer(s) \in Sides /\ Peer(s) # s /\ Peer(Peer(s)) = s
                     /\ \A r \in Sides : r = s \/ r = Peer(s)
BY DEF Sides, Peer

\* One port of the two changes.
LEMMA PortChanges ==
    \A ports \in [Sides -> Ports], s \in Sides, q \in Ports :
        /\ [ports EXCEPT ![s] = q] \in [Sides -> Ports]
        /\ [ports EXCEPT ![s] = q][s] = q
        /\ [ports EXCEPT ![s] = q][Peer(s)] = ports[Peer(s)]
BY Pairs

\* A token arrives at the other side, or is lost to a full FIFO.
LEMMA PortArrives ==
    ASSUME port \in [Sides -> Ports]
    PROVE  \A ports \in [Sides -> Ports], s \in Sides, token \in Tokens :
              ports[Peer(s)] = port[Peer(s)] =>
              /\ Arrives(ports, s, token) \in [Sides -> Ports]
              /\ Arrives(ports, s, token)[s] = ports[s]
              /\ Overruns(s) => Arrives(ports, s, token)[Peer(s)] = port[Peer(s)]
              /\ ~Overruns(s) => /\ ~(Len(port[Peer(s)].rx) >= RX_FIFO)
                                 /\ Arrives(ports, s, token)[Peer(s)] = Received(port[Peer(s)], token)
<1> SUFFICES ASSUME NEW ports \in [Sides -> Ports], NEW s \in Sides, NEW token \in Tokens,
                    ports[Peer(s)] = port[Peer(s)]
             PROVE  /\ Arrives(ports, s, token) \in [Sides -> Ports]
                    /\ Arrives(ports, s, token)[s] = ports[s]
                    /\ Overruns(s) => Arrives(ports, s, token)[Peer(s)] = port[Peer(s)]
                    /\ ~Overruns(s) => /\ ~(Len(port[Peer(s)].rx) >= RX_FIFO)
                                       /\ Arrives(ports, s, token)[Peer(s)] = Received(port[Peer(s)], token)
  BY Zenon
<1>1. CASE Overruns(s)
  BY <1>1, Zenon DEF Arrives
<1>2. CASE ~Overruns(s)
  <2>1. ~(Len(port[Peer(s)].rx) >= RX_FIFO)
    BY <1>2, Zenon DEF Overruns
  <2>2. PICK q \in Ports : q = Received(port[Peer(s)], token)
    BY <2>1, Pairs, PortReceives, Zenon
  <2>3. Arrives(ports, s, token) = [ports EXCEPT ![Peer(s)] = q]
    BY <1>2, <2>2 DEF Arrives, Received
  <2>4. PICK r \in Sides : r = Peer(s) /\ Peer(r) = s
    BY Pairs, Zenon
  <2>5. /\ [ports EXCEPT ![r] = q] \in [Sides -> Ports] /\ [ports EXCEPT ![r] = q][r] = q
        /\ [ports EXCEPT ![r] = q][Peer(r)] = ports[Peer(r)]
    BY PortChanges, Zenon
  <2> QED BY <1>2, <2>1, <2>2, <2>3, <2>4, <2>5, Zenon
<1> QED BY <1>1, <1>2, Zenon

\* What Put does to the two ports.
LEMMA PutStep ==
    ASSUME port \in [Sides -> Ports], NEW s \in Sides, Put(s)
    PROVE  /\ port' \in [Sides -> Ports]
           /\ port[s].pc = "put" /\ port'[s] = Sending(port[s])
           /\ Overruns(s) => port'[Peer(s)] = port[Peer(s)]
           /\ ~Overruns(s) => /\ ~(Len(port[Peer(s)].rx) >= RX_FIFO)
                              /\ port'[Peer(s)] = Received(port[Peer(s)], Head(port[s].out))
<1>1. port[s].pc = "put" /\ port' = Arrives([port EXCEPT ![s] = Sending(port[s])], s, Head(port[s].out))
  BY Zenon DEF Put, Sending
<1>2. Sending(port[s]) \in Ports /\ Head(port[s].out) \in Tokens
  BY <1>1, PortPuts, TailFits, Zenon
<1>0. PICK q \in Ports : q = Sending(port[s])
  BY <1>2, Zenon
<1>7. /\ [port EXCEPT ![s] = q] \in [Sides -> Ports] /\ [port EXCEPT ![s] = q][s] = q
      /\ [port EXCEPT ![s] = q][Peer(s)] = port[Peer(s)]
  BY PortChanges, Zenon
<1>3. PICK ports \in [Sides -> Ports] : /\ ports = [port EXCEPT ![s] = Sending(port[s])]
                                        /\ ports[s] = Sending(port[s]) /\ ports[Peer(s)] = port[Peer(s)]
  BY <1>0, <1>7, Zenon
<1>4. PICK token \in Tokens : token = Head(port[s].out)
  BY <1>2, Zenon
<1>5. port' = Arrives(ports, s, token)
  BY <1>1, <1>3, <1>4, Zenon
<1>6. /\ Arrives(ports, s, token) \in [Sides -> Ports]
      /\ Arrives(ports, s, token)[s] = ports[s]
      /\ Overruns(s) => Arrives(ports, s, token)[Peer(s)] = port[Peer(s)]
      /\ ~Overruns(s) => /\ ~(Len(port[Peer(s)].rx) >= RX_FIFO)
                         /\ Arrives(ports, s, token)[Peer(s)] = Received(port[Peer(s)], token)
  BY <1>3, PortArrives, Zenon
<1> QED BY <1>1, <1>3, <1>4, <1>5, <1>6, Zenon

\* What Gobble does to the two ports.
LEMMA GobbleStep ==
    ASSUME port \in [Sides -> Ports], NEW s \in Sides, Gobble(s)
    PROVE  /\ port' \in [Sides -> Ports]
           /\ port[s].pc = "gets" /\ port[s].rx # <<>> /\ Head(port[s].rx) = LF /\ port[s].bLastWasCR
           /\ port'[s] = Handled(port[s], FALSE) /\ port'[Peer(s)] = port[Peer(s)]
<1>1. /\ port[s].pc = "gets" /\ port[s].rx # <<>> /\ Head(port[s].rx) = LF /\ port[s].bLastWasCR
      /\ port' = [port EXCEPT ![s] = Handled(port[s], FALSE)]
  BY Zenon DEF Gobble
<1>2. PICK q \in Ports : q = Handled(port[s], FALSE)
  BY <1>1, PortHandles, Zenon
<1>3. port' = [port EXCEPT ![s] = q]
  BY <1>1, <1>2, Zenon
<1>4. /\ [port EXCEPT ![s] = q] \in [Sides -> Ports] /\ [port EXCEPT ![s] = q][s] = q
      /\ [port EXCEPT ![s] = q][Peer(s)] = port[Peer(s)]
  BY PortChanges, Zenon
<1> QED BY <1>1, <1>2, <1>3, <1>4, Zenon

\* What an end of line is echoed as.
LEMMA EchoFits ==
    /\ UARTwrite(<<CR, LF>>) \in Seq(Tokens) \ {<<>>}
    /\ UARTwrite(<<CR, LF>>) = Join(<<CR>>, Join(<<CR>>, <<LF>>))
<1>1. <<CR, CR, LF>> \in Seq(Tokens) /\ <<CR, CR, LF>> # <<>>
  BY TokenKinds
<1>2. \A a, b : <<a>> \o (<<a>> \o <<b>>) = <<a, a, b>>
  <2> TAKE a, b
  <2> DEFINE s == <<a>> \o (<<a>> \o <<b>>)
             t == <<a, a, b>>
  <2>1. <<a>> \in Seq({a, b}) /\ <<b>> \in Seq({a, b}) /\ <<a>> \o <<b>> \in Seq({a, b})
        /\ Len(<<a>> \o <<b>>) = 2 /\ (<<a>> \o <<b>>)[1] = a /\ (<<a>> \o <<b>>)[2] = b
    OBVIOUS
  <2>2. s \in Seq({a, b}) /\ Len(s) = 3 /\ s[1] = a /\ s[2] = a /\ s[3] = b
    BY <2>1
  <2>3. t \in Seq({a, b}) /\ Len(t) = 3 /\ t[1] = a /\ t[2] = a /\ t[3] = b
    OBVIOUS
  <2>4. \A i \in 1 .. 3 : i = 1 \/ i = 2 \/ i = 3
    OBVIOUS
  <2> HIDE DEF s, t
  <2>5. s = t
    BY <2>2, <2>3, <2>4, SeqEqual
  <2> QED BY <2>5 DEF s, t
<1> QED BY <1>1, <1>2, WriteEnds, Zenon DEF Join

\* What EndLine does to the two ports.
LEMMA EndLineStep ==
    ASSUME port \in [Sides -> Ports], NEW s \in Sides, EndLine(s)
    PROVE  /\ port' \in [Sides -> Ports]
           /\ port[s].pc = "gets" /\ port[s].rx # <<>>
           /\ Head(port[s].rx) = CR \/ (Head(port[s].rx) = LF /\ ~port[s].bLastWasCR)
           /\ \E last \in BOOLEAN :
                 /\ Head(port[s].rx) = CR => last
                 /\ Handled(port[s], last) \in Ports
                 /\ port'[s] = Printing(Handled(port[s], last), UARTwrite(<<CR, LF>>), "line")
           /\ port'[Peer(s)] = port[Peer(s)]
<1> DEFINE last == Head(port[s].rx) = CR \/ port[s].bLastWasCR
           h0 == Handled(port[s], Head(port[s].rx) = CR \/ port[s].bLastWasCR)
<1>1. /\ port[s].pc = "gets" /\ port[s].rx # <<>>
      /\ Head(port[s].rx) = CR \/ (Head(port[s].rx) = LF /\ ~port[s].bLastWasCR)
      /\ port' = [port EXCEPT ![s] = Printing(h0, UARTwrite(<<CR, LF>>), "line")]
  <2>1. /\ port[s].pc = "gets" /\ port[s].rx # <<>>
        /\ Head(port[s].rx) = CR \/ (Head(port[s].rx) = LF /\ ~port[s].bLastWasCR)
    BY Zenon DEF EndLine
  <2>2. port' = [port EXCEPT ![s] = Printing(h0, UARTwrite(<<CR, LF>>), "line")]
    BY Zenon DEF EndLine
  <2> QED BY <2>1, <2>2, Zenon
<1>2. last \in BOOLEAN
  OBVIOUS
<1>3. PICK l \in BOOLEAN : l = last
  BY <1>2, Zenon
<1>4. PICK h \in Ports : h = Handled(port[s], l) /\ h = h0
  <2>1. Handled(port[s], l) \in Ports
    BY <1>1, PortHandles, Zenon
  <2>2. Handled(port[s], l) = h0
    BY <1>3 DEF Handled
  <2> QED BY <2>1, <2>2, Zenon
<1>5. PICK q \in Ports : q = Printing(h, UARTwrite(<<CR, LF>>), "line")
  BY EchoFits, PortPrints, Zenon
<1>6. port' = [port EXCEPT ![s] = q]
  BY <1>1, <1>3, <1>4, <1>5, Zenon
<1>7. /\ [port EXCEPT ![s] = q] \in [Sides -> Ports] /\ [port EXCEPT ![s] = q][s] = q
      /\ [port EXCEPT ![s] = q][Peer(s)] = port[Peer(s)]
  BY PortChanges, Zenon
<1>8. Head(port[s].rx) = CR => l
  BY <1>3, Zenon
<1> QED BY <1>1, <1>4, <1>5, <1>6, <1>7, <1>8, Zenon

\* A token is kept.
Stored(p, t) == [p EXCEPT !.buf = Append(@, t)]

\* What Keep does to the two ports.
LEMMA KeepStep ==
    ASSUME port \in [Sides -> Ports], NEW s \in Sides, Keep(s)
    PROVE  /\ port' \in [Sides -> Ports]
           /\ port[s].pc = "gets" /\ port[s].rx # <<>> /\ Head(port[s].rx) \in Plain
           /\ Dropped(port[s]) \in Ports /\ Len(port[s].buf) < LINE
           /\ port'[s] = Stored(Dropped(port[s]), Head(port[s].rx))
           /\ Overruns(s) => port'[Peer(s)] = port[Peer(s)]
           /\ ~Overruns(s) => /\ ~(Len(port[Peer(s)].rx) >= RX_FIFO)
                              /\ port'[Peer(s)] = Received(port[Peer(s)], Head(port[s].rx))
<1> DEFINE t == Head(port[s].rx)
           p == [port EXCEPT ![s].rx = Tail(@), ![s].buf = Append(@, t)]
<1>1. /\ port[s].pc = "gets" /\ port[s].rx # <<>> /\ t \notin {CR, LF}
      /\ Len(port[s].buf) < LINE /\ port' = Arrives(p, s, t)
  BY Zenon DEF Keep
<1>2. t \in Plain /\ t \in Tokens
  BY <1>1, PortKeeps, TokenKinds, Zenon
<1>3. PICK d \in Ports : d = Dropped(port[s]) /\ d.buf = port[s].buf
  BY <1>1, PortKeeps, Zenon
<1>4. PICK q \in Ports : q = Stored(d, t)
  BY <1>1, <1>2, <1>3, PortStores, Zenon DEF Stored
<1>5. p = [port EXCEPT ![s] = q]
  BY <1>3, <1>4 DEF Dropped, Stored
<1>6. PICK ports \in [Sides -> Ports] : /\ ports = p
                                        /\ ports[s] = q /\ ports[Peer(s)] = port[Peer(s)]
  <2>1. /\ [port EXCEPT ![s] = q] \in [Sides -> Ports] /\ [port EXCEPT ![s] = q][s] = q
        /\ [port EXCEPT ![s] = q][Peer(s)] = port[Peer(s)]
    BY PortChanges, Zenon
  <2> QED BY <1>5, <2>1, Zenon
<1> HIDE DEF p
<1>7. PICK token \in Tokens : token = t
  BY <1>2, Zenon
<1>8. port' = Arrives(ports, s, token)
  BY <1>1, <1>6, <1>7, Zenon
<1>9. /\ Arrives(ports, s, token) \in [Sides -> Ports]
      /\ Arrives(ports, s, token)[s] = ports[s]
      /\ Overruns(s) => Arrives(ports, s, token)[Peer(s)] = port[Peer(s)]
      /\ ~Overruns(s) => /\ ~(Len(port[Peer(s)].rx) >= RX_FIFO)
                         /\ Arrives(ports, s, token)[Peer(s)] = Received(port[Peer(s)], token)
  BY <1>6, PortArrives, ZenonT(60)
<1> QED BY <1>1, <1>2, <1>3, <1>4, <1>6, <1>7, <1>8, <1>9, Zenon

\* What Ignore does to the two ports.
LEMMA IgnoreStep ==
    ASSUME port \in [Sides -> Ports], NEW s \in Sides, Ignore(s)
    PROVE  /\ port' \in [Sides -> Ports]
           /\ port[s].pc = "gets" /\ port[s].rx # <<>> /\ Head(port[s].rx) \in Plain
           /\ ~(Len(port[s].buf) < LINE)
           /\ port'[s] = Dropped(port[s]) /\ port'[Peer(s)] = port[Peer(s)]
<1>1. /\ port[s].pc = "gets" /\ port[s].rx # <<>> /\ Head(port[s].rx) \notin {CR, LF}
      /\ ~(Len(port[s].buf) < LINE)
      /\ port' = [port EXCEPT ![s].rx = Tail(@)]
  BY Zenon DEF Ignore
<1>2. Head(port[s].rx) \in Plain
  BY <1>1, PortKeeps, Zenon
<1>3. PICK d \in Ports : d = Dropped(port[s])
  BY <1>1, PortKeeps, Zenon
<1>4. port' = [port EXCEPT ![s] = d]
  BY <1>1, <1>3 DEF Dropped
<1>5. /\ [port EXCEPT ![s] = d] \in [Sides -> Ports] /\ [port EXCEPT ![s] = d][s] = d
      /\ [port EXCEPT ![s] = d][Peer(s)] = port[Peer(s)]
  BY PortChanges, Zenon
<1> QED BY <1>1, <1>2, <1>3, <1>4, <1>5, Zenon

\* What is printed, and where a caller of UARTprintf goes on.
Texts == Seq(Tokens) \ {<<>>}
\* What a port may do after it has sent.
Nexts == {"idle", "gets", "line"}

\* One port of the two starts to send.
LEMMA PrintChanges ==
    \A s \in Sides, p \in Ports, tokens \in Texts, then \in Nexts :
        port \in [Sides -> Ports] =>
        \E q \in Ports :
           /\ q = Printing(p, tokens, then)
           /\ [port EXCEPT ![s] = q] \in [Sides -> Ports]
           /\ [port EXCEPT ![s] = q][s] = q /\ [port EXCEPT ![s] = q][Peer(s)] = port[Peer(s)]
           /\ q.out = tokens /\ q.pc = "put" /\ q.then = then
           /\ q.buf = p.buf /\ q.rx = p.rx /\ q.bLastWasCR = p.bLastWasCR
<1> TAKE s \in Sides, p \in Ports, tokens \in Texts, then \in Nexts
<1>1. PICK q \in Ports : /\ q = Printing(p, tokens, then)
                         /\ q.out = tokens /\ q.pc = "put" /\ q.then = then
                         /\ q.buf = p.buf /\ q.rx = p.rx /\ q.bLastWasCR = p.bLastWasCR
  <2>1. LET q == Printing(p, tokens, then)
        IN /\ q \in Ports /\ q.out = tokens /\ q.pc = "put" /\ q.then = then
           /\ q.buf = p.buf /\ q.rx = p.rx /\ q.bLastWasCR = p.bLastWasCR
    BY PortPrints DEF Texts, Nexts
  <2> QED BY <2>1, Zenon
<1>2. port \in [Sides -> Ports] =>
      /\ [port EXCEPT ![s] = q] \in [Sides -> Ports] /\ [port EXCEPT ![s] = q][s] = q
      /\ [port EXCEPT ![s] = q][Peer(s)] = port[Peer(s)]
  BY PortChanges, Zenon
<1> QED BY <1>1, <1>2, Zenon

\* Another line is owed: it is sent behind the others.
LEMMA LineAppended ==
    \A o \in Seq(LineSet), l \in LineSet :
        /\ Append(o, l) \in Seq(LineSet) /\ Append(o, l) # <<>>
        /\ o \o <<l>> = Append(o, l)
        /\ Stream(Append(o, l)) = Join(Stream(o), Join(l.text, l.end))
        /\ o # <<>> => Head(Append(o, l)) = Head(o) /\ Tail(Append(o, l)) = Append(Tail(o), l)
                       /\ Tail(o) \in Seq(LineSet)
<1> TAKE o \in Seq(LineSet), l \in LineSet
<1>1. Append(o, l) \in Seq(LineSet) /\ Append(o, l) # <<>> /\ o \o <<l>> = Append(o, l)
  OBVIOUS
<1>2. Stream(Append(o, l)) = Join(Stream(o), Join(l.text, l.end))
  BY StreamFits, Zenon DEF Join
<1>3. ASSUME o # <<>>
      PROVE  Head(Append(o, l)) = Head(o) /\ Tail(Append(o, l)) = Append(Tail(o), l)
             /\ Tail(o) \in Seq(LineSet)
  <2> DEFINE a == Append(o, l)
  <2>1. /\ a \in Seq(LineSet) /\ Len(a) = Len(o) + 1 /\ a[Len(o) + 1] = l /\ a # <<>>
        /\ \A k \in 1 .. Len(o) : a[k] = o[k]
    OBVIOUS
  <2>2. Len(o) \in Nat \ {0} /\ Head(o) = o[1]
    BY <1>3
  <2>3. Head(a) = Head(o)
    BY <2>1, <2>2
  <2>4. Tail(o) \in Seq(LineSet) /\ Len(Tail(o)) = Len(o) - 1 /\ \A k \in 1 .. Len(Tail(o)) : Tail(o)[k] = o[k + 1]
    BY <1>3, HeadTailProperties, Zenon
  <2>5. Tail(a) \in Seq(LineSet) /\ Len(Tail(a)) = Len(a) - 1 /\ \A k \in 1 .. Len(Tail(a)) : Tail(a)[k] = a[k + 1]
    BY <2>1, HeadTailProperties, Zenon
  <2>6. PICK n \in Nat : n = Len(o) - 1 /\ Len(o) = n + 1
    BY <2>2
  <2>7. Len(Tail(a)) = n + 1
    BY <2>1, <2>5, <2>6
  <2> HIDE DEF a
  <2>8. PICK u \in Seq(LineSet) : u = Tail(o) /\ Len(u) = n /\ \A k \in 1 .. n : u[k] = o[k + 1]
    BY <2>4, <2>6, Zenon
  <2>9. /\ Append(u, l) \in Seq(LineSet) /\ Len(Append(u, l)) = Len(u) + 1 /\ Append(u, l)[Len(u) + 1] = l
        /\ \A k \in 1 .. Len(u) : Append(u, l)[k] = u[k]
    BY AppendProperties
  <2>10. \A k \in 1 .. n + 1 : k \in 1 .. n \/ k = n + 1
    OBVIOUS
  <2>11. \A k \in 1 .. n : k + 1 \in 1 .. n + 1 /\ k \in 1 .. n + 1
    OBVIOUS
  <2>13. \A k \in 1 .. n + 1 : Tail(a)[k] = Append(u, l)[k]
    BY <2>1, <2>5, <2>6, <2>7, <2>8, <2>9, <2>10, <2>11, ZenonT(60)
  <2>14. Tail(a) = Append(u, l)
    BY <2>5, <2>7, <2>8, <2>9, <2>13, SeqEqual, Zenon
  <2> QED BY <2>3, <2>4, <2>8, <2>14, Zenon DEF a
<1> QED BY <1>1, <1>2, <1>3, Zenon

\* Two lines more are one line more, twice.
LEMMA TwoLines ==
    \A o \in Seq(LineSet), k \in LineSet, l \in LineSet :
        o \o <<k, l>> = Append(Append(o, k), l)
<1> TAKE o \in Seq(LineSet), k \in LineSet, l \in LineSet
<1> DEFINE a == o \o <<k, l>>
           b == Append(Append(o, k), l)
<1>1. Len(o) \in Nat /\ <<k, l>> \in Seq(LineSet) /\ Len(<<k, l>>) = 2
      /\ <<k, l>>[1] = k /\ <<k, l>>[2] = l
  OBVIOUS
<1>2. a \in Seq(LineSet) /\ Len(a) = Len(o) + 2
  BY <1>1, ConcatProperties, Zenon
<1>3. \A i \in 1 .. Len(o) : a[i] = o[i]
  BY <1>1
<1>4. a[Len(o) + 1] = k /\ a[Len(o) + 2] = l
  BY <1>1
<1>5. b \in Seq(LineSet) /\ Len(b) = Len(o) + 2 /\ b[Len(o) + 1] = k /\ b[Len(o) + 2] = l
  OBVIOUS
<1>6. \A i \in 1 .. Len(o) : b[i] = o[i]
  OBVIOUS
<1>7. \A i \in 1 .. Len(o) + 2 : i \in 1 .. Len(o) \/ i = Len(o) + 1 \/ i = Len(o) + 2
  BY <1>1
<1> HIDE DEF a, b
<1>8. \A i \in 1 .. Len(o) + 2 : a[i] = b[i]
  BY <1>3, <1>4, <1>5, <1>6, <1>7, Zenon
<1> QED BY <1>2, <1>5, <1>8, SeqEqual, Zenon DEF a, b

\* Two lines more are owed.
LEMMA TwoLinesAppended ==
    \A o \in Seq(LineSet), k \in LineSet, l \in LineSet :
        LET more == Join(Join(k.text, k.end), Join(l.text, l.end))
        IN /\ o \o <<k, l>> \in Seq(LineSet) /\ o \o <<k, l>> # <<>>
           /\ Stream(o \o <<k, l>>) = Join(Stream(o), more)
           /\ o # <<>> => /\ Head(o \o <<k, l>>) = Head(o)
                          /\ Stream(Tail(o \o <<k, l>>)) = Join(Stream(Tail(o)), more)
<1> TAKE o \in Seq(LineSet), k \in LineSet, l \in LineSet
<1>1. PICK x \in Seq(Tokens), y \in Seq(Tokens), more \in Seq(Tokens) :
         x = Join(k.text, k.end) /\ y = Join(l.text, l.end) /\ more = Join(x, y)
  <2>1. \A a \in LineSet : Join(a.text, a.end) \in Seq(Tokens)
    BY LineTokens, Zenon DEF Join
  <2>2. PICK x \in Seq(Tokens), y \in Seq(Tokens) : x = Join(k.text, k.end) /\ y = Join(l.text, l.end)
    BY <2>1, Zenon
  <2>3. Join(x, y) \in Seq(Tokens)
    BY JoinLaws, Zenon
  <2> QED BY <2>2, <2>3, Zenon
<1>2. \A s \in Seq(LineSet) : Stream(Append(Append(s, k), l)) = Join(Stream(s), more)
  <2> TAKE s \in Seq(LineSet)
  <2>1. /\ Append(s, k) \in Seq(LineSet)
        /\ Stream(Append(s, k)) = Join(Stream(s), x)
    BY <1>1, LineAppended, Zenon
  <2>2. Stream(Append(Append(s, k), l)) = Join(Stream(Append(s, k)), y)
    BY <1>1, <2>1, LineAppended, Zenon
  <2>3. PICK a \in Seq(Tokens) : a = Stream(s)
    BY StreamFits, Zenon
  <2>4. Join(Join(a, x), y) = Join(a, Join(x, y))
    BY JoinLaws, SMT
  <2> QED BY <1>1, <2>1, <2>2, <2>3, <2>4, Zenon
<1>3. PICK b \in Seq(LineSet) : b = o \o <<k, l>> /\ b = Append(Append(o, k), l) /\ b # <<>>
  <2>1. Append(Append(o, k), l) \in Seq(LineSet) /\ Append(Append(o, k), l) # <<>>
    BY LineAppended, Zenon
  <2> QED BY <2>1, TwoLines, Zenon
<1>4. ASSUME o # <<>>
      PROVE  Head(b) = Head(o) /\ Stream(Tail(b)) = Join(Stream(Tail(o)), more)
  <2>1. /\ Append(o, k) \in Seq(LineSet) /\ Append(o, k) # <<>>
        /\ Head(Append(o, k)) = Head(o) /\ Tail(Append(o, k)) = Append(Tail(o), k)
        /\ Tail(o) \in Seq(LineSet)
    BY <1>4, LineAppended, Zenon
  <2>2. PICK a \in Seq(LineSet) : a = Append(o, k)
    BY <2>1, Zenon
  <2>3. Head(Append(a, l)) = Head(a) /\ Tail(Append(a, l)) = Append(Tail(a), l)
    BY <2>1, <2>2, LineAppended, Zenon
  <2> QED BY <1>2, <1>3, <2>1, <2>2, <2>3, Zenon
<1>5. Stream(b) = Join(Stream(o), more)
  BY <1>2, <1>3, Zenon
<1> QED BY <1>1, <1>3, <1>4, <1>5, Zenon

\* A token that is sent is received.
LEMMA TokenMoves ==
    /\ \A rx, out \in Seq(Tokens) :
          out # <<>> => Join(Append(rx, Head(out)), Tail(out)) = Join(rx, out)
    /\ \A rx \in Seq(Tokens), t \in Tokens : Append(rx, t) = Join(rx, <<t>>) /\ <<t>> \in Seq(Tokens)
    /\ \A rx \in Seq(Tokens) : rx # <<>> => rx = Join(<<Head(rx)>>, Tail(rx))
<1>1. \A rx \in Seq(Tokens), t \in Tokens : Append(rx, t) = Join(rx, <<t>>) /\ <<t>> \in Seq(Tokens)
  BY DEF Join
<1>2. ASSUME NEW out \in Seq(Tokens), out # <<>>
      PROVE  out = Join(<<Head(out)>>, Tail(out))
  <2>1. PICK h \in Tokens, u \in Seq(Tokens) : h = Head(out) /\ u = Tail(out) /\ Len(u) = Len(out) - 1
    BY <1>2, TailFits, Zenon
  <2>2. \A i \in 1 .. Len(u) : u[i] = out[i + 1]
    BY <1>2, <2>1, HeadTailProperties, Zenon
  <2>3. h = out[1] /\ Len(out) \in Nat \ {0} /\ Len(u) \in Nat
    BY <1>2, <2>1
  <2> DEFINE s == <<h>> \o u
  <2>4. s \in Seq(Tokens) /\ Len(s) = 1 + Len(u) /\ s[1] = h
    OBVIOUS
  <2>5. \A i \in 1 .. Len(u) : s[i + 1] = u[i]
    OBVIOUS
  <2> HIDE DEF s
  <2>6. Len(out) = Len(s)
    BY <2>1, <2>3, <2>4
  <2>7. \A i \in 1 .. Len(out) : i = 1 \/ \E j \in 1 .. Len(u) : i = j + 1
    <3> TAKE i \in 1 .. Len(out)
    <3>1. i # 1 => i - 1 \in 1 .. Len(u) /\ i = (i - 1) + 1
      BY <2>1, <2>3
    <3> QED BY <3>1, Zenon
  <2>8. \A i \in 1 .. Len(out) : out[i] = s[i]
    <3> TAKE i \in 1 .. Len(out)
    <3>1. CASE i = 1
      BY <2>3, <2>4, <3>1, Zenon
    <3>2. ASSUME NEW j \in 1 .. Len(u), i = j + 1
          PROVE  out[i] = s[i]
      <4>1. u[j] = out[j + 1] /\ s[j + 1] = u[j]
        BY <2>2, <2>5, Zenon
      <4> QED BY <3>2, <4>1, Zenon
    <3> QED BY <2>7, <3>1, <3>2, Zenon
  <2> QED BY <2>1, <2>4, <2>6, <2>8, SeqEqual, Zenon DEF s, Join
<1>3. ASSUME NEW rx \in Seq(Tokens), NEW out \in Seq(Tokens), out # <<>>
      PROVE  Join(Append(rx, Head(out)), Tail(out)) = Join(rx, out)
  <2>1. PICK h \in Tokens, u \in Seq(Tokens), hs \in Seq(Tokens) :
           h = Head(out) /\ u = Tail(out) /\ hs = <<h>> /\ out = Join(hs, u)
    <3>1. Head(out) \in Tokens /\ Tail(out) \in Seq(Tokens)
      BY <1>3, TailFits, Zenon
    <3>2. <<Head(out)>> \in Seq(Tokens) /\ out = Join(<<Head(out)>>, Tail(out))
      BY <1>1, <1>2, <1>3, <3>1, Zenon
    <3> QED BY <3>1, <3>2, Zenon
  <2>2. Append(rx, h) = Join(rx, hs)
    BY <1>1, <2>1, Zenon
  <2>3. Join(Join(rx, hs), u) = Join(rx, Join(hs, u))
    BY JoinLaws, ZenonT(60)
  <2> QED BY <2>1, <2>2, <2>3, Zenon
<1> QED BY <1>1, <1>2, <1>3, Zenon

\* What a buffer holds of a line, token by token.
LEMMA KeptFits ==
    /\ Kept(<<>>) = <<>>
    /\ \A r \in Seq(Plain), t \in Plain :
          /\ Append(r, t) \in Seq(Plain)
          /\ Len(Kept(r)) < LINE => Kept(Append(r, t)) = Append(Kept(r), t)
          /\ ~(Len(Kept(r)) < LINE) => Kept(Append(r, t)) = Kept(r)
<1>1. PICK n \in Nat : n = LINE
  BY SerialAssumption
<1>2. Kept(<<>>) = <<>>
  BY <1>1 DEF Kept
<1>3. ASSUME NEW r \in Seq(Plain), NEW t \in Plain
      PROVE  /\ Append(r, t) \in Seq(Plain)
             /\ Len(Kept(r)) < LINE => Kept(Append(r, t)) = Append(Kept(r), t)
             /\ ~(Len(Kept(r)) < LINE) => Kept(Append(r, t)) = Kept(r)
  <2>1. PICK a \in Seq(Plain) : a = Append(r, t) /\ Len(a) = Len(r) + 1
                                /\ a[Len(r) + 1] = t /\ \A i \in 1 .. Len(r) : a[i] = r[i]
    <3>1. /\ Append(r, t) \in Seq(Plain) /\ Len(Append(r, t)) = Len(r) + 1
          /\ Append(r, t)[Len(r) + 1] = t /\ \A i \in 1 .. Len(r) : Append(r, t)[i] = r[i]
      BY AppendProperties
    <3> QED BY <3>1, Zenon
  <2>2. PICK m \in Nat : m = Len(r)
    BY LenProperties, Zenon
  <2>3. CASE m < n
    <3>1. Kept(r) = r
      BY <1>1, <2>2, <2>3, SubSeqFull, Zenon DEF Kept
    <3>2. Len(a) <= n
      BY <2>1, <2>2, <2>3
    <3>3. Kept(a) = a
      <4>1. (IF Len(a) < LINE THEN Len(a) ELSE LINE) = Len(a)
        BY <1>1, <2>1, <2>2, <3>2
      <4> QED BY <4>1, SubSeqFull, Zenon DEF Kept
    <3> QED BY <1>1, <2>1, <2>2, <2>3, <3>1, <3>3, Zenon
  <2>4. CASE ~(m < n)
    <3>1. n <= m /\ ~(m + 1 < n) /\ n <= m + 1
      BY <2>4
    <3>2. Kept(r) = SubSeq(r, 1, n) /\ Kept(a) = SubSeq(a, 1, n)
      BY <1>1, <2>1, <2>2, <2>4, <3>1, Zenon DEF Kept
    <3>3. SubSeq(r, 1, n) \in Seq(Plain) /\ Len(SubSeq(r, 1, n)) = n
          /\ \A i \in 1 .. n : SubSeq(r, 1, n)[i] = r[i]
      BY <2>2, <3>1
    <3>4. SubSeq(a, 1, n) \in Seq(Plain) /\ Len(SubSeq(a, 1, n)) = n
          /\ \A i \in 1 .. n : SubSeq(a, 1, n)[i] = a[i]
      BY <2>1, <2>2, <3>1
    <3>5. \A i \in 1 .. n : i \in 1 .. m
      BY <3>1
    <3>6. SubSeq(a, 1, n) = SubSeq(r, 1, n)
      <4>1. PICK u \in Seq(Plain), v \in Seq(Plain) : u = SubSeq(a, 1, n) /\ v = SubSeq(r, 1, n)
        BY <3>3, <3>4, Zenon
      <4>2. Len(u) = n /\ Len(v) = n /\ \A i \in 1 .. n : u[i] = v[i]
        BY <2>1, <2>2, <3>3, <3>4, <3>5, <4>1, Zenon
      <4>3. u = v
        BY <4>2, SeqEqual, Zenon
      <4> QED BY <4>1, <4>3, Zenon
    <3>7. ~(Len(Kept(r)) < LINE)
      BY <1>1, <3>2, <3>3
    <3> QED BY <2>1, <3>2, <3>6, <3>7, Zenon
  <2> QED BY <2>3, <2>4
<1> QED BY <1>2, <1>3, Zenon

-----------------------------------------------------------------------------
(* The invariant of the lines. *)

\* The two programs.
\* The two programs.
B == port["board"]
M == port["machine"]

\* The machine has a line that it has not handled.
HasLine == M.pc = "line" \/ (M.pc = "put" /\ M.then = "line")

\* The lines that it has yet to read, and what follows: what the board has read
\* of a line, and echoed.
Due == IF HasLine THEN Tail(owed) ELSE owed
Rest == IF B.pc = "gets" THEN B.buf ELSE <<>>

\* Nobody on the board but com is in the middle of a text.
Silent == \A o \in Talkers : talk[o] = <<>>

\* What is still to be sent of the text under way.
Going == IF Silent THEN B.out ELSE talk[CHOOSE o \in Talkers : talk[o] # <<>>]

\* On its way to the machine, and what the machine has to read.
Sent == Join(M.rx, Going)
Owing == Join(Stream(Due), Rest)

\* The ports. The board reads into an empty buffer, and the machine never rests.
PortsFit ==
    /\ port \in [Sides -> Ports] /\ talk \in [Talkers -> Seq(Tokens)]
    /\ B.pc = "put" /\ B.then = "gets" => B.buf = <<>>
    /\ M.pc # "idle" /\ (M.pc = "put" => M.then # "idle")

\* The lines owed, the first of them in the buffer of a machine that has it.
OwedFits ==
    /\ owed \in Seq(LineSet)
    /\ HasLine => owed # <<>> /\ M.buf = Kept(Head(owed).text)

\* What was read of the line under way, with what is sent, is what is owed,
\* except for the LF of a line that ended with its CR.
LinesFit ==
    \E read \in Seq(Plain), rem \in Lates :
        /\ Join(read, Sent) = Join(rem, Owing)
        /\ rem = <<>> \/ read = <<>>
        /\ rem # <<>> => M.bLastWasCR
        /\ HasLine => read = <<>>
        /\ ~HasLine => M.buf = Kept(read)

\* One of the board's is in the middle of a text, at most.
Alone ==
    /\ InLine => Silent
    /\ \A o, p \in Talkers : talk[o] # <<>> /\ talk[p] # <<>> => o = p

\* So it is while no texts meet.
Whole == OwedFits /\ LinesFit /\ Alone

\* And when they did, nothing is owed.
TornFits == (torn # "now" => Whole) /\ (torn = "now" => owed = <<>>)

\* The board may change the machine's receiver, and nothing else of it.
SameMachine ==
    /\ M'.buf = M.buf /\ M'.bLastWasCR = M.bLastWasCR
    /\ M'.pc = M.pc /\ M'.then = M.then

\* The two ports, and their fields.
LEMMA SidesFit ==
    ASSUME PortsFit
    PROVE  /\ B \in Ports /\ M \in Ports /\ port \in [Sides -> Ports]
           /\ B.out \in Seq(Tokens) /\ B.buf \in Seq(Plain) /\ M.rx \in Seq(Tokens)
           /\ M.buf \in Seq(Plain) /\ Rest \in Seq(Plain) /\ Rest \in Seq(Tokens)
<1>1. B \in Ports /\ M \in Ports /\ port \in [Sides -> Ports]
  BY DEF PortsFit, B, M, Sides
<1>2. /\ B.out \in Seq(Tokens) /\ B.buf \in Seq(Plain) /\ M.rx \in Seq(Tokens)
      /\ M.buf \in Seq(Plain)
  BY <1>1 DEF Ports, PortSet
<1>3. Rest \in Seq(Plain)
  BY <1>2, Joins, Zenon DEF Rest
<1> QED BY <1>1, <1>2, <1>3, Joins, Zenon

\* A line of com's is under way.
LEMMA InLineFits == InLine <=> B.out # <<>> \/ Rest # <<>>
BY Zenon DEF InLine, Rest, B

\* It is com's text that is under way, or that of one other.
LEMMA GoingFits ==
    ASSUME PortsFit, Alone
    PROVE  /\ Going \in Seq(Tokens)
           /\ B.out # <<>> => Silent
           /\ Silent => Going = B.out
           /\ \A o \in Talkers : talk[o] # <<>> =>
                 /\ Going = talk[o] /\ B.out = <<>> /\ Rest = <<>>
                 /\ \A p \in Talkers : p # o => talk[p] = <<>>
<1>1. Silent => Going = B.out
  BY Zenon DEF Going
<1>2. B.out # <<>> => Silent
  BY InLineFits, Zenon DEF Alone
<1>3. ASSUME NEW o \in Talkers, talk[o] # <<>>
      PROVE  /\ Going = talk[o] /\ B.out = <<>> /\ Rest = <<>>
             /\ \A p \in Talkers : p # o => talk[p] = <<>>
  <2>1. ~Silent
    BY <1>3, Zenon DEF Silent
  <2>2. B.out = <<>> /\ Rest = <<>>
    BY <2>1, InLineFits, Zenon DEF Alone
  <2>3. \A p \in Talkers : p # o => talk[p] = <<>>
    BY <1>3, Zenon DEF Alone
  <2>4. (CHOOSE p \in Talkers : talk[p] # <<>>) = o
    BY <1>3, <2>3
  <2>5. Going = talk[o]
    BY <2>1, <2>4, Zenon DEF Going
  <2> QED BY <2>2, <2>3, <2>5, Zenon
<1>4. Going \in Seq(Tokens)
  <2>1. CASE Silent
    BY <1>1, <2>1, SidesFit, Zenon
  <2>2. CASE ~Silent
    <3>1. PICK o \in Talkers : talk[o] # <<>>
      BY <2>2, Zenon DEF Silent
    <3>2. talk[o] \in Seq(Tokens)
      BY Zenon DEF PortsFit
    <3> QED BY <1>3, <3>1, <3>2, Zenon
  <2> QED BY <2>1, <2>2, Zenon
<1> QED BY <1>1, <1>2, <1>3, <1>4, Zenon

\* A quiet line is whole.
LEMMA SilentIsAlone == Silent => Alone
BY Zenon DEF Alone, Silent

\* The parts of the invariant are sequences of tokens.
LEMMA OwingFits ==
    ASSUME PortsFit, Whole
    PROVE  /\ B \in Ports /\ M \in Ports /\ M.rx \in Seq(Tokens) /\ Going \in Seq(Tokens)
           /\ owed \in Seq(LineSet) /\ owed \o <<>> = owed
           /\ Due \in Seq(LineSet) /\ Stream(Due) \in Seq(Tokens) /\ Rest \in Seq(Plain)
           /\ Rest \in Seq(Tokens) /\ Sent \in Seq(Tokens) /\ Owing \in Seq(Tokens)
<1>1. Going \in Seq(Tokens)
  BY GoingFits, Zenon DEF Whole
<1>2. owed \in Seq(LineSet) /\ (HasLine => owed # <<>>)
  BY Zenon DEF Whole, OwedFits
<1>3. Due \in Seq(LineSet) /\ owed \o <<>> = owed
  <2>1. owed # <<>> => Tail(owed) \in Seq(LineSet)
    BY <1>2, HeadTailProperties, Zenon
  <2>2. owed \o <<>> = owed
    BY <1>2, ConcatEmptySeq, Zenon
  <2> QED BY <1>2, <2>1, <2>2, Zenon DEF Due
<1>4. Stream(Due) \in Seq(Tokens)
  BY <1>3, StreamFits, Zenon
<1>5. Sent \in Seq(Tokens) /\ Owing \in Seq(Tokens)
  BY <1>1, <1>4, SidesFit, JoinLaws, Zenon DEF Sent, Owing
<1> QED BY <1>1, <1>2, <1>3, <1>4, <1>5, SidesFit, Zenon

\* More is sent, and owed.
LEMMA GrowsFits ==
    ASSUME PortsFit, Whole,
           HasLine' <=> HasLine, M'.buf = M.buf, M'.bLastWasCR = M.bLastWasCR
    PROVE  \A tokens \in Seq(Tokens) :
              Sent' = Join(Sent, tokens) /\ Owing' = Join(Owing, tokens) => LinesFit'
<1> SUFFICES ASSUME NEW tokens \in Seq(Tokens), Sent' = Join(Sent, tokens), Owing' = Join(Owing, tokens)
             PROVE  LinesFit'
  BY Zenon
<1>1. PICK read \in Seq(Plain), rem \in Lates :
        /\ Join(read, Sent) = Join(rem, Owing)
        /\ rem = <<>> \/ read = <<>>
        /\ rem # <<>> => M.bLastWasCR
        /\ HasLine => read = <<>>
        /\ ~HasLine => M.buf = Kept(read)
  BY Zenon DEF Whole, LinesFit
<1>2. PICK a \in Seq(Tokens), b \in Seq(Tokens), r \in Seq(Tokens), m \in Seq(Tokens) :
         a = Sent /\ b = Owing /\ r = read /\ m = rem
  <2>1. read \in Seq(Tokens) /\ rem \in Seq(Tokens)
    BY <1>1, Joins, Ends, Zenon DEF Lates
  <2> QED BY <2>1, OwingFits, Zenon
<1>3. Join(Join(r, a), tokens) = Join(r, Join(a, tokens)) /\ Join(Join(m, b), tokens) = Join(m, Join(b, tokens))
  BY JoinLaws, SMT
<1>4. Join(read, Sent') = Join(rem, Owing')
  BY <1>1, <1>2, <1>3, Zenon
<1>5. /\ rem # <<>> => M'.bLastWasCR
      /\ HasLine' => read = <<>>
      /\ ~HasLine' => M'.buf = Kept(read)
  BY <1>1, Zenon
<1> QED BY <1>1, <1>4, <1>5, Zenon DEF LinesFit

\* The machine is the board's peer, the board the machine's.
LEMMA Peers ==
    /\ "board" \in Sides /\ "machine" \in Sides
    /\ Peer("board") = "machine" /\ Peer("machine") = "board"
BY DEF Sides, Peer

\* Where the machine is in its line is told by its port.
LEMMA SameLine ==
    ASSUME M'.pc = M.pc, M'.then = M.then
    PROVE  HasLine' <=> HasLine
BY Zenon DEF HasLine

\* The texts under way stay as they are.
LEMMA TextsStand ==
    ASSUME talk' = talk, B'.out = B.out, Rest' = Rest
    PROVE  Going' = Going /\ (Alone => Alone')
<1>1. Silent' <=> Silent
  BY Zenon DEF Silent
<1>2. Alone => Alone'
  <2> SUFFICES ASSUME Alone PROVE Alone'
    OBVIOUS
  <2>1. InLine' <=> B'.out # <<>> \/ Rest' # <<>>
    BY Zenon DEF InLine, Rest, B
  <2>2. InLine' => Silent'
    BY <1>1, <2>1, InLineFits, Zenon DEF Alone
  <2>3. \A o, p \in Talkers : talk'[o] # <<>> /\ talk'[p] # <<>> => o = p
    BY Zenon DEF Alone
  <2> QED BY <2>2, <2>3, Zenon DEF Alone
<1>3. Going' = Going
  <2>1. CASE Silent
    BY <1>1, <2>1, Zenon DEF Going
  <2>2. CASE ~Silent
    <3>1. (CHOOSE o \in Talkers : talk'[o] # <<>>) = (CHOOSE o \in Talkers : talk[o] # <<>>)
      OBVIOUS
    <3> QED BY <1>1, <2>2, <3>1 DEF Going
  <2> QED BY <2>1, <2>2, Zenon
<1> QED BY <1>2, <1>3, Zenon

\* Nothing more is sent, nor owed.
LEMMA StandsFits ==
    ASSUME PortsFit, Whole,
           HasLine' <=> HasLine, M'.buf = M.buf, M'.bLastWasCR = M.bLastWasCR,
           M'.rx = M.rx, B'.out = B.out, Rest' = Rest, owed' = owed, talk' = talk
    PROVE  Whole'
<1>1. OwedFits' /\ Due' = Due
  BY Zenon DEF Whole, OwedFits, Due
<1>2. Alone' /\ Going' = Going
  BY TextsStand, Zenon DEF Whole
<1>3. Sent' = Join(Sent, <<>>) /\ Owing' = Join(Owing, <<>>) /\ <<>> \in Seq(Tokens)
  BY <1>1, <1>2, OwingFits, JoinLaws, Zenon DEF Sent, Owing
<1> QED BY <1>1, <1>2, <1>3, GrowsFits, Zenon DEF Whole

\* A token of the text under way is sent: it is still on its way, in the machine's
\* FIFO.
LEMMA MovesFits ==
    ASSUME PortsFit, Whole, SameMachine, Alone', owed' = owed, Rest' = Rest,
           Going # <<>>, Going' = Tail(Going), M'.rx = Append(M.rx, Head(Going))
    PROVE  Whole'
<1>1. HasLine' <=> HasLine
  BY SameLine, Zenon DEF SameMachine
<1>2. OwedFits' /\ Due' = Due
  BY <1>1, Zenon DEF Whole, OwedFits, Due, SameMachine
<1>3. Sent' = Sent
  <2>1. PICK x \in Seq(Tokens), g \in Seq(Tokens) : x = M.rx /\ g = Going /\ g # <<>>
    BY OwingFits, Zenon
  <2>2. Join(Append(x, Head(g)), Tail(g)) = Join(x, g)
    BY <2>1, TokenMoves, Zenon
  <2> QED BY <2>1, <2>2, Zenon DEF Sent
<1>4. Owing' = Owing
  BY <1>2, Zenon DEF Owing
<1>5. Sent' = Join(Sent, <<>>) /\ Owing' = Join(Owing, <<>>) /\ <<>> \in Seq(Tokens)
  BY <1>3, <1>4, OwingFits, JoinLaws, Zenon
<1>6. LinesFit'
  BY <1>1, <1>5, GrowsFits, Zenon DEF SameMachine
<1> QED BY <1>2, <1>6, Zenon DEF Whole

\* A token of the board's arrives: the machine's receiver has it, or nothing of the
\* machine changes.
LEMMA ReceivedFits ==
    ASSUME PortsFit, NEW t \in Tokens,
           Overruns("board") => M' = M,
           ~Overruns("board") => ~(Len(M.rx) >= RX_FIFO) /\ M' = Received(M, t)
    PROVE  SameMachine /\ (~Overruns("board") => M'.rx = Append(M.rx, t))
<1>1. M \in Ports
  BY SidesFit, Zenon
<1>2. ~(Len(M.rx) >= RX_FIFO) =>
         /\ Received(M, t).rx = Append(M.rx, t) /\ Received(M, t).buf = M.buf
         /\ Received(M, t).bLastWasCR = M.bLastWasCR
         /\ Received(M, t).pc = M.pc /\ Received(M, t).then = M.then
  BY <1>1, PortReceives, Zenon
<1> QED BY <1>2, Zenon DEF SameMachine

\* Com sends a token.
LEMMA BoardPutFits ==
    ASSUME PortsFit, Put("board")
    PROVE  /\ PortsFit' /\ M'.pc = M.pc
           /\ Whole /\ ~Overruns("board") /\ owed' = owed => Whole'
<1>1. B \in Ports /\ M \in Ports /\ B.pc = "put" /\ talk' = talk
  BY SidesFit, Zenon DEF Put, B
<1>2. /\ port' \in [Sides -> Ports] /\ B' = Sending(B)
      /\ Overruns("board") => M' = M
      /\ ~Overruns("board") => ~(Len(M.rx) >= RX_FIFO) /\ M' = Received(M, Head(B.out))
  BY PutStep, Peers, Zenon DEF PortsFit, B, M
<1>3. /\ B.out \in Seq(Tokens) /\ B.out # <<>> /\ B'.out = Tail(B.out)
      /\ B'.pc = (IF Len(B.out) = 1 THEN B.then ELSE "put")
      /\ B'.rx = B.rx /\ B'.buf = B.buf /\ B'.then = B.then
  BY <1>1, <1>2, PortPuts, Zenon
<1>4. SameMachine /\ (~Overruns("board") => M'.rx = Append(M.rx, Head(B.out)))
  <2>1. Head(B.out) \in Tokens
    BY <1>3, TailFits, Zenon
  <2> QED BY <1>2, <2>1, ReceivedFits, Zenon
<1>5. PortsFit'
  <2>1. B'.pc = "put" /\ B'.then = "gets" => B'.buf = <<>>
    BY <1>1, <1>3, Zenon DEF PortsFit
  <2>2. M'.pc # "idle" /\ (M'.pc = "put" => M'.then # "idle")
    BY <1>4, Zenon DEF PortsFit, SameMachine
  <2> QED BY <1>1, <1>2, <2>1, <2>2, Zenon DEF PortsFit
<1>6. Rest = <<>> /\ Rest' = <<>>
  <2>1. Rest = <<>>
    BY <1>1 DEF Rest
  <2>2. B'.pc = "gets" => B'.buf = <<>>
    BY <1>1, <1>3 DEF PortsFit
  <2> QED BY <2>1, <2>2, Zenon DEF Rest
<1>7. ASSUME Whole, ~Overruns("board"), owed' = owed
      PROVE  Whole'
  <2>1. Silent /\ Going = B.out
    BY <1>3, <1>7, GoingFits, Zenon DEF Whole
  <2>2. Silent' /\ Alone' /\ Going' = B'.out
    <3>1. Silent'
      BY <1>1, <2>1, Zenon DEF Silent
    <3>2. Alone'
      BY <3>1, SilentIsAlone, PTL
    <3> QED BY <3>1, <3>2, Zenon DEF Going
  <2> QED BY <1>3, <1>4, <1>6, <1>7, <2>1, <2>2, MovesFits, Zenon
<1> QED BY <1>4, <1>5, <1>7, Zenon DEF SameMachine

\* The machine sends a token: its own line stands.
LEMMA MachinePutFits ==
    ASSUME PortsFit, Put("machine")
    PROVE  PortsFit' /\ (Whole /\ owed' = owed => Whole')
<1>1. B \in Ports /\ M \in Ports /\ M.pc = "put" /\ talk' = talk
  BY SidesFit, Zenon DEF Put, M
<1>2. /\ port' \in [Sides -> Ports] /\ M' = Sending(M)
      /\ Overruns("machine") => B' = B
      /\ ~Overruns("machine") => ~(Len(B.rx) >= RX_FIFO) /\ B' = Received(B, Head(M.out))
  BY PutStep, Peers, Zenon DEF PortsFit, B, M
<1>3. /\ M.out \in Seq(Tokens) /\ M.out # <<>>
      /\ M'.pc = (IF Len(M.out) = 1 THEN M.then ELSE "put")
      /\ M'.rx = M.rx /\ M'.buf = M.buf /\ M'.then = M.then /\ M'.bLastWasCR = M.bLastWasCR
  BY <1>1, <1>2, PortPuts, Zenon
<1>4. B'.out = B.out /\ B'.buf = B.buf /\ B'.pc = B.pc /\ B'.then = B.then
  <2>1. Head(M.out) \in Tokens
    BY <1>3, TailFits, Zenon
  <2>2. PICK t \in Tokens : t = Head(M.out)
    BY <2>1, Zenon
  <2>3. ~(Len(B.rx) >= RX_FIFO) =>
           /\ Received(B, t).out = B.out /\ Received(B, t).buf = B.buf
           /\ Received(B, t).pc = B.pc /\ Received(B, t).then = B.then
    BY <1>1, PortReceives, Zenon
  <2> QED BY <1>2, <2>2, <2>3, Zenon
<1>5. M.then # "idle" /\ M'.pc # "idle"
  BY <1>1, <1>3 DEF PortsFit
<1>6. PortsFit'
  <2>1. B'.pc = "put" /\ B'.then = "gets" => B'.buf = <<>>
    BY <1>4, Zenon DEF PortsFit
  <2> QED BY <1>1, <1>2, <1>3, <1>5, <2>1, Zenon DEF PortsFit
<1>7. HasLine' <=> HasLine
  BY <1>1, <1>3 DEF HasLine
<1>8. Rest' = Rest
  BY <1>4, Zenon DEF Rest
<1>9. ASSUME Whole, owed' = owed
      PROVE  Whole'
  BY <1>1, <1>3, <1>4, <1>7, <1>8, <1>9, StandsFits, Zenon
<1> QED BY <1>6, <1>9, Zenon

\* The board drops the LF behind a CR: nothing is sent.
LEMMA BoardGobbleFits ==
    ASSUME PortsFit, Gobble("board")
    PROVE  PortsFit' /\ M'.pc = M.pc /\ (Whole /\ owed' = owed => Whole')
<1>1. B \in Ports /\ M \in Ports /\ talk' = talk
  BY SidesFit, Zenon DEF Gobble
<1>2. /\ port' \in [Sides -> Ports] /\ B' = Handled(B, FALSE) /\ M' = M /\ B.rx # <<>>
  BY GobbleStep, Peers, Zenon DEF PortsFit, B, M
<1>3. B'.out = B.out /\ B'.buf = B.buf /\ B'.pc = B.pc /\ B'.then = B.then
  BY <1>1, <1>2, PortHandles, Zenon
<1>4. PortsFit'
  BY <1>1, <1>2, <1>3, Zenon DEF PortsFit
<1>5. HasLine' <=> HasLine
  BY <1>2, SameLine, Zenon
<1>6. Rest' = Rest
  BY <1>3, Zenon DEF Rest
<1>7. ASSUME Whole, owed' = owed
      PROVE  Whole'
  BY <1>1, <1>2, <1>3, <1>5, <1>6, <1>7, StandsFits, Zenon
<1> QED BY <1>2, <1>4, <1>7, Zenon

\* The board has no room for a token: nothing is sent.
LEMMA BoardIgnoreFits ==
    ASSUME PortsFit, Ignore("board")
    PROVE  PortsFit' /\ M'.pc = M.pc /\ (Whole /\ owed' = owed => Whole')
<1>1. B \in Ports /\ M \in Ports /\ talk' = talk
  BY SidesFit, Zenon DEF Ignore
<1>2. /\ port' \in [Sides -> Ports] /\ B' = Dropped(B) /\ M' = M /\ B.rx # <<>>
      /\ Head(B.rx) \in Plain
  BY IgnoreStep, Peers, Zenon DEF PortsFit, B, M
<1>3. B'.out = B.out /\ B'.buf = B.buf /\ B'.pc = B.pc /\ B'.then = B.then
  <2>1. Head(B.rx) \notin {CR, LF}
    BY <1>2, TokenKinds, Zenon
  <2> QED BY <1>1, <1>2, <2>1, PortKeeps, Zenon
<1>4. PortsFit'
  BY <1>1, <1>2, <1>3, Zenon DEF PortsFit
<1>5. HasLine' <=> HasLine
  BY <1>2, SameLine, Zenon
<1>6. Rest' = Rest
  BY <1>3, Zenon DEF Rest
<1>7. ASSUME Whole, owed' = owed
      PROVE  Whole'
  BY <1>1, <1>2, <1>3, <1>5, <1>6, <1>7, StandsFits, Zenon
<1> QED BY <1>2, <1>4, <1>7, Zenon

\* The board keeps a token and echoes it: both what is sent and what is owed grow by it.
LEMMA BoardKeepFits ==
    ASSUME PortsFit, Keep("board")
    PROVE  /\ PortsFit' /\ M'.pc = M.pc
           /\ Whole /\ Silent /\ ~Overruns("board") /\ owed' = owed => Whole'
<1> DEFINE t == Head(B.rx)
<1>1. B \in Ports /\ M \in Ports /\ talk' = talk
  BY SidesFit, Zenon DEF Keep
<1>2. /\ port' \in [Sides -> Ports] /\ B.pc = "gets" /\ B.rx # <<>> /\ t \in Plain
      /\ Dropped(B) \in Ports /\ Len(B.buf) < LINE
      /\ B' = Stored(Dropped(B), t)
      /\ Overruns("board") => M' = M
      /\ ~Overruns("board") => ~(Len(M.rx) >= RX_FIFO) /\ M' = Received(M, t)
  BY KeepStep, Peers, Zenon DEF PortsFit, B, M
<1>3. /\ Dropped(B).out = B.out /\ Dropped(B).buf = B.buf /\ Dropped(B).pc = B.pc
      /\ B.out = <<>> /\ B.buf \in Seq(Plain) /\ M.rx \in Seq(Tokens)
  <2>1. Head(B.rx) \notin {CR, LF}
    BY <1>2, TokenKinds, Zenon
  <2>2. Dropped(B).out = B.out /\ Dropped(B).buf = B.buf /\ Dropped(B).pc = B.pc
    BY <1>1, <1>2, <2>1, PortKeeps, Zenon
  <2>3. B.out = <<>> /\ B.buf \in Seq(Plain) /\ M.rx \in Seq(Tokens)
    BY <1>1, <1>2 DEF Ports, PortSet
  <2> QED BY <2>2, <2>3, Zenon
<1>4. PICK u \in Plain, d \in Ports : u = t /\ d = Dropped(B)
  BY <1>2, Zenon
<1>5. B'.out = <<>> /\ B'.buf = Append(B.buf, u) /\ B'.pc = "gets"
  <2>1. Len(d.buf) < LINE
    BY <1>2, <1>3, <1>4, Zenon
  <2>2. Stored(d, u).buf = Append(d.buf, u) /\ Stored(d, u).out = d.out /\ Stored(d, u).pc = d.pc
    BY <2>1, PortStores, Zenon DEF Stored
  <2> QED BY <1>2, <1>3, <1>4, <2>2, Zenon
<1>6. u \in Tokens
  BY TokenKinds, Zenon
<1>7. SameMachine /\ (~Overruns("board") => M'.rx = Append(M.rx, u))
  BY <1>2, <1>4, <1>6, ReceivedFits, Zenon
<1>8. PortsFit'
  <2>1. M'.pc # "idle" /\ (M'.pc = "put" => M'.then # "idle")
    BY <1>7, Zenon DEF PortsFit, SameMachine
  <2>2. B'.pc # "put"
    BY <1>5
  <2> QED BY <1>1, <1>2, <2>1, <2>2, Zenon DEF PortsFit
<1>9. ASSUME Whole, Silent, ~Overruns("board"), owed' = owed
      PROVE  Whole'
  <2>1. HasLine' <=> HasLine
    BY <1>7, SameLine, Zenon DEF SameMachine
  <2>2. OwedFits' /\ Due' = Due
    BY <1>7, <1>9, <2>1, Zenon DEF Whole, OwedFits, Due, SameMachine
  <2>3. Silent' /\ Alone' /\ Going = <<>> /\ Going' = <<>>
    <3>1. Silent'
      BY <1>1, <1>9, Zenon DEF Silent
    <3>2. Alone'
      BY <3>1, SilentIsAlone, PTL
    <3> QED BY <1>3, <1>5, <1>9, <3>1, <3>2, Zenon DEF Going
  <2>4. PICK one \in Seq(Tokens) : one = <<u>>
    <3>1. \A v \in Tokens : <<v>> \in Seq(Tokens)
      OBVIOUS
    <3> QED BY <1>6, <3>1, Zenon
  <2>5. Sent' = Join(Sent, one)
    <3>1. Append(M.rx, u) = Join(M.rx, one)
      BY <1>3, <1>6, <2>4, TokenMoves, Zenon
    <3>2. Sent' = Join(Join(M.rx, one), <<>>) /\ Sent = Join(M.rx, <<>>)
      BY <1>7, <1>9, <2>3, <3>1, Zenon DEF Sent
    <3>3. PICK x \in Seq(Tokens) : x = M.rx
      BY <1>3, Zenon
    <3>4. Join(Join(x, one), <<>>) = Join(x, one) /\ Join(x, <<>>) = x
      BY JoinLaws, Zenon
    <3> QED BY <3>2, <3>3, <3>4, Zenon
  <2>6. Owing' = Join(Owing, one)
    <3>1. PICK r \in Seq(Tokens), s \in Seq(Tokens) : r = B.buf /\ s = Stream(Due)
      BY <1>3, <1>9, OwingFits, Joins, Zenon
    <3>2. Append(r, u) = Join(r, one)
      BY <1>6, <2>4, TokenMoves, Zenon
    <3>3. Rest = r /\ Rest' = Append(r, u)
      BY <1>2, <1>5, <3>1, Zenon DEF Rest
    <3>4. Join(s, Join(r, one)) = Join(Join(s, r), one)
      BY JoinLaws, SMT
    <3> QED BY <2>2, <3>1, <3>2, <3>3, <3>4, Zenon DEF Owing
  <2>7. LinesFit'
    BY <1>7, <1>9, <2>1, <2>5, <2>6, GrowsFits, Zenon DEF SameMachine
  <2> QED BY <2>2, <2>3, <2>7, Zenon DEF Whole
<1> QED BY <1>7, <1>8, <1>9, Zenon DEF SameMachine

\* A text begins that ends the line under way.
LEMMA SendsFits ==
    ASSUME PortsFit, Whole, Alone', M' = M, Going = <<>>, Rest' = <<>>,
           Going' \in Seq(Tokens),
           owed' \in Seq(LineSet), owed' # <<>>,
           Stream(owed') = Join(Stream(owed), Join(Rest, Going')),
           owed # <<>> => /\ Head(owed') = Head(owed)
                          /\ Stream(Tail(owed')) = Join(Stream(Tail(owed)), Join(Rest, Going'))
    PROVE  Whole'
<1>1. HasLine' <=> HasLine
  BY SameLine, Zenon
<1>2. OwedFits'
  BY <1>1, Zenon DEF Whole, OwedFits
<1>3. Stream(Due') = Join(Stream(Due), Join(Rest, Going'))
  BY <1>1, Zenon DEF Whole, OwedFits, Due
<1>4. PICK s \in Seq(Tokens), r \in Seq(Tokens), x \in Seq(Tokens), o \in Seq(Tokens) :
         s = Stream(Due) /\ r = Rest /\ x = M.rx /\ o = Going'
  BY OwingFits, Zenon
<1>5. Owing' = Join(Join(s, Join(r, o)), <<>>) /\ Owing = Join(s, r)
  BY <1>3, <1>4, Zenon DEF Owing
<1>6. Sent' = Join(x, o) /\ Sent = Join(x, <<>>)
  BY <1>4, Zenon DEF Sent
<1>7. Join(Join(s, Join(r, o)), <<>>) = Join(Join(s, r), o)
  <2>1. Join(r, o) \in Seq(Tokens) /\ Join(s, Join(r, o)) = Join(Join(s, r), o)
    BY JoinLaws, SMT
  <2>2. Join(s, Join(r, o)) \in Seq(Tokens)
    BY <2>1, JoinLaws, Zenon
  <2> QED BY <2>1, <2>2, JoinLaws, Zenon
<1>8. Join(x, <<>>) = x
  BY JoinLaws, Zenon
<1>9. Sent' = Join(Sent, o) /\ Owing' = Join(Owing, o)
  BY <1>5, <1>6, <1>7, <1>8, Zenon
<1>10. LinesFit'
  BY <1>1, <1>9, GrowsFits, Zenon
<1> QED BY <1>2, <1>10, Zenon DEF Whole

\* A text is its line.
LEMMA PrintedLine ==
    ASSUME NEW format \in Seq(Pieces(Plain))
    PROVE  \E tokens \in Texts, l \in LineSet :
              /\ tokens = UARTprintf(Append(format, Text(LF)))
              /\ l = LineOf(UARTprintf(Append(format, Text(LF))))
              /\ tokens = Join(l.text, l.end)
<1>1. PICK text \in Seq(Plain) : text = UARTprintf(format)
  BY PrintfPieces, Zenon
<1>2. PICK l \in LineSet : l = [text |-> text, end |-> <<CR, LF>>]
  BY LineTokens, Zenon
<1>3. l.text = text /\ l.end = <<CR, LF>>
  BY <1>2
<1>4. /\ UARTprintf(Append(format, Text(LF))) \in Texts
      /\ UARTprintf(Append(format, Text(LF))) = Join(text, <<CR, LF>>)
      /\ LineOf(UARTprintf(Append(format, Text(LF)))) = l
  BY <1>1, <1>2, PrintfLine, Zenon DEF Join, Texts
<1> QED BY <1>3, <1>4, Zenon

\* A line is sent from its beginning.
LEMMA SendsLineFits ==
    ASSUME PortsFit, Whole, Alone', M' = M, Going = <<>>, Rest = <<>>, Rest' = <<>>,
           NEW tokens \in Texts, NEW l \in LineSet, tokens = Join(l.text, l.end),
           Going' = tokens, owed' = owed \o <<l>>
    PROVE  Whole'
<1>1. owed \in Seq(LineSet)
  BY Zenon DEF Whole, OwedFits
<1>2. PICK o \in Seq(LineSet) : o = owed
  BY <1>1, Zenon
<1>3. /\ Append(o, l) \in Seq(LineSet) /\ Append(o, l) # <<>>
      /\ o \o <<l>> = Append(o, l)
      /\ Stream(Append(o, l)) = Join(Stream(o), Join(l.text, l.end))
      /\ o # <<>> => Head(Append(o, l)) = Head(o) /\ Tail(Append(o, l)) = Append(Tail(o), l)
                     /\ Tail(o) \in Seq(LineSet)
  BY LineAppended, Zenon
<1>4. o # <<>> => Stream(Append(Tail(o), l)) = Join(Stream(Tail(o)), Join(l.text, l.end))
  BY <1>3, LineAppended, Zenon
<1>5. owed' = Append(o, l)
  BY <1>2, <1>3, Zenon
<1>6. tokens \in Seq(Tokens) /\ Join(Rest, Going') = tokens
  BY JoinLaws, Zenon DEF Texts
<1> QED BY <1>2, <1>3, <1>4, <1>5, <1>6, SendsFits, Zenon

\* Two lines are sent from the beginning of the first.
LEMMA SendsLinesFit ==
    ASSUME PortsFit, Whole, Alone', M' = M, Going = <<>>, Rest = <<>>, Rest' = <<>>,
           NEW k \in LineSet, NEW l \in LineSet,
           Going' = Join(Join(k.text, k.end), Join(l.text, l.end)), owed' = owed \o <<k, l>>
    PROVE  Whole'
<1>1. PICK o \in Seq(LineSet), more \in Seq(Tokens) :
         o = owed /\ more = Join(Join(k.text, k.end), Join(l.text, l.end))
  <2>1. \A a \in LineSet : Join(a.text, a.end) \in Seq(Tokens)
    BY LineTokens, Zenon DEF Join
  <2>2. Join(Join(k.text, k.end), Join(l.text, l.end)) \in Seq(Tokens)
    BY <2>1, JoinLaws, Zenon
  <2> QED BY <2>2, Zenon DEF Whole, OwedFits
<1>2. /\ o \o <<k, l>> \in Seq(LineSet) /\ o \o <<k, l>> # <<>>
      /\ Stream(o \o <<k, l>>) = Join(Stream(o), more)
      /\ o # <<>> => /\ Head(o \o <<k, l>>) = Head(o)
                     /\ Stream(Tail(o \o <<k, l>>)) = Join(Stream(Tail(o)), more)
  BY <1>1, TwoLinesAppended, Zenon
<1>3. Join(Rest, Going') = more
  BY <1>1, JoinLaws, Zenon
<1> QED BY <1>1, <1>2, <1>3, SendsFits, Zenon

\* A format that ends with LF.
LEMMA Formats ==
    /\ \A S : \A a \in S : <<a>> \in Seq(S) /\ \A f : <<a, f>> = Append(<<a>>, f)
    /\ \A S : \A a, b \in S : <<a, b>> \in Seq(S) /\ \A f : <<a, b, f>> = Append(<<a, b>>, f)
    /\ \A S : \A a, b, c \in S : <<a, b, c>> \in Seq(S) /\ \A f : <<a, b, c, f>> = Append(<<a, b, c>>, f)
    /\ \A S : \A a, b, c, d \in S :
          <<a, b, c, d>> \in Seq(S) /\ \A f : <<a, b, c, d, f>> = Append(<<a, b, c, d>>, f)
<1>1. \A S : \A a \in S : <<a>> \in Seq(S) /\ \A f : <<a, f>> = Append(<<a>>, f)
  OBVIOUS
<1>2. \A S : \A a, b \in S : <<a, b>> \in Seq(S) /\ \A f : <<a, b, f>> = Append(<<a, b>>, f)
  OBVIOUS
<1>3. \A S : \A a, b, c \in S : <<a, b, c>> \in Seq(S) /\ \A f : <<a, b, c, f>> = Append(<<a, b, c>>, f)
  OBVIOUS
<1>4. \A S : \A a, b, c, d \in S :
         <<a, b, c, d>> \in Seq(S) /\ \A f : <<a, b, c, d, f>> = Append(<<a, b, c, d>>, f)
  OBVIOUS
<1> QED BY <1>1, <1>2, <1>3, <1>4, Zenon

\* The board starts to send: the machine's port stays.
LEMMA BoardPrints ==
    ASSUME port \in [Sides -> Ports]
    PROVE  \A p \in Ports, tokens \in Texts, then \in Nexts :
              port' = [port EXCEPT !["board"] = Printing(p, tokens, then)] =>
              /\ port' \in [Sides -> Ports] /\ M' = M
              /\ B'.out = tokens /\ B'.pc = "put" /\ B'.then = then /\ B'.buf = p.buf
<1> TAKE p \in Ports, tokens \in Texts, then \in Nexts
<1>1. PICK s \in Sides : s = "board" /\ Peer(s) = "machine"
  BY Peers, Zenon
<1>2. PICK q \in Ports :
         /\ q = Printing(p, tokens, then)
         /\ [port EXCEPT ![s] = q] \in [Sides -> Ports]
         /\ [port EXCEPT ![s] = q][s] = q /\ [port EXCEPT ![s] = q][Peer(s)] = port[Peer(s)]
         /\ q.out = tokens /\ q.pc = "put" /\ q.then = then /\ q.buf = p.buf
  BY PrintChanges, SMT
<1> QED BY <1>1, <1>2, Zenon DEF B, M

\* A text of com's begins, and ends the line under way.
LEMMA ComBeginsFits ==
    ASSUME Alone, Silent, talk' = talk, B.out = <<>>
    PROVE  Alone' /\ Going = <<>> /\ Going' = B'.out
<1>1. Silent'
  BY Zenon DEF Silent
<1>2. Alone'
  BY <1>1, SilentIsAlone, PTL
<1> QED BY <1>1, <1>2, Zenon DEF Going

\* The board starts to send a line.
LEMMA BeginsFits ==
    ASSUME PortsFit, NEW format \in Seq(Pieces(Plain)), NEW then \in {"idle", "gets"}, NEW sets,
           Begins(UARTprintf(Append(format, Text(LF))), then, sets)
    PROVE  /\ PortsFit' /\ M' = M
           /\ Whole /\ Silent /\ owed' = owed \o <<LineOf(UARTprintf(Append(format, Text(LF))))>>
              => Whole'
<1>1. PICK tokens \in Texts, l \in LineSet :
         /\ tokens = UARTprintf(Append(format, Text(LF)))
         /\ l = LineOf(UARTprintf(Append(format, Text(LF)))) /\ tokens = Join(l.text, l.end)
  BY PrintedLine, Zenon
<1>2. /\ B \in Ports /\ M \in Ports /\ talk' = talk /\ B.pc = "idle"
      /\ port' = [port EXCEPT !["board"] = Printing(Emptied(port["board"]), tokens, then)]
  BY <1>1, SidesFit, Zenon DEF Begins, Emptied, B
<1>3. PICK e \in Ports : e = Emptied(port["board"]) /\ e.buf = <<>>
  BY <1>2, PortEmpties, Zenon DEF B
<1>4. PICK th \in Nexts : th = then
  BY Zenon DEF Nexts
<1>5. /\ port' \in [Sides -> Ports] /\ M' = M
      /\ B'.out = tokens /\ B'.pc = "put" /\ B'.buf = <<>>
  <2>1. port' = [port EXCEPT !["board"] = Printing(e, tokens, th)]
    BY <1>2, <1>3, <1>4, Zenon
  <2> QED BY <1>3, <2>1, SidesFit, BoardPrints, Zenon
<1>6. PortsFit'
  BY <1>2, <1>5, Zenon DEF PortsFit
<1>7. B.out = <<>> /\ Rest = <<>> /\ Rest' = <<>>
  <2>1. B.out = <<>> /\ B.pc # "gets" /\ B'.pc # "gets"
    BY <1>2, <1>5 DEF Ports
  <2> QED BY <2>1, Zenon DEF Rest
<1>8. ASSUME Whole, Silent, owed' = owed \o <<LineOf(UARTprintf(Append(format, Text(LF))))>>
      PROVE  Whole'
  <2>1. Alone' /\ Going = <<>> /\ Going' = tokens
    BY <1>2, <1>5, <1>7, <1>8, ComBeginsFits, Zenon DEF Whole
  <2> QED BY <1>1, <1>5, <1>7, <1>8, <2>1, SendsLineFits, Zenon
<1> QED BY <1>5, <1>6, <1>8, Zenon

\* The board's log of the line that it read.
LEMMA LogLineFits ==
    ASSUME PortsFit, LogLine
    PROVE  /\ PortsFit' /\ M' = M
           /\ \E tokens :
                 /\ Owes(Said(Com, TRUE), <<LineOf(tokens)>>, {})
                 /\ Whole /\ Silent /\ owed' = owed \o <<LineOf(tokens)>> => Whole'
<1> DEFINE format == <<Text(Word("READ")), String(B.buf), Text(Word("'"))>>
<1>1. B \in Ports /\ B.buf \in Seq(Plain)
  BY SidesFit, Zenon
<1>2. /\ format \in Seq(Pieces(Plain))
      /\ <<Text(Word("READ")), String(B.buf), Text(Word("'")), Text(LF)>> = Append(format, Text(LF))
  <2>1. Text(Word("READ")) \in Pieces(Plain) /\ Text(Word("'")) \in Pieces(Plain)
    BY PiecesFit, Zenon DEF Words
  <2>2. String(B.buf) \in Pieces(Plain)
    BY <1>1, PiecesFit, Zenon
  <2>3. PICK x \in Pieces(Plain), y \in Pieces(Plain), z \in Pieces(Plain) :
           x = Text(Word("READ")) /\ y = String(B.buf) /\ z = Text(Word("'"))
    BY <2>1, <2>2, Zenon
  <2>4. <<x, y, z>> \in Seq(Pieces(Plain)) /\ \A f : <<x, y, z, f>> = Append(<<x, y, z>>, f)
    BY Formats, SMT
  <2> QED BY <2>3, <2>4, Zenon
<1>3. /\ B.pc = "line" /\ talk' = talk
      /\ port' = [port EXCEPT !["board"] = Printing(@, UARTprintf(Append(format, Text(LF))), "idle")]
      /\ Owes(Said(Com, TRUE), <<LineOf(UARTprintf(Append(format, Text(LF))))>>, {})
  BY <1>2, Zenon DEF LogLine, BoardPrintf, B
<1> HIDE DEF format
<1>4. PICK tokens \in Texts, l \in LineSet :
         /\ tokens = UARTprintf(Append(format, Text(LF)))
         /\ l = LineOf(UARTprintf(Append(format, Text(LF)))) /\ tokens = Join(l.text, l.end)
  BY <1>2, PrintedLine, Zenon
<1>5. /\ port' \in [Sides -> Ports] /\ M' = M
      /\ B'.out = tokens /\ B'.pc = "put" /\ B'.then = "idle"
  <2>1. PICK b \in Ports : b = port["board"]
    BY <1>1, Zenon DEF B
  <2>2. PICK th \in Nexts : th = "idle"
    BY Zenon DEF Nexts
  <2>3. port' = [port EXCEPT !["board"] = Printing(b, tokens, th)]
    BY <1>3, <1>4, <2>1, <2>2, Zenon
  <2> QED BY <2>2, <2>3, SidesFit, BoardPrints, Zenon
<1>6. PortsFit'
  <2>1. B'.then # "gets"
    BY <1>5
  <2> QED BY <1>3, <1>5, <2>1, Zenon DEF PortsFit
<1>7. B.out = <<>> /\ Rest = <<>> /\ Rest' = <<>>
  <2>1. B.out = <<>> /\ B.pc # "gets" /\ B'.pc # "gets"
    BY <1>1, <1>3, <1>5 DEF Ports
  <2> QED BY <2>1, Zenon DEF Rest
<1>8. ASSUME Whole, Silent, owed' = owed \o <<l>>
      PROVE  Whole'
  <2>1. Alone' /\ Going = <<>> /\ Going' = tokens
    BY <1>3, <1>5, <1>7, <1>8, ComBeginsFits, Zenon DEF Whole
  <2> QED BY <1>4, <1>5, <1>7, <1>8, <2>1, SendsLineFits, Zenon
<1>9. l = LineOf(tokens)
  BY <1>4, Zenon
<1> QED BY <1>3, <1>4, <1>5, <1>6, <1>8, <1>9, Zenon

\* Two lines more are owed: the tokens that they are.
LEMMA TwoLinesMore ==
    \A o \in Seq(LineSet), k \in LineSet, l \in LineSet, more \in Seq(Tokens) :
        more = Join(Join(k.text, k.end), Join(l.text, l.end)) =>
        /\ o \o <<k, l>> \in Seq(LineSet) /\ o \o <<k, l>> # <<>>
        /\ Stream(o \o <<k, l>>) = Join(Stream(o), more)
        /\ o # <<>> => /\ Head(o \o <<k, l>>) = Head(o)
                       /\ Stream(Tail(o \o <<k, l>>)) = Join(Stream(Tail(o)), more)
<1> TAKE o \in Seq(LineSet), k \in LineSet, l \in LineSet, more \in Seq(Tokens)
<1> HAVE more = Join(Join(k.text, k.end), Join(l.text, l.end))
<1>1. /\ o \o <<k, l>> \in Seq(LineSet) /\ o \o <<k, l>> # <<>>
      /\ Stream(o \o <<k, l>>) = Join(Stream(o), Join(Join(k.text, k.end), Join(l.text, l.end)))
  BY TwoLinesAppended, Zenon
<1>2. o # <<>> =>
         /\ Head(o \o <<k, l>>) = Head(o)
         /\ Stream(Tail(o \o <<k, l>>))
               = Join(Stream(Tail(o)), Join(Join(k.text, k.end), Join(l.text, l.end)))
  BY TwoLinesAppended, Zenon
<1> QED BY <1>1, <1>2, Zenon

\* The board reads an end of line: the echo of it ends the line that it has echoed,
\* and sends an empty one.
LEMMA BoardEndLineFits ==
    ASSUME PortsFit, EndLine("board")
    PROVE  /\ PortsFit' /\ M' = M
           /\ Whole /\ Silent /\ owed' = owed \o EchoedLines(port["board"].buf) => Whole'
<1>1. /\ B \in Ports /\ M \in Ports /\ talk' = talk
      /\ B.pc = "gets" /\ B.out = <<>> /\ B.buf \in Seq(Plain)
  <2>1. B \in Ports /\ M \in Ports /\ talk' = talk /\ B.pc = "gets" /\ B.buf \in Seq(Plain)
    BY SidesFit, Zenon DEF EndLine, B
  <2> QED BY <2>1 DEF Ports
<1>2. PICK last \in BOOLEAN : /\ port' \in [Sides -> Ports] /\ M' = M
                              /\ Handled(B, last) \in Ports
                              /\ B' = Printing(Handled(B, last), UARTwrite(<<CR, LF>>), "line")
  BY EndLineStep, Peers, Zenon DEF PortsFit, B, M
<1>3. PICK h \in Ports, tokens \in Texts : h = Handled(B, last) /\ tokens = UARTwrite(<<CR, LF>>)
  BY <1>2, EchoFits, Zenon DEF Texts
<1>4. B'.out = tokens /\ B'.pc = "put" /\ B'.then = "line"
  <2>1. LET q == Printing(h, tokens, "line")
        IN /\ q.out = tokens /\ q.pc = "put" /\ q.then = "line"
    BY PortPrints DEF Texts
  <2> QED BY <1>2, <1>3, <2>1, Zenon
<1>5. PortsFit'
  <2>1. B'.then # "gets"
    BY <1>4
  <2> QED BY <1>1, <1>2, <2>1, Zenon DEF PortsFit
<1>6. PICK k \in LineSet, l \in LineSet, buf \in Seq(Tokens) :
         /\ EchoedLines(B.buf) = <<k, l>> /\ buf = B.buf
         /\ k.text = buf /\ k.end = <<CR>> /\ l.text = <<>> /\ l.end = Join(<<CR>>, <<LF>>)
  <2>1. [text |-> B.buf, end |-> <<CR>>] \in LineSet /\ [text |-> <<>>, end |-> <<CR, LF>>] \in LineSet
    BY <1>1, LineTokens, Joins, Zenon
  <2>2. PICK k \in LineSet, l \in LineSet : /\ k = [text |-> B.buf, end |-> <<CR>>]
                                            /\ l = [text |-> <<>>, end |-> <<CR, LF>>]
    BY <2>1, Zenon
  <2>3. k.text = B.buf /\ k.end = <<CR>> /\ l.text = <<>> /\ l.end = <<CR, LF>>
    BY <2>2
  <2> QED BY <1>1, <2>2, <2>3, Joins, Ends, Zenon DEF EchoedLines, Join
<1>7. Join(Join(k.text, k.end), Join(l.text, l.end)) = Join(buf, tokens)
  <2>1. PICK c \in Seq(Tokens), f \in Seq(Tokens) : c = <<CR>> /\ f = <<LF>>
    BY Ends, Zenon
  <2>2. tokens = Join(c, Join(c, f))
    BY <1>3, <2>1, EchoFits, Zenon
  <2>3. Join(<<>>, Join(c, f)) = Join(c, f) /\ Join(c, f) \in Seq(Tokens)
    BY JoinLaws, Zenon
  <2>4. Join(Join(buf, c), Join(c, f)) = Join(buf, Join(c, Join(c, f)))
    BY JoinLaws, SMT
  <2> QED BY <1>6, <2>1, <2>2, <2>3, <2>4, Zenon
<1>8. Rest = buf /\ Rest' = <<>>
  <2>1. B'.pc # "gets"
    BY <1>4
  <2> QED BY <1>1, <1>6, <2>1, Zenon DEF Rest
<1>9. ASSUME Whole, Silent, owed' = owed \o EchoedLines(B.buf)
      PROVE  Whole'
  <2>1. Alone' /\ Going = <<>> /\ Going' = tokens
    BY <1>1, <1>4, <1>9, ComBeginsFits, Zenon DEF Whole
  <2>2. PICK o \in Seq(LineSet), more \in Seq(Tokens) : o = owed /\ more = Join(buf, tokens)
    BY <1>9, OwingFits, JoinLaws, Zenon DEF Texts
  <2>3. /\ o \o <<k, l>> \in Seq(LineSet) /\ o \o <<k, l>> # <<>>
        /\ Stream(o \o <<k, l>>) = Join(Stream(o), more)
        /\ o # <<>> => /\ Head(o \o <<k, l>>) = Head(o)
                       /\ Stream(Tail(o \o <<k, l>>)) = Join(Stream(Tail(o)), more)
    <3>1. Join(Join(k.text, k.end), Join(l.text, l.end)) = more
      BY <1>7, <2>2, Zenon
    <3> QED BY <2>2, <3>1, TwoLinesMore, Zenon
  <2>4. owed' = o \o <<k, l>> /\ Join(Rest, Going') = more /\ Going' \in Seq(Tokens)
    BY <1>6, <1>8, <1>9, <2>1, <2>2, Zenon DEF Texts
  <2> QED BY <1>2, <1>8, <1>9, <2>1, <2>2, <2>3, <2>4, SendsFits, Zenon
<1> QED BY <1>2, <1>5, <1>9, Zenon DEF B

\* A format that ends with a number, or with a character, prints something.
LEMMA PrintfSome ==
    \A format \in Seq(Pieces(Tokens)), f \in Pieces(Plain) :
        PieceText(f) # <<>> => UARTprintf(Append(format, f)) \in Texts
<1> SUFFICES ASSUME NEW format \in Seq(Pieces(Tokens)), NEW f \in Pieces(Plain), PieceText(f) # <<>>
             PROVE  UARTprintf(Append(format, f)) \in Texts
  BY Zenon
<1>1. PICK x \in Seq(Tokens) : x = UARTprintf(format)
  BY PrintfPieces, Zenon
<1>2. PICK y \in Seq(Plain) : y = PieceText(f) /\ y # <<>>
  BY PiecesFit, Zenon
<1>3. UARTprintf(Append(format, f)) = x \o y
  <2>1. f \in Pieces(Tokens)
    BY PiecesFit, Zenon
  <2>2. UARTprintf(Append(format, f)) = UARTprintf(format) \o UARTwrite(PieceText(f))
    BY <2>1, PrintfPieces, Zenon
  <2> QED BY <1>1, <1>2, <2>2, WritePlain, Zenon
<1>4. y \in Seq(Tokens)
  BY Joins, Zenon
<1>5. x \o y \in Seq(Tokens) /\ x \o y # <<>>
  BY <1>2, <1>4
<1> QED BY <1>3, <1>5, Zenon DEF Texts

\* The greeting is a text.
LEMMA GreetingFits == UARTprintf(Greeting) \in Texts
<1>1. PICK w \in Pieces(Tokens), e \in Pieces(Tokens), c \in Pieces(Plain) :
         w = Text(Word("Hi UART")) /\ e = Text(LF) /\ c = Text(Word(";")) /\ PieceText(c) # <<>>
  <2>1. Text(Word("Hi UART")) \in Pieces(Plain) /\ Text(Word(";")) \in Pieces(Plain)
    BY PiecesFit, Zenon DEF Words
  <2>2. PieceText(Text(Word(";"))) # <<>>
    BY DEF PieceText, Text
  <2>3. Text(Word("Hi UART")) \in Pieces(Tokens) /\ Text(LF) \in Pieces(Tokens)
    BY <2>1, PiecesFit, Zenon
  <2> QED BY <2>1, <2>2, <2>3, Zenon
<1>2. <<w, e>> \in Seq(Pieces(Tokens)) /\ <<w, e, c>> = Append(<<w, e>>, c)
  BY Formats, SMT
<1> QED BY <1>1, <1>2, PrintfSome, Zenon DEF Greeting

\* The board starts: the machine's port stays.
LEMMA BoardStartsFits ==
    ASSUME PortsFit, UARTStdioInit("board", <<>>, "idle")
    PROVE  PortsFit' /\ M' = M /\ (Whole => Whole')
<1>1. /\ B \in Ports /\ M \in Ports /\ owed' = owed /\ talk' = talk /\ B.pc = "off"
      /\ port' = [port EXCEPT !["board"] = Back(port["board"], "idle")]
  BY SidesFit, Zenon DEF UARTStdioInit, history, Back, B
<1>2. PICK q \in Ports : q = Back(B, "idle") /\ q.pc = "idle" /\ q.out = B.out
  <2>1. B.pc # "put"
    BY <1>1
  <2> QED BY <1>1, <2>1, PortGoes
<1>3. /\ port' \in [Sides -> Ports] /\ M' = M /\ B' = q
  <2>1. PICK s \in Sides : s = "board" /\ Peer(s) = "machine"
    BY Peers, Zenon
  <2>2. port \in [Sides -> Ports]
    BY Zenon DEF PortsFit
  <2>3. /\ [port EXCEPT ![s] = q] \in [Sides -> Ports] /\ [port EXCEPT ![s] = q][s] = q
        /\ [port EXCEPT ![s] = q][Peer(s)] = port[Peer(s)]
    BY <2>2, PortChanges, Zenon
  <2> QED BY <1>1, <1>2, <2>1, <2>3, Zenon DEF B, M
<1>4. PortsFit'
  <2>1. B'.pc # "put"
    BY <1>2, <1>3
  <2> QED BY <1>1, <1>3, <2>1, Zenon DEF PortsFit
<1>5. HasLine' <=> HasLine
  BY <1>3, SameLine, Zenon
<1>6. Rest = <<>> /\ Rest' = <<>>
  <2>1. B.pc # "gets" /\ B'.pc # "gets"
    BY <1>1, <1>2, <1>3
  <2> QED BY <2>1, Zenon DEF Rest
<1>7. Whole => Whole'
  BY <1>1, <1>2, <1>3, <1>5, <1>6, StandsFits, Zenon
<1> QED BY <1>3, <1>4, <1>7, Zenon

\* The machine starts, and greets: it has read nothing.
LEMMA MachineStartsFits ==
    ASSUME PortsFit, UARTStdioInit("machine", UARTprintf(Greeting), "gets")
    PROVE  PortsFit' /\ M'.pc # "off" /\ (Whole => Whole')
<1>1. PICK tokens \in Texts, then \in Nexts : tokens = UARTprintf(Greeting) /\ then = "gets"
  BY GreetingFits, Zenon DEF Nexts
<1>2. /\ B \in Ports /\ M \in Ports /\ owed' = owed /\ talk' = talk /\ M.pc = "off"
      /\ port' = [port EXCEPT !["machine"] = Printing(port["machine"], tokens, then)]
  <2>1. tokens # <<>>
    BY DEF Texts
  <2> QED BY <1>1, <2>1, SidesFit, Zenon DEF UARTStdioInit, history, M
<1>3. PICK q \in Ports : /\ port' \in [Sides -> Ports] /\ B' = B /\ M' = q
                         /\ q.pc = "put" /\ q.then = "gets"
                         /\ q.rx = M.rx /\ q.buf = M.buf /\ q.bLastWasCR = M.bLastWasCR
  <2>1. port \in [Sides -> Ports]
    BY Zenon DEF PortsFit
  <2>2. PICK s \in Sides, p \in Ports : s = "machine" /\ Peer(s) = "board" /\ p = M
    BY <1>2, Peers, Zenon
  <2>3. PICK q \in Ports :
         /\ q = Printing(p, tokens, then)
         /\ [port EXCEPT ![s] = q] \in [Sides -> Ports]
         /\ [port EXCEPT ![s] = q][s] = q /\ [port EXCEPT ![s] = q][Peer(s)] = port[Peer(s)]
         /\ q.out = tokens /\ q.pc = "put" /\ q.then = then
         /\ q.buf = p.buf /\ q.rx = p.rx /\ q.bLastWasCR = p.bLastWasCR
    BY <2>1, PrintChanges, SMTT(60)
  <2> QED BY <1>1, <1>2, <2>2, <2>3, Zenon DEF B, M
<1>4. M'.pc = "put" /\ M'.then = "gets" /\ M'.then # "idle" /\ M'.pc # "idle"
  BY <1>3
<1>5. PortsFit'
  BY <1>2, <1>3, <1>4, Zenon DEF PortsFit
<1>6. ~HasLine /\ ~HasLine'
  <2>1. ~HasLine
    BY <1>2 DEF HasLine
  <2>2. M'.pc # "line" /\ M'.then # "line"
    BY <1>4
  <2> QED BY <2>1, <2>2, Zenon DEF HasLine
<1>7. Rest' = Rest
  BY <1>3, Zenon DEF Rest
<1>8. M'.pc # "off"
  BY <1>4
<1>9. Whole => Whole'
  BY <1>2, <1>3, <1>6, <1>7, StandsFits, Zenon
<1> QED BY <1>5, <1>8, <1>9, Zenon

\* Where a text begins, and what follows.
LEMMA JoinHeads ==
    /\ \A a, b \in Seq(Tokens) :
          a # <<>> => /\ Join(a, b) # <<>> /\ Head(Join(a, b)) = Head(a)
                      /\ Tail(Join(a, b)) = Join(Tail(a), b)
    /\ \A a \in Seq(Tokens) : /\ Head(Join(<<LF>>, a)) = LF /\ Tail(Join(<<LF>>, a)) = a
<1>1. ASSUME NEW a \in Seq(Tokens), NEW b \in Seq(Tokens), a # <<>>
      PROVE  /\ Join(a, b) # <<>> /\ Head(Join(a, b)) = Head(a)
             /\ Tail(Join(a, b)) = Join(Tail(a), b)
  <2>1. PICK h \in Tokens, u \in Seq(Tokens), hs \in Seq(Tokens) :
           h = Head(a) /\ u = Tail(a) /\ hs = <<h>> /\ a = Join(hs, u)
    <3>1. Head(a) \in Tokens /\ Tail(a) \in Seq(Tokens)
      BY <1>1, TailFits, Zenon
    <3>2. a = Join(<<Head(a)>>, Tail(a))
      BY <1>1, TokenMoves, Zenon
    <3>3. \A v \in Tokens : <<v>> \in Seq(Tokens)
      OBVIOUS
    <3> QED BY <3>1, <3>2, <3>3, Zenon
  <2>2. PICK r \in Seq(Tokens) : r = Join(u, b)
    BY JoinLaws, Zenon
  <2>3. Join(Join(hs, u), b) = Join(hs, Join(u, b))
    BY JoinLaws, SMT
  <2>4. Join(a, b) = Join(hs, r)
    BY <2>1, <2>2, <2>3, Zenon
  <2>5. <<h>> \o r # <<>> /\ Head(<<h>> \o r) = h /\ Tail(<<h>> \o r) = r
    <3>1. ASSUME NEW S, NEW c \in S, NEW s \in Seq(S)
          PROVE  <<c>> \o s # <<>> /\ Head(<<c>> \o s) = c /\ Tail(<<c>> \o s) = s
      <4>1. <<c>> \in Seq(S) /\ Len(<<c>>) = 1 /\ <<c>>[1] = c
        OBVIOUS
      <4> QED BY <4>1
    <3> QED BY <3>1, Zenon
  <2>6. Join(hs, r) # <<>> /\ Head(Join(hs, r)) = h /\ Tail(Join(hs, r)) = r
    BY <2>1, <2>5, Zenon DEF Join
  <2> QED BY <2>1, <2>2, <2>4, <2>6, Zenon
<1>2. \A a \in Seq(Tokens) : /\ Head(Join(<<LF>>, a)) = LF /\ Tail(Join(<<LF>>, a)) = a
  BY Ends, Zenon DEF Join
<1> QED BY <1>1, <1>2, Zenon

\* FirstLine, for the machine that reads.
LEMMA ReadsLine ==
    ASSUME PortsFit, Whole, M.pc = "gets", M.rx # <<>>
    PROVE  /\ ~HasLine /\ Due = owed
           /\ M.rx \in Seq(Tokens) /\ Going \in Seq(Tokens) /\ Sent \in Seq(Tokens)
           /\ Head(Sent) = Head(M.rx) /\ Tail(Sent) = Join(Tail(M.rx), Going)
           /\ Tail(Sent) \in Seq(Tokens)
           /\ \E read \in Seq(Plain) :
                 /\ M.buf = Kept(read)
                 /\ \/ /\ Head(M.rx) = LF /\ M.bLastWasCR /\ read = <<>>
                       /\ Tail(Sent) = Owing
                    \/ /\ Head(M.rx) = CR /\ owed # <<>> /\ Head(owed).text = read
                       /\ \E rem \in Lates :
                             Tail(Sent) = Join(rem, Join(Stream(Tail(owed)), Rest))
                    \/ /\ Head(M.rx) \in Plain
                       /\ Join(Append(read, Head(M.rx)), Tail(Sent)) = Owing
<1>1. ~HasLine /\ Due = owed
  <2>1. ~HasLine
    BY DEF HasLine
  <2> QED BY <2>1, Zenon DEF Due
<1>2. M.rx \in Seq(Tokens) /\ Going \in Seq(Tokens)
  BY OwingFits, Zenon
<1>3. PICK x \in Seq(Tokens) : /\ x = Sent /\ x # <<>> /\ Head(x) = Head(M.rx)
                               /\ Tail(x) = Join(Tail(M.rx), Going)
  BY <1>2, OwingFits, JoinHeads, Zenon DEF Sent
<1>4. PICK u \in Seq(Tokens), t \in Tokens : u = Tail(x) /\ t = Head(x) /\ x = Join(<<t>>, u)
  <2>1. Tail(x) \in Seq(Tokens) /\ Head(x) \in Tokens
    BY <1>3, TailFits, Zenon
  <2> QED BY <1>3, <2>1, TokenMoves, Zenon
<1>5. PICK read \in Seq(Plain), rem \in Lates :
        /\ Join(read, x) = Join(rem, Owing)
        /\ rem = <<>> \/ read = <<>>
        /\ rem # <<>> => M.bLastWasCR
        /\ M.buf = Kept(read)
  BY <1>1, <1>3, Zenon DEF Whole, LinesFit
<1>6. CASE rem = <<LF>>
  <2>1. read = <<>> /\ M.bLastWasCR
    <3>1. <<LF>> # <<>>
      OBVIOUS
    <3> QED BY <1>5, <1>6, <3>1, Zenon
  <2>2. x = Join(<<LF>>, Owing)
    <3>1. Join(<<>>, x) = x
      BY JoinLaws, Zenon
    <3> QED BY <1>5, <1>6, <2>1, <3>1, Zenon
  <2>3. Head(x) = LF /\ Tail(x) = Owing
    BY <2>2, OwingFits, JoinHeads, Zenon
  <2> QED BY <1>1, <1>2, <1>3, <1>4, <1>5, <2>1, <2>3, Zenon
<1>7. CASE rem = <<>>
  <2>1. PICK o \in Seq(LineSet), r \in Seq(Plain) : o = owed /\ r = Rest
    BY OwingFits, Zenon
  <2>2. Join(read, x) = Join(Stream(o), r)
    <3>1. Join(<<>>, Owing) = Owing
      BY OwingFits, JoinLaws, Zenon
    <3> QED BY <1>1, <1>5, <1>7, <2>1, <3>1, Zenon DEF Owing
  <2>3. CASE t \in Plain
    <3>1. PICK s \in Seq(Tokens), one \in Seq(Tokens) : s = read /\ one = <<t>>
      <4>1. \A v \in Tokens : <<v>> \in Seq(Tokens)
        OBVIOUS
      <4> QED BY <4>1, Joins, Zenon
    <3>2. Append(s, t) = Join(s, one)
      BY <3>1, TokenMoves, Zenon
    <3>3. Join(Join(s, one), u) = Join(s, Join(one, u))
      BY JoinLaws, SMT
    <3>4. Join(Append(read, t), u) = Join(read, x)
      BY <1>4, <3>1, <3>2, <3>3, Zenon
    <3>5. Join(read, x) = Owing
      BY <2>1, <2>2, <1>1, Zenon DEF Owing
    <3> QED BY <1>1, <1>2, <1>3, <1>4, <1>5, <2>3, <3>4, <3>5, Zenon
  <2>4. CASE t \notin Plain
    <3>1. /\ t = CR /\ o # <<>> /\ Head(o).text = read
          /\ \E m \in Lates : Tail(x) = Join(m, Join(Stream(Tail(o)), r))
      <4>1. x # <<>> /\ Head(x) \notin Plain
        BY <1>3, <1>4, <2>4, Zenon
      <4>2. Head(x) = CR
        <5>1. \A lines \in Seq(LineSet), a \in Seq(Plain), b \in Seq(Plain), y \in Seq(Tokens) :
                 (y # <<>> /\ Head(y) \notin Plain /\ Join(b, y) = Join(Stream(lines), a))
                 => Head(y) = CR
          BY FirstLine
        <5> QED BY <2>2, <4>1, <5>1, Zenon
      <4>3. o # <<>> /\ Head(o).text = read
        <5>1. \A lines \in Seq(LineSet), a \in Seq(Plain), b \in Seq(Plain), y \in Seq(Tokens) :
                 (y # <<>> /\ Head(y) \notin Plain /\ Join(b, y) = Join(Stream(lines), a))
                 => lines # <<>> /\ Head(lines).text = b
          BY FirstLine
        <5> QED BY <2>2, <4>1, <5>1, Zenon
      <4>4. \E m \in Lates : Tail(x) = Join(m, Join(Stream(Tail(o)), r))
        <5>1. \A lines \in Seq(LineSet), a \in Seq(Plain), b \in Seq(Plain), y \in Seq(Tokens) :
                 (y # <<>> /\ Head(y) \notin Plain /\ Join(b, y) = Join(Stream(lines), a))
                 => \E m \in Lates : Tail(y) = Join(m, Join(Stream(Tail(lines)), a))
          BY FirstLine
        <5> QED BY <2>2, <4>1, <5>1, Zenon
      <4> QED BY <1>4, <4>1, <4>2, <4>3, <4>4, Zenon
    <3> QED BY <1>1, <1>2, <1>3, <1>4, <1>5, <2>1, <3>1, Zenon
  <2> QED BY <2>3, <2>4, Zenon
<1> QED BY <1>6, <1>7, Zenon DEF Lates

\* The machine drops the LF behind a CR: that was the late one.
LEMMA MachineGobbleFits ==
    ASSUME PortsFit, Gobble("machine")
    PROVE  PortsFit' /\ (Whole /\ owed' = owed => Whole')
<1>1. B \in Ports /\ M \in Ports /\ talk' = talk
  BY SidesFit, Zenon DEF Gobble
<1>2. /\ port' \in [Sides -> Ports] /\ M' = Handled(M, FALSE) /\ B' = B
      /\ M.pc = "gets" /\ M.rx # <<>> /\ Head(M.rx) = LF
  BY GobbleStep, Peers, Zenon DEF PortsFit, B, M
<1>3. M'.rx = Tail(M.rx) /\ M'.buf = M.buf /\ M'.pc = "gets"
  BY <1>1, <1>2, PortHandles, Zenon
<1>4. PortsFit'
  <2>1. M'.pc # "idle" /\ M'.pc # "put"
    BY <1>3
  <2> QED BY <1>1, <1>2, <2>1, Zenon DEF PortsFit
<1>5. ASSUME Whole, owed' = owed
      PROVE  Whole'
  <2>1. ~HasLine /\ ~HasLine' /\ Due = owed /\ Due' = owed
    <3>1. M'.pc # "line" /\ M'.pc # "put"
      BY <1>3
    <3>2. ~HasLine'
      BY <3>1, Zenon DEF HasLine
    <3> QED BY <1>2, <1>5, <3>2, ReadsLine, Zenon DEF Due
  <2>2. OwedFits'
    BY <1>5, <2>1, Zenon DEF Whole, OwedFits
  <2>3. M.buf = Kept(<<>>) /\ Tail(Sent) = Owing
    <3>1. Head(M.rx) # CR /\ Head(M.rx) \notin Plain
      BY <1>2, TokenKinds, Zenon
    <3> QED BY <1>2, <1>5, <3>1, ReadsLine, Zenon
  <2>4. Rest' = Rest
    BY <1>2, Zenon DEF Rest
  <2>5. Going' = Going /\ Alone'
    BY <1>1, <1>2, <1>5, <2>4, TextsStand, Zenon DEF Whole
  <2>6. Sent' = Owing /\ Owing' = Owing
    <3>1. Tail(Sent) = Join(Tail(M.rx), Going)
      BY <1>2, <1>5, ReadsLine, Zenon
    <3> QED BY <1>3, <2>1, <2>3, <2>4, <2>5, <3>1, Zenon DEF Sent, Owing
  <2>7. LinesFit'
    <3>1. Join(<<>>, Sent') = Join(<<>>, Owing')
      BY <2>6, Zenon
    <3>2. <<>> \in Seq(Plain) /\ <<>> \in Lates /\ M'.buf = Kept(<<>>)
      BY <1>3, <2>3, Joins, Zenon DEF Lates
    <3> QED BY <2>1, <3>1, <3>2, Zenon DEF LinesFit
  <2> QED BY <2>2, <2>5, <2>7, Zenon DEF Whole
<1> QED BY <1>4, <1>5, Zenon

\* The machine reads an end of line: it has the first of the lines owed.
LEMMA MachineEndLineFits ==
    ASSUME PortsFit, EndLine("machine")
    PROVE  PortsFit' /\ (Whole /\ owed' = owed => Whole')
<1>1. B \in Ports /\ M \in Ports /\ talk' = talk
  BY SidesFit, Zenon DEF EndLine
<1>2. PICK last \in BOOLEAN :
        /\ port' \in [Sides -> Ports] /\ B' = B
        /\ M.pc = "gets" /\ M.rx # <<>>
        /\ Head(M.rx) = CR \/ (Head(M.rx) = LF /\ ~M.bLastWasCR)
        /\ Head(M.rx) = CR => last
        /\ Handled(M, last) \in Ports
        /\ M' = Printing(Handled(M, last), UARTwrite(<<CR, LF>>), "line")
  BY EndLineStep, Peers, Zenon DEF PortsFit, B, M
<1>3. /\ M'.rx = Tail(M.rx) /\ M'.buf = M.buf /\ M'.pc = "put" /\ M'.then = "line"
      /\ M'.bLastWasCR = last
  <2>1. PICK h \in Ports, tokens \in Texts : h = Handled(M, last) /\ tokens = UARTwrite(<<CR, LF>>)
    BY <1>2, EchoFits, Zenon DEF Texts
  <2>2. h.rx = Tail(M.rx) /\ h.buf = M.buf /\ h.bLastWasCR = last
    BY <1>1, <1>2, <2>1, PortHandles, Zenon
  <2>3. LET q == Printing(h, tokens, "line")
        IN /\ q.out = tokens /\ q.pc = "put" /\ q.then = "line"
           /\ q.buf = h.buf /\ q.rx = h.rx /\ q.bLastWasCR = h.bLastWasCR
    BY PortPrints DEF Texts
  <2> QED BY <1>2, <2>1, <2>2, <2>3, Zenon
<1>4. PortsFit'
  <2>1. M'.pc # "idle" /\ M'.then # "idle"
    BY <1>3
  <2> QED BY <1>1, <1>2, <2>1, Zenon DEF PortsFit
<1>5. HasLine'
  BY <1>3, Zenon DEF HasLine
<1>6. ASSUME Whole, owed' = owed
      PROVE  Whole'
  <2>1. PICK read \in Seq(Plain), rem \in Lates :
           /\ Head(M.rx) = CR /\ owed # <<>> /\ Head(owed).text = read /\ M.buf = Kept(read)
           /\ Tail(Sent) = Join(rem, Join(Stream(Tail(owed)), Rest))
    <3>1. Head(M.rx) \notin Plain /\ ~(Head(M.rx) = LF /\ M.bLastWasCR)
      BY <1>2, TokenKinds, Zenon
    <3>2. M.pc = "gets" /\ M.rx # <<>>
      BY <1>2, Zenon
    <3>3. \E read \in Seq(Plain) :
             /\ M.buf = Kept(read)
             /\ \/ /\ Head(M.rx) = LF /\ M.bLastWasCR /\ read = <<>>
                   /\ Tail(Sent) = Owing
                \/ /\ Head(M.rx) = CR /\ owed # <<>> /\ Head(owed).text = read
                   /\ \E rem \in Lates :
                         Tail(Sent) = Join(rem, Join(Stream(Tail(owed)), Rest))
                \/ /\ Head(M.rx) \in Plain
                   /\ Join(Append(read, Head(M.rx)), Tail(Sent)) = Owing
      BY <1>6, <3>2, ReadsLine, Zenon
    <3> QED BY <3>1, <3>3, Zenon
  <2>2. OwedFits'
    BY <1>3, <1>6, <2>1, Zenon DEF Whole, OwedFits
  <2>3. Rest' = Rest /\ Due' = Tail(owed)
    BY <1>2, <1>5, <1>6, Zenon DEF Rest, Due
  <2>4. Going' = Going /\ Alone'
    BY <1>1, <1>2, <1>6, <2>3, TextsStand, Zenon DEF Whole
  <2>5. Join(<<>>, Sent') = Join(rem, Owing')
    <3>1. Tail(Sent) = Join(Tail(M.rx), Going) /\ Tail(Sent) \in Seq(Tokens)
      BY <1>2, <1>6, ReadsLine, Zenon
    <3>2. Sent' = Tail(Sent)
      BY <1>3, <2>4, <3>1, Zenon DEF Sent
    <3>3. Owing' = Join(Stream(Tail(owed)), Rest)
      BY <2>3, Zenon DEF Owing
    <3>4. Join(<<>>, Tail(Sent)) = Tail(Sent)
      BY <3>1, JoinLaws, Zenon
    <3> QED BY <2>1, <3>2, <3>3, <3>4, Zenon
  <2>6. M'.bLastWasCR
    BY <1>2, <1>3, <2>1, Zenon
  <2>7. LinesFit'
    BY <1>5, <2>5, <2>6, Joins, Zenon DEF LinesFit
  <2> QED BY <2>2, <2>4, <2>7, Zenon DEF Whole
<1> QED BY <1>4, <1>6, Zenon

\* The machine reads a token, whether it has room for it or not: it has read one
\* more of its line.
LEMMA MachineTakesFits ==
    ASSUME PortsFit, talk' = talk, owed' = owed, NEW u \in Plain,
           M.pc = "gets", M.rx # <<>>, Head(M.rx) = u,
           M'.rx = Tail(M.rx), M'.pc = "gets",
           M'.buf = IF Len(M.buf) < LINE THEN Append(M.buf, u) ELSE M.buf,
           B'.out = B.out, Rest' = Rest, Whole
    PROVE  Whole'
<1>1. ~HasLine' /\ Due = owed /\ Due' = owed
  <2>1. M'.pc # "line" /\ M'.pc # "put"
    OBVIOUS
  <2>2. ~HasLine'
    BY <2>1, Zenon DEF HasLine
  <2> QED BY <2>2, ReadsLine, Zenon DEF Due
<1>2. OwedFits'
  BY <1>1, Zenon DEF Whole, OwedFits
<1>3. Going' = Going /\ Alone'
  BY TextsStand, Zenon DEF Whole
<1>4. PICK read \in Seq(Plain) : /\ M.buf = Kept(read)
                                 /\ Join(Append(read, u), Tail(Sent)) = Owing
  <2>1. Head(M.rx) # CR /\ Head(M.rx) # LF
    BY TokenKinds, Zenon
  <2> QED BY <2>1, ReadsLine, Zenon
<1>5. Sent' = Tail(Sent) /\ Owing' = Owing
  <2>1. Tail(Sent) = Join(Tail(M.rx), Going)
    BY ReadsLine, Zenon
  <2> QED BY <1>1, <1>3, <2>1, Zenon DEF Sent, Owing
<1>6. PICK more \in Seq(Plain) : more = Append(read, u) /\ M'.buf = Kept(more)
  <2>1. PICK m \in Seq(Plain) : m = Append(read, u)
    BY KeptFits, Zenon
  <2>2. /\ Len(M.buf) < LINE => M'.buf = Append(M.buf, u)
        /\ ~(Len(M.buf) < LINE) => M'.buf = M.buf
    OBVIOUS
  <2>3. /\ Len(Kept(read)) < LINE => Kept(Append(read, u)) = Append(Kept(read), u)
        /\ ~(Len(Kept(read)) < LINE) => Kept(Append(read, u)) = Kept(read)
    BY KeptFits, Zenon
  <2>4. M'.buf = Kept(m)
    BY <1>4, <2>1, <2>2, <2>3, Zenon
  <2> QED BY <2>1, <2>4, Zenon
<1>7. Join(more, Sent') = Join(<<>>, Owing') /\ <<>> \in Lates
  <2>1. Join(<<>>, Owing) = Owing
    BY OwingFits, JoinLaws, Zenon
  <2> QED BY <1>4, <1>5, <1>6, <2>1, Zenon DEF Lates
<1>8. LinesFit'
  BY <1>1, <1>6, <1>7, Zenon DEF LinesFit
<1> QED BY <1>2, <1>3, <1>8, Zenon DEF Whole

\* The machine keeps a token.
LEMMA MachineKeepFits ==
    ASSUME PortsFit, Keep("machine")
    PROVE  PortsFit' /\ (Whole /\ owed' = owed => Whole')
<1> DEFINE t == Head(M.rx)
<1>1. B \in Ports /\ M \in Ports /\ talk' = talk
  BY SidesFit, Zenon DEF Keep
<1>2. /\ port' \in [Sides -> Ports] /\ M.pc = "gets" /\ M.rx # <<>> /\ t \in Plain
      /\ Dropped(M) \in Ports /\ Len(M.buf) < LINE
      /\ M' = Stored(Dropped(M), t)
      /\ Overruns("machine") => B' = B
      /\ ~Overruns("machine") => ~(Len(B.rx) >= RX_FIFO) /\ B' = Received(B, t)
  BY KeepStep, Peers, Zenon DEF PortsFit, B, M
<1>3. PICK u \in Plain, d \in Ports : u = t /\ d = Dropped(M)
  BY <1>2, Zenon
<1>4. d.rx = Tail(M.rx) /\ d.buf = M.buf /\ d.pc = "gets"
  <2>1. Head(M.rx) \notin {CR, LF}
    BY <1>2, TokenKinds, Zenon
  <2> QED BY <1>1, <1>2, <1>3, <2>1, PortKeeps, Zenon
<1>5. M'.rx = Tail(M.rx) /\ M'.pc = "gets" /\ M'.buf = Append(M.buf, u)
  <2>1. Len(d.buf) < LINE
    BY <1>2, <1>4, Zenon
  <2>2. Stored(d, u).buf = Append(d.buf, u) /\ Stored(d, u).pc = d.pc /\ Stored(d, u).rx = d.rx
    BY <2>1, PortStores, Zenon DEF Stored
  <2> QED BY <1>2, <1>3, <1>4, <2>2, Zenon
<1>6. B'.out = B.out /\ B'.buf = B.buf /\ B'.pc = B.pc /\ B'.then = B.then
  <2>1. PICK v \in Tokens : v = u
    BY TokenKinds, Zenon
  <2>2. ~(Len(B.rx) >= RX_FIFO) =>
           /\ Received(B, v).out = B.out /\ Received(B, v).buf = B.buf
           /\ Received(B, v).pc = B.pc /\ Received(B, v).then = B.then
    BY <1>1, PortReceives, Zenon
  <2> QED BY <1>2, <1>3, <2>1, <2>2, Zenon
<1>7. PortsFit'
  <2>1. M'.pc # "idle" /\ M'.pc # "put"
    BY <1>5
  <2> QED BY <1>1, <1>2, <1>6, <2>1, Zenon DEF PortsFit
<1>8. Rest' = Rest
  BY <1>6, Zenon DEF Rest
<1>9. Whole /\ owed' = owed => Whole'
  BY <1>1, <1>2, <1>3, <1>5, <1>6, <1>8, MachineTakesFits, Zenon
<1> QED BY <1>7, <1>9, Zenon

\* The machine has no room for a token.
LEMMA MachineIgnoreFits ==
    ASSUME PortsFit, Ignore("machine")
    PROVE  PortsFit' /\ (Whole /\ owed' = owed => Whole')
<1>1. B \in Ports /\ M \in Ports /\ talk' = talk
  BY SidesFit, Zenon DEF Ignore
<1>2. /\ port' \in [Sides -> Ports] /\ M' = Dropped(M) /\ B' = B
      /\ M.pc = "gets" /\ M.rx # <<>> /\ Head(M.rx) \in Plain /\ ~(Len(M.buf) < LINE)
  BY IgnoreStep, Peers, Zenon DEF PortsFit, B, M
<1>3. M'.rx = Tail(M.rx) /\ M'.buf = M.buf /\ M'.pc = "gets"
  <2>1. Head(M.rx) \notin {CR, LF}
    BY <1>2, TokenKinds, Zenon
  <2> QED BY <1>1, <1>2, <2>1, PortKeeps, Zenon
<1>4. PortsFit'
  <2>1. M'.pc # "idle" /\ M'.pc # "put"
    BY <1>3
  <2> QED BY <1>1, <1>2, <2>1, Zenon DEF PortsFit
<1>5. Rest' = Rest
  BY <1>2, Zenon DEF Rest
<1>6. PICK u \in Plain : u = Head(M.rx)
  BY <1>2, Zenon
<1>7. Whole /\ owed' = owed => Whole'
  BY <1>1, <1>2, <1>3, <1>5, <1>6, MachineTakesFits, Zenon
<1> QED BY <1>4, <1>7, Zenon

\* The lines behind the first.
LEMMA TailFollows ==
    \A o \in Seq(LineSet) : o # <<>> => SubSeq(o, 2, Len(o)) = Tail(o) /\ Tail(o) \in Seq(LineSet)
<1> TAKE o \in Seq(LineSet)
<1> HAVE o # <<>>
<1>1. Tail(o) \in Seq(LineSet)
  BY HeadTailProperties, Zenon
<1>2. SubSeq(o, 2, Len(o)) = Tail(o)
  OBVIOUS
<1> QED BY <1>1, <1>2, Zenon

\* The machine has handled its line, and answers with tokens, or does not.
LEMMA AnswersFits ==
    ASSUME PortsFit, MachineReads, NEW format, Answers(format),
           UARTprintf(format) \in Texts \/ format = <<>>
    PROVE  PortsFit' /\ (Whole => Whole')
<1>1. /\ B \in Ports /\ M \in Ports /\ M.pc = "line" /\ owed' = SubSeq(owed, 2, Len(owed))
      /\ talk' = talk
  BY SidesFit, Zenon DEF MachineReads, M
<1>2. PICK e \in Ports : /\ e = Emptied(M) /\ e.buf = <<>> /\ e.rx = M.rx /\ e.pc = "line"
                         /\ e.bLastWasCR = M.bLastWasCR
  BY <1>1, PortEmpties, ZenonT(60)
<1>3. PICK s \in Sides : s = "machine" /\ Peer(s) = "board"
  BY Peers, Zenon
<1>4. port \in [Sides -> Ports]
  BY Zenon DEF PortsFit
<1>5. PICK q \in Ports : /\ port' = [port EXCEPT ![s] = q]
                         /\ q.rx = M.rx /\ q.buf = <<>> /\ q.bLastWasCR = M.bLastWasCR
                         /\ q.pc = "gets" \/ (q.pc = "put" /\ q.then = "gets")
  <2>1. CASE format = <<>>
    <3>1. PICK q \in Ports : q = Back(e, "gets") /\ q.pc = "gets" /\ q.buf = e.buf /\ q.rx = e.rx
                             /\ q.bLastWasCR = e.bLastWasCR
      <4>1. e.pc # "put"
        BY <1>2
      <4> QED BY <4>1, PortGoes
    <3>2. port' = [port EXCEPT !["machine"] = [@ EXCEPT !.pc = "gets", !.buf = <<>>]]
      BY <2>1, Zenon DEF Answers
    <3>3. Back(Emptied(M), "gets") = [M EXCEPT !.pc = "gets", !.buf = <<>>]
      BY <1>1 DEF Back, Emptied, Ports, PortSet
    <3> QED BY <1>2, <1>3, <3>1, <3>2, <3>3, Zenon DEF M
  <2>2. CASE format # <<>>
    <3>1. PICK tokens \in Texts : tokens = UARTprintf(format)
      BY <2>2, Zenon
    <3>2. port' = [port EXCEPT !["machine"] = Printing(Emptied(M), UARTprintf(format), "gets")]
      BY <2>2, Zenon DEF Answers, Emptied, M
    <3>3. PICK th \in Nexts : th = "gets"
      BY Zenon DEF Nexts
    <3>4. PICK q \in Ports : /\ q = Printing(e, tokens, th)
                             /\ q.pc = "put" /\ q.then = th
                             /\ q.buf = e.buf /\ q.rx = e.rx /\ q.bLastWasCR = e.bLastWasCR
      <4>1. LET q == Printing(e, tokens, th)
            IN /\ q \in Ports /\ q.out = tokens /\ q.pc = "put" /\ q.then = th
               /\ q.buf = e.buf /\ q.rx = e.rx /\ q.bLastWasCR = e.bLastWasCR
        BY PortPrints DEF Texts, Nexts
      <4> QED BY <4>1, Zenon
    <3> QED BY <1>2, <1>3, <3>1, <3>2, <3>3, <3>4, Zenon
  <2> QED BY <2>1, <2>2, Zenon
<1>6. port' \in [Sides -> Ports] /\ B' = B /\ M' = q
  <2>1. /\ [port EXCEPT ![s] = q] \in [Sides -> Ports] /\ [port EXCEPT ![s] = q][s] = q
        /\ [port EXCEPT ![s] = q][Peer(s)] = port[Peer(s)]
    BY <1>4, PortChanges, Zenon
  <2> QED BY <1>3, <1>5, <2>1, Zenon DEF B, M
<1>7. M'.pc # "idle" /\ M'.pc # "line" /\ (M'.pc = "put" => M'.then = "gets")
  <2>1. q.pc # "idle" /\ q.pc # "line" /\ (q.pc = "put" => q.then = "gets")
    BY <1>5
  <2> QED BY <1>6, <2>1, Zenon
<1>8. "gets" # "idle" /\ "gets" # "line"
  OBVIOUS
<1>9. PortsFit'
  BY <1>1, <1>6, <1>7, <1>8, Zenon DEF PortsFit
<1>10. HasLine /\ ~HasLine'
  BY <1>1, <1>7, <1>8, Zenon DEF HasLine
<1>11. ASSUME Whole
       PROVE  Whole'
  <2>1. PICK o \in Seq(LineSet) : o = owed /\ o # <<>>
    BY <1>10, <1>11, Zenon DEF Whole, OwedFits
  <2>2. SubSeq(o, 2, Len(o)) = Tail(o) /\ Tail(o) \in Seq(LineSet)
    BY <2>1, TailFollows, Zenon
  <2>3. owed' = Tail(owed)
    BY <1>1, <2>1, <2>2, Zenon
  <2>4. Due' = Due /\ OwedFits'
    BY <1>10, <2>1, <2>2, <2>3, Zenon DEF OwedFits, Due
  <2>5. Rest' = Rest
    BY <1>6, Zenon DEF Rest
  <2>6. Going' = Going /\ Alone'
    BY <1>1, <1>6, <1>11, <2>5, TextsStand, Zenon DEF Whole
  <2>7. Sent' = Sent /\ Owing' = Owing
    BY <1>5, <1>6, <2>4, <2>5, <2>6, Zenon DEF Sent, Owing
  <2>8. PICK read \in Seq(Plain), rem \in Lates :
          /\ Join(read, Sent) = Join(rem, Owing)
          /\ rem # <<>> => M.bLastWasCR
          /\ read = <<>>
    BY <1>10, <1>11, Zenon DEF Whole, LinesFit
  <2>9. M'.bLastWasCR = M.bLastWasCR /\ M'.buf = Kept(read)
    BY <1>5, <1>6, <2>8, KeptFits, Zenon
  <2>10. LinesFit'
    BY <1>10, <2>7, <2>8, <2>9, Zenon DEF LinesFit
  <2> QED BY <2>4, <2>6, <2>10, Zenon DEF Whole
<1> QED BY <1>9, <1>11, Zenon

\* The machine's answers.
LEMMA AnswerTexts ==
    /\ \A v \in Int32 : UARTprintf(<<Decimal(v, 0, Space)>>) \in Texts
    /\ \A s \in Seq(Plain), v \in Int32 :
          UARTprintf(<<String(s), Text(Word("=")), Decimal(v, 0, Space), Text(LF)>>) \in Texts
<1>1. ASSUME NEW v \in Int32
      PROVE  UARTprintf(<<Decimal(v, 0, Space)>>) \in Texts
  <2>1. PICK f \in Pieces(Plain) : f = Decimal(v, 0, Space)
    BY PiecesFit, Zenon
  <2>2. PieceText(f) # <<>>
    <3>1. f.as # "text" /\ f.of = v /\ f.width = 0 /\ f.fill = Space
      BY <2>1 DEF Decimal
    <3>2. UARTDecimal(v, 0, Space) # <<>>
      BY DecimalsFit, Zenon
    <3> QED BY <3>1, <3>2, Zenon DEF PieceText
  <2>3. <<>> \in Seq(Pieces(Tokens)) /\ <<f>> = Append(<<>>, f)
    OBVIOUS
  <2> QED BY <2>1, <2>2, <2>3, PrintfSome, Zenon
<1>2. ASSUME NEW s \in Seq(Plain), NEW v \in Int32
      PROVE  UARTprintf(<<String(s), Text(Word("=")), Decimal(v, 0, Space), Text(LF)>>) \in Texts
  <2>1. PICK x \in Pieces(Plain), y \in Pieces(Plain), z \in Pieces(Plain) :
           x = String(s) /\ y = Text(Word("=")) /\ z = Decimal(v, 0, Space)
    BY PiecesFit, Zenon DEF Words
  <2>2. <<x, y, z>> \in Seq(Pieces(Plain)) /\ <<x, y, z, Text(LF)>> = Append(<<x, y, z>>, Text(LF))
    BY Formats, SMT
  <2>3. UARTprintf(Append(<<x, y, z>>, Text(LF))) \in Seq(Tokens) \ {<<>>}
    BY <2>2, PrintfLine, Zenon
  <2> QED BY <2>1, <2>2, <2>3, Zenon DEF Texts
<1> QED BY <1>1, <1>2, Zenon

\* A command's name and its number.
LEMMA CommandParts ==
    \A line \in Seq(Plain) : line # <<>> =>
        Tail(line) \in Seq(Plain) /\ Id(line) \in Seq(Plain) /\ ValueText(line) \in Seq(Plain)
<1> TAKE line \in Seq(Plain)
<1> HAVE line # <<>>
<1>1. PICK rest \in Seq(Plain) : rest = Tail(line)
  BY HeadTailProperties, Zenon
<1>2. ASSUME Contains(rest, Word("="))
      PROVE  Position(rest, Word("=")) \in 1 .. Len(rest)
  BY <1>2 DEF Contains, Position
<1>3. \A k \in 1 .. Len(rest) : /\ SubSeq(rest, 1, k - 1) \in Seq(Plain)
                                /\ SubSeq(rest, k + 1, Len(rest)) \in Seq(Plain)
  OBVIOUS
<1> QED BY <1>1, <1>2, <1>3, Zenon DEF Id, ValueText

\* The values of the machine are numbers of 32 bits.
StoreFits == store \in [Items -> Int32]

\* The machine answers a read.
LEMMA HandleGetFits ==
    ASSUME PortsFit, StoreFits, HandleGet
    PROVE  PortsFit' /\ (Whole => Whole')
<1>1. MachineReads
  BY Zenon DEF HandleGet
<1>2. CASE \E i \in Items : Tail(M.buf) = <<Word(i)>>
  <2>1. PICK i \in Items : Tail(M.buf) = <<Word(i)>>
    BY <1>2, Zenon
  <2>2. Tail(M.buf)[1].of = i
    <3>1. <<Word(i)>>[1] = Word(i) /\ Word(i).of = i
      BY DEF Word
    <3> QED BY <2>1, <3>1, Zenon
  <2>3. Answers(<<Decimal(store[Tail(M.buf)[1].of], 0, Space)>>)
    BY <1>2, Zenon DEF HandleGet, M
  <2>4. PICK v \in Int32 : v = store[i]
    BY Zenon DEF StoreFits
  <2>5. PICK format : format = <<Decimal(v, 0, Space)>> /\ Answers(format)
    BY <2>2, <2>3, <2>4, Zenon
  <2>6. UARTprintf(format) \in Texts
    BY <2>5, AnswerTexts, Zenon
  <2> QED BY <1>1, <2>5, <2>6, AnswersFits, Zenon
<1>3. CASE ~ \E i \in Items : Tail(M.buf) = <<Word(i)>>
  <2>1. Answers(<<>>)
    BY <1>3, Zenon DEF HandleGet, M
  <2> QED BY <1>1, <2>1, AnswersFits, Zenon
<1> QED BY <1>2, <1>3, Zenon

\* The machine answers a line that is no command.
LEMMA HandleOtherFits ==
    ASSUME PortsFit, HandleOther
    PROVE  PortsFit' /\ (Whole => Whole')
<1>1. MachineReads /\ Answers(<<>>)
  BY Zenon DEF HandleOther
<1> QED BY <1>1, AnswersFits, Zenon

\* The machine takes a value: what it read is a number of 32 bits.
LEMMA HandleSetFits ==
    ASSUME PortsFit, StoreFits, HandleSet
    PROVE  PortsFit' /\ StoreFits' /\ (Whole => Whole')
<1>1. MachineReads /\ M.buf # <<>>
  BY Zenon DEF HandleSet, IsCommand, M
<1>2. M.buf \in Seq(Plain)
  BY SidesFit, Zenon
<1>3. PICK id \in Seq(Plain), value \in Int32 :
         /\ id = Id(M.buf) /\ value = Atoi(ValueText(M.buf))
         /\ store' = [i \in Items |-> IF id = <<Word(i)>> THEN value ELSE store[i]]
         /\ Answers(<<String(id), Text(Word("=")), Decimal(value, 0, Space), Text(LF)>>)
  <2>1. Id(M.buf) \in Seq(Plain) /\ ValueText(M.buf) \in Seq(Plain)
    BY <1>1, <1>2, CommandParts, Zenon
  <2>2. Atoi(ValueText(M.buf)) \in Int32
    BY <2>1, AtoiFits, Zenon
  <2> QED BY <2>1, <2>2, Zenon DEF HandleSet, M
<1>4. StoreFits'
  BY <1>3 DEF StoreFits
<1>5. PICK format : /\ format = <<String(id), Text(Word("=")), Decimal(value, 0, Space), Text(LF)>>
                    /\ Answers(format)
  BY <1>3, Zenon
<1>6. UARTprintf(format) \in Texts
  BY <1>5, AnswerTexts, Zenon
<1> QED BY <1>1, <1>4, <1>5, <1>6, AnswersFits, Zenon

\* Com is none of the others.
LEMMA ComIsAlone == Com \notin Talkers /\ (~Meets(Com) => Silent)
<1>1. Com \notin Talkers
  BY SerialAssumption DEF Com, Talkers, Handler
<1>2. Talkers \ {Com} = Talkers
  BY <1>1
<1> QED BY <1>1, <1>2, Zenon DEF Meets, Silent

\* A text of one of the others is all that is under way.
LEMMA OneTalks ==
    ASSUME talk \in [Talkers -> Seq(Tokens)], NEW o \in Talkers, NEW tokens \in Seq(Tokens),
           talk' = [talk EXCEPT ![o] = tokens], \A p \in Talkers : p # o => talk[p] = <<>>,
           B'.out = <<>>, Rest' = <<>>
    PROVE  talk' \in [Talkers -> Seq(Tokens)] /\ Alone' /\ Going' = tokens
<1>1. talk' \in [Talkers -> Seq(Tokens)] /\ talk'[o] = tokens
      /\ \A p \in Talkers : p # o => talk'[p] = <<>>
  OBVIOUS
<1>2. Alone'
  <2>1. ~InLine'
    BY Zenon DEF InLine, Rest, B
  <2>2. \A p, q \in Talkers : talk'[p] # <<>> /\ talk'[q] # <<>> => p = q
    BY <1>1, Zenon
  <2> QED BY <2>1, <2>2, Zenon DEF Alone
<1>3. CASE tokens = <<>>
  <2>1. Silent'
    BY <1>1, <1>3, Zenon DEF Silent
  <2> QED BY <1>1, <1>2, <1>3, <2>1, Zenon DEF Going
<1>4. CASE tokens # <<>>
  <2>1. ~Silent'
    BY <1>1, <1>4, Zenon DEF Silent
  <2>2. (CHOOSE p \in Talkers : talk'[p] # <<>>) = o
    BY <1>1, <1>4
  <2>3. Going' = talk'[o]
    BY <2>1, <2>2, Zenon DEF Going
  <2> QED BY <1>1, <1>2, <2>3, Zenon
<1> QED BY <1>3, <1>4, Zenon

\* One of the others starts to print.
LEMMA TalksFit ==
    ASSUME PortsFit, NEW o \in Talkers, NEW tokens \in Texts, NEW whole, NEW lines,
           Talks(o, tokens, whole, lines)
    PROVE  /\ PortsFit' /\ M' = M /\ Owes(Said(o, whole), lines, {})
           /\ Whole /\ ~Meets(o) => /\ Alone' /\ Going = <<>> /\ Going' = tokens
                                    /\ Rest = <<>> /\ Rest' = <<>>
<1>1. /\ port' = port /\ talk[o] = <<>> /\ talk' = [talk EXCEPT ![o] = tokens]
      /\ Owes(Said(o, whole), lines, {})
  BY Zenon DEF Talks
<1>2. tokens \in Seq(Tokens) /\ talk \in [Talkers -> Seq(Tokens)]
  BY Zenon DEF Texts, PortsFit
<1>3. B' = B /\ M' = M
  BY <1>1, Zenon DEF B, M
<1>4. talk' \in [Talkers -> Seq(Tokens)]
  BY <1>1, <1>2
<1>5. PortsFit'
  BY <1>1, <1>3, <1>4, Zenon DEF PortsFit
<1>6. ASSUME Whole, ~Meets(o)
      PROVE  /\ Alone' /\ Going = <<>> /\ Going' = tokens
             /\ Rest = <<>> /\ Rest' = <<>>
  <2>1. ~InLine /\ \A p \in Talkers : p # o => talk[p] = <<>>
    BY <1>6, ComIsAlone DEF Meets
  <2>2. B.out = <<>> /\ Rest = <<>>
    BY <2>1, InLineFits, Zenon
  <2>3. B'.out = <<>> /\ Rest' = <<>>
    BY <1>3, <2>2, Zenon DEF Rest
  <2>4. Silent
    BY <1>1, <2>1, Zenon DEF Silent
  <2> QED BY <1>1, <1>2, <2>1, <2>2, <2>3, <2>4, OneTalks, Zenon DEF Going
<1> QED BY <1>1, <1>3, <1>5, <1>6, Zenon

\* A token of another's text goes on the line.
LEMMA TalkPutFits ==
    ASSUME PortsFit, NEW o \in Talkers, TalkPut(o)
    PROVE  /\ PortsFit' /\ M'.pc = M.pc /\ Sends
           /\ Whole /\ ~Overruns("board") /\ owed' = owed => Whole'
<1>1. /\ talk[o] # <<>> /\ talk' = [talk EXCEPT ![o] = Tail(talk[o])] /\ Sends
      /\ port' = Arrives(port, "board", Head(talk[o]))
      /\ port \in [Sides -> Ports] /\ talk \in [Talkers -> Seq(Tokens)]
  BY Zenon DEF TalkPut, PortsFit
<1>2. PICK u \in Seq(Tokens), t \in Tokens : u = Tail(talk[o]) /\ t = Head(talk[o])
  BY <1>1, TailFits, Zenon
<1>3. PICK s \in Sides : s = "board" /\ Peer(s) = "machine"
  BY Peers, Zenon
<1>4. /\ Arrives(port, s, t) \in [Sides -> Ports] /\ Arrives(port, s, t)[s] = port[s]
      /\ Overruns(s) => Arrives(port, s, t)[Peer(s)] = port[Peer(s)]
      /\ ~Overruns(s) => /\ ~(Len(port[Peer(s)].rx) >= RX_FIFO)
                         /\ Arrives(port, s, t)[Peer(s)] = Received(port[Peer(s)], t)
  BY <1>1, PortArrives, Zenon
<1>5. /\ port' \in [Sides -> Ports] /\ B' = B
      /\ Overruns("board") => M' = M
      /\ ~Overruns("board") => ~(Len(M.rx) >= RX_FIFO) /\ M' = Received(M, t)
  BY <1>1, <1>2, <1>3, <1>4, Zenon DEF B, M
<1>6. SameMachine /\ (~Overruns("board") => M'.rx = Append(M.rx, t))
  BY <1>5, ReceivedFits, Zenon
<1>7. talk' \in [Talkers -> Seq(Tokens)]
  BY <1>1, <1>2
<1>8. PortsFit'
  <2>1. M'.pc # "idle" /\ (M'.pc = "put" => M'.then # "idle")
    BY <1>6, Zenon DEF PortsFit, SameMachine
  <2> QED BY <1>5, <1>7, <2>1, Zenon DEF PortsFit
<1>9. ASSUME Whole, ~Overruns("board"), owed' = owed
      PROVE  Whole'
  <2>1. /\ Going = talk[o] /\ B.out = <<>> /\ Rest = <<>>
        /\ \A p \in Talkers : p # o => talk[p] = <<>>
    BY <1>1, <1>9, GoingFits, Zenon DEF Whole
  <2>2. B'.out = <<>> /\ Rest' = <<>>
    BY <1>5, <2>1, Zenon DEF Rest
  <2>3. Alone' /\ Going' = Tail(Going)
    BY <1>1, <1>2, <2>1, <2>2, OneTalks, Zenon
  <2> QED BY <1>1, <1>2, <1>6, <1>9, <2>1, <2>2, <2>3, MovesFits, Zenon
<1> QED BY <1>1, <1>6, <1>8, <1>9, Zenon DEF SameMachine

\* When nothing is under way, and nothing is owed, the lines are whole.
LEMMA EmptyFits ==
    ASSUME ~HasLine, owed = <<>>, Silent, M.rx = <<>>, M.buf = <<>>, B.out = <<>>, Rest = <<>>
    PROVE  Whole
<1>1. owed \in Seq(LineSet)
  BY Zenon, EmptySeq
<1>2. OwedFits /\ Alone
  BY <1>1, SilentIsAlone, Zenon DEF OwedFits
<1>3. Sent = Join(<<>>, <<>>) /\ Owing = Join(<<>>, <<>>)
  BY StreamNone, Zenon DEF Sent, Owing, Due, Going
<1>4. LinesFit
  <2>1. Join(<<>>, Sent) = Join(<<>>, Owing)
    BY <1>3, Zenon
  <2>2. <<>> \in Seq(Plain) /\ <<>> \in Lates /\ M.buf = Kept(<<>>)
    BY KeptFits, Joins, Zenon DEF Lates
  <2> QED BY <2>1, <2>2, Zenon DEF LinesFit
<1> QED BY <1>2, <1>4, Zenon DEF Whole

\* A text that meets no other begins with the lines whole, even if they were torn.
LEMMA SaidFits ==
    ASSUME TornFits, NEW w, NEW whole \in BOOLEAN, Said(w, whole) # "now"
    PROVE  Whole /\ ~Meets(w) /\ whole
<1>1. ~Meets(w) /\ whole /\ (torn = "now" => Quiet)
  BY Zenon DEF Said
<1>2. CASE torn # "now"
  BY <1>1, <1>2, Zenon DEF TornFits
<1>3. CASE torn = "now"
  <2>1. owed = <<>> /\ Quiet
    BY <1>1, <1>3, Zenon DEF TornFits
  <2>2. /\ M.pc = "gets" /\ M.rx = <<>> /\ M.buf = <<>> /\ Silent /\ ~InLine
    BY <2>1, Zenon DEF Quiet, Silent, M
  <2>3. ~HasLine
    BY <2>2 DEF HasLine
  <2> QED BY <1>1, <2>1, <2>2, <2>3, InLineFits, EmptyFits, Zenon
<1> QED BY <1>2, <1>3, Zenon

\* What a text makes of the lines owed.
LEMMA SaysFits ==
    ASSUME TornFits, NEW w, NEW whole \in BOOLEAN, NEW lines, NEW sets,
           Owes(Said(w, whole), lines, sets),
           Whole /\ ~Meets(w) /\ whole /\ owed' = owed \o lines => Whole'
    PROVE  TornFits'
<1>1. /\ torn' = Said(w, whole)
      /\ owed' = IF Said(w, whole) = "now" THEN <<>> ELSE owed \o lines
  BY Zenon DEF Owes
<1>2. CASE Said(w, whole) = "now"
  BY <1>1, <1>2, Zenon DEF TornFits
<1>3. CASE Said(w, whole) # "now"
  BY <1>1, <1>3, SaidFits, Zenon DEF TornFits
<1> QED BY <1>2, <1>3, Zenon

\* What a token of a text begun before makes of them.
LEMMA SendsOnFits ==
    ASSUME PortsFit, TornFits, Sends,
           Whole /\ ~Overruns("board") /\ owed' = owed => Whole'
    PROVE  TornFits'
<1>1. CASE Overruns("board")
  BY <1>1, Zenon DEF Sends, Owes, TornFits
<1>2. CASE ~Overruns("board")
  <2>1. torn' = torn /\ owed' = IF torn = "now" THEN <<>> ELSE owed \o <<>>
    BY <1>2, Zenon DEF Sends, Owes
  <2>2. CASE torn = "now"
    BY <2>1, <2>2, Zenon DEF TornFits
  <2>3. CASE torn # "now"
    <3>1. Whole /\ owed' = owed
      BY <2>1, <2>3, OwingFits, Zenon DEF TornFits
    <3> QED BY <1>2, <2>1, <2>3, <3>1, Zenon DEF TornFits
  <2> QED BY <2>2, <2>3, Zenon
<1> QED BY <1>1, <1>2, Zenon

\* A step that begins no text.
LEMMA KeepsTorn ==
    ASSUME TornFits, torn' = torn, owed = <<>> => owed' = <<>>, Whole => Whole'
    PROVE  TornFits'
BY Zenon DEF TornFits

\* Another task prints a line.
LEMMA LogFits ==
    ASSUME PortsFit, TornFits, NEW o \in Talkers, Log(o)
    PROVE  PortsFit' /\ TornFits' /\ M' = M
<1>1. PICK x \in Pieces(Plain) : x = Text(Word("HTTPD"))
  BY PiecesFit, Zenon DEF Words
<1>2. PICK format \in Seq(Pieces(Plain)) :
         Append(format, Text(LF)) = <<Text(Word("HTTPD")), Text(LF)>>
  <2>1. <<x>> \in Seq(Pieces(Plain)) /\ <<x, Text(LF)>> = Append(<<x>>, Text(LF))
    BY Formats, SMT
  <2> QED BY <1>1, <2>1, Zenon
<1>3. PICK tokens \in Texts, l \in LineSet :
         /\ tokens = UARTprintf(<<Text(Word("HTTPD")), Text(LF)>>) /\ l = LineOf(tokens)
         /\ tokens = Join(l.text, l.end)
  BY <1>2, PrintedLine, Zenon
<1>4. Talks(o, tokens, TRUE, <<l>>)
  BY <1>3, Zenon DEF Log, BoardPrintf
<1>5. /\ PortsFit' /\ M' = M /\ Owes(Said(o, TRUE), <<l>>, {})
      /\ Whole /\ ~Meets(o) => /\ Alone' /\ Going = <<>> /\ Going' = tokens
                               /\ Rest = <<>> /\ Rest' = <<>>
  BY <1>4, TalksFit, Zenon
<1>6. Whole /\ ~Meets(o) /\ owed' = owed \o <<l>> => Whole'
  BY <1>3, <1>5, SendsLineFits, Zenon
<1>7. TornFits'
  BY <1>5, <1>6, SaysFits, Zenon
<1> QED BY <1>5, <1>7, Zenon

\* Another task prints a text without an end.
LEMMA LogPieceFits ==
    ASSUME PortsFit, TornFits, NEW o \in Talkers, LogPiece(o)
    PROVE  PortsFit' /\ TornFits' /\ M' = M
<1>1. PICK x \in Pieces(Plain) : x = Text(Word("DHCP")) /\ PieceText(x) # <<>>
  <2>1. Text(Word("DHCP")) \in Pieces(Plain)
    BY PiecesFit, Zenon DEF Words
  <2>2. PieceText(Text(Word("DHCP"))) # <<>>
    BY DEF PieceText, Text
  <2> QED BY <2>1, <2>2, Zenon
<1>2. PICK tokens \in Texts : tokens = UARTprintf(<<Text(Word("DHCP"))>>)
  <2>1. <<>> \in Seq(Pieces(Tokens)) /\ <<x>> = Append(<<>>, x)
    OBVIOUS
  <2> QED BY <1>1, <2>1, PrintfSome, Zenon
<1>3. Talks(o, tokens, FALSE, <<>>)
  BY <1>2, Zenon DEF LogPiece, BoardPrintf
<1>4. PortsFit' /\ M' = M /\ Owes(Said(o, FALSE), <<>>, {})
  BY <1>3, TalksFit, Zenon
<1>5. TornFits'
  BY <1>4, SaysFits, Zenon
<1> QED BY <1>4, <1>5, Zenon

\* The handler prints its two lines.
LEMMA InterruptFits ==
    ASSUME PortsFit, TornFits, Interrupt
    PROVE  PortsFit' /\ TornFits' /\ M' = M
<1>1. PICK x \in Pieces(Plain), y \in Pieces(Plain) :
         x = Text(Word("PHY Event")) /\ y = Text(Word("phy:"))
  BY PiecesFit, Zenon DEF Words
<1>2. PICK f \in Seq(Pieces(Plain)), g \in Seq(Pieces(Plain)) :
         /\ Append(f, Text(LF)) = <<Text(Word("PHY Event")), Text(LF)>>
         /\ Append(g, Text(LF)) = <<Text(Word("phy:")), Text(LF)>>
  <2>1. <<x>> \in Seq(Pieces(Plain)) /\ <<x, Text(LF)>> = Append(<<x>>, Text(LF))
    BY Formats, SMT
  <2>2. <<y>> \in Seq(Pieces(Plain)) /\ <<y, Text(LF)>> = Append(<<y>>, Text(LF))
    BY Formats, SMT
  <2> QED BY <1>1, <2>1, <2>2, Zenon
<1>3. PICK first \in Texts, k \in LineSet :
         /\ first = UARTprintf(<<Text(Word("PHY Event")), Text(LF)>>) /\ k = LineOf(first)
         /\ first = Join(k.text, k.end)
  BY <1>2, PrintedLine, Zenon
<1>4. PICK second \in Texts, l \in LineSet :
         /\ second = UARTprintf(<<Text(Word("phy:")), Text(LF)>>) /\ l = LineOf(second)
         /\ second = Join(l.text, l.end)
  BY <1>2, PrintedLine, Zenon
<1>5. PICK tokens \in Texts : tokens = first \o second
  <2>1. first \o second \in Seq(Tokens) /\ first \o second # <<>>
    BY DEF Texts
  <2> QED BY <2>1, Zenon DEF Texts
<1>6. Talks(Handler, tokens, TRUE, <<k, l>>)
  BY <1>3, <1>4, <1>5, Zenon DEF Interrupt, BoardPrintf
<1>7. Handler \in Talkers
  BY DEF Talkers
<1>8. /\ PortsFit' /\ M' = M /\ Owes(Said(Handler, TRUE), <<k, l>>, {})
      /\ Whole /\ ~Meets(Handler) => /\ Alone' /\ Going = <<>> /\ Going' = tokens
                                     /\ Rest = <<>> /\ Rest' = <<>>
  BY <1>6, <1>7, TalksFit, Zenon
<1>9. tokens = Join(Join(k.text, k.end), Join(l.text, l.end))
  BY <1>3, <1>4, <1>5, Zenon DEF Join
<1>10. Whole /\ ~Meets(Handler) /\ owed' = owed \o <<k, l>> => Whole'
  BY <1>8, <1>9, SendsLinesFit, Zenon
<1>11. TornFits'
  BY <1>8, <1>10, SaysFits, Zenon
<1> QED BY <1>8, <1>11, Zenon

\* Com sends a token, reads one, or logs the line it has read.
LEMMA ComGoesOnFits ==
    ASSUME PortsFit, TornFits, ComGoesOn
    PROVE  PortsFit' /\ TornFits' /\ M'.pc = M.pc
<1>1. CASE BoardPut
  <2>1. /\ PortsFit' /\ M'.pc = M.pc /\ Sends
        /\ Whole /\ ~Overruns("board") /\ owed' = owed => Whole'
    BY <1>1, BoardPutFits, Zenon DEF BoardPut
  <2> QED BY <2>1, SendsOnFits, Zenon
<1>2. CASE BoardGets
  <2>1. CASE (Gobble("board") \/ Ignore("board")) /\ UNCHANGED history
    <3>1. torn' = torn /\ owed' = owed
      BY <2>1, Zenon DEF history
    <3>2. PortsFit' /\ M'.pc = M.pc /\ (Whole /\ owed' = owed => Whole')
      BY <2>1, BoardGobbleFits, BoardIgnoreFits, Zenon
    <3> QED BY <3>1, <3>2, KeepsTorn, Zenon
  <2>2. CASE EndLine("board") /\ Owes(Said(Com, TRUE), EchoedLines(port["board"].buf), {})
    <3>1. /\ PortsFit' /\ M' = M
          /\ Whole /\ Silent /\ owed' = owed \o EchoedLines(port["board"].buf) => Whole'
      BY <2>2, BoardEndLineFits, Zenon
    <3>2. Whole /\ ~Meets(Com) /\ owed' = owed \o EchoedLines(port["board"].buf) => Whole'
      BY <3>1, ComIsAlone, Zenon
    <3>3. TornFits'
      BY <2>2, <3>2, SaysFits, Zenon
    <3> QED BY <3>1, <3>3, Zenon
  <2>3. CASE Keep("board") /\ Owes(Said(Com, ~Overruns("board")), <<>>, {})
    <3>1. /\ PortsFit' /\ M'.pc = M.pc
          /\ Whole /\ Silent /\ ~Overruns("board") /\ owed' = owed => Whole'
      BY <2>3, BoardKeepFits, Zenon
    <3>2. PICK whole \in BOOLEAN : whole = ~Overruns("board")
      OBVIOUS
    <3>3. Owes(Said(Com, whole), <<>>, {})
      BY <2>3, <3>2, Zenon
    <3>4. Whole /\ ~Meets(Com) /\ whole /\ owed' = owed \o <<>> => Whole'
      BY <3>1, <3>2, ComIsAlone, OwingFits, Zenon
    <3>5. TornFits'
      BY <3>3, <3>4, SaysFits, Zenon
    <3> QED BY <3>1, <3>5, Zenon
  <2> QED BY <1>2, <2>1, <2>2, <2>3, Zenon DEF BoardGets
<1>3. CASE LogLine
  <2>1. PortsFit' /\ M' = M
    BY <1>3, LogLineFits, Zenon
  <2>2. PICK tokens : /\ Owes(Said(Com, TRUE), <<LineOf(tokens)>>, {})
                      /\ Whole /\ Silent /\ owed' = owed \o <<LineOf(tokens)>> => Whole'
    BY <1>3, LogLineFits, Zenon
  <2>3. Whole /\ ~Meets(Com) /\ owed' = owed \o <<LineOf(tokens)>> => Whole'
    BY <2>2, ComIsAlone, Zenon
  <2>4. TornFits'
    BY <2>2, <2>3, SaysFits, Zenon
  <2> QED BY <2>1, <2>4, Zenon
<1> QED BY <1>1, <1>2, <1>3, Zenon DEF ComGoesOn

\* Com begins a command.
LEMMA CommandFits ==
    ASSUME PortsFit, TornFits,
           \/ \E id \in Items : GetFormMachine(id)
           \/ \E id \in Items, value \in Values : SendToMachine(id, value)
    PROVE  PortsFit' /\ TornFits' /\ M' = M
<1>1. \A x \in Words : Text(Word(x)) \in Pieces(Plain)
  BY PiecesFit, Zenon
<1>2. PICK format \in Seq(Pieces(Plain)), then \in {"idle", "gets"} :
         \E sets : Begins(UARTprintf(Append(format, Text(LF))), then, sets)
  <2>1. ASSUME NEW id \in Items, GetFormMachine(id)
        PROVE  \E format \in Seq(Pieces(Plain)), then \in {"idle", "gets"} :
                  \E sets : Begins(UARTprintf(Append(format, Text(LF))), then, sets)
    <3>1. PICK x \in Pieces(Plain), y \in Pieces(Plain) : x = Text(Word("!g:")) /\ y = Text(Word(id))
      BY <1>1, Zenon DEF Words
    <3>2. /\ <<x, y>> \in Seq(Pieces(Plain))
          /\ <<x, y, Text(LF)>> = Append(<<x, y>>, Text(LF))
      BY Formats, SMT
    <3> QED BY <2>1, <3>1, <3>2, Zenon DEF GetFormMachine, BoardPrintf
  <2>2. ASSUME NEW id \in Items, NEW value \in Values, SendToMachine(id, value)
        PROVE  \E format \in Seq(Pieces(Plain)), then \in {"idle", "gets"} :
                  \E sets : Begins(UARTprintf(Append(format, Text(LF))), then, sets)
    <3>1. PICK x \in Pieces(Plain), y \in Pieces(Plain), e \in Pieces(Plain), z \in Pieces(Plain) :
             /\ x = Text(Word("!s:")) /\ y = Text(Word(id)) /\ e = Text(Word("="))
             /\ z = Decimal(value, 0, Space)
      <4>1. value \in Int32
        BY SerialAssumption, Zenon
      <4> QED BY <1>1, <4>1, PiecesFit, Zenon DEF Words
    <3>2. /\ <<x, y, e, z>> \in Seq(Pieces(Plain))
          /\ <<x, y, e, z, Text(LF)>> = Append(<<x, y, e, z>>, Text(LF))
      BY Formats, SMT
    <3> QED BY <2>2, <3>1, <3>2, Zenon DEF SendToMachine, BoardPrintf
  <2> QED BY <2>1, <2>2, Zenon
<1>3. PICK more, sets : /\ more = <<LineOf(UARTprintf(Append(format, Text(LF))))>>
                        /\ Begins(UARTprintf(Append(format, Text(LF))), then, sets)
  BY <1>2, Zenon
<1>4. PortsFit' /\ M' = M /\ (Whole /\ Silent /\ owed' = owed \o more => Whole')
  BY <1>3, BeginsFits, Zenon
<1>5. Owes(Said(Com, TRUE), more, sets)
  BY <1>3, Zenon DEF Begins
<1>6. Whole /\ ~Meets(Com) /\ owed' = owed \o more => Whole'
  BY <1>4, ComIsAlone, Zenon
<1>7. TornFits'
  BY <1>5, <1>6, SaysFits, Zenon
<1> QED BY <1>4, <1>7, Zenon

\* The machine sends a token, or reads one.
LEMMA MachineGoesOnFits ==
    ASSUME PortsFit, TornFits, MachinePut \/ MachineGets
    PROVE  PortsFit' /\ TornFits'
<1>1. torn' = torn /\ owed' = owed
  BY Zenon DEF MachinePut, MachineGets, history
<1>2. PortsFit' /\ (Whole => Whole')
  BY <1>1, MachinePutFits, MachineGobbleFits, MachineEndLineFits, MachineKeepFits,
     MachineIgnoreFits, Zenon DEF MachinePut, MachineGets
<1> QED BY <1>1, <1>2, KeepsTorn, Zenon

\* The machine has handled a line.
LEMMA HandlesFit ==
    ASSUME PortsFit, TornFits, StoreFits, HandleGet \/ HandleSet \/ HandleOther
    PROVE  PortsFit' /\ TornFits'
<1>1. MachineReads
  BY Zenon DEF HandleGet, HandleSet, HandleOther
<1>2. torn' = torn /\ owed' = SubSeq(owed, 2, Len(owed))
  BY <1>1, Zenon DEF MachineReads
<1>3. owed = <<>> => owed' = <<>>
  <2>1. SubSeq(<<>>, 2, Len(<<>>)) = <<>>
    OBVIOUS
  <2> QED BY <1>2, <2>1, Zenon
<1>4. PortsFit' /\ (Whole => Whole')
  BY HandleGetFits, HandleSetFits, HandleOtherFits, Zenon
<1> QED BY <1>2, <1>3, <1>4, KeepsTorn, Zenon

\* A window is as wide as the row: what fits is written from the left.
LEMMA WrittenFits ==
    ASSUME NEW row, NEW tokens, Len(tokens) \in 0 .. COLUMNS
    PROVE  \A c \in 1 .. COLUMNS :
              Written(row, tokens)[c] = IF c > Len(tokens) THEN row[c] ELSE tokens[c]
<1>1. PICK n \in Nat, m \in Nat : n = COLUMNS /\ m = Len(tokens) /\ n # 0 /\ m <= n
  BY ScreenAssumption
<1>2. \A c \in 1 .. n : ~(c > m) => c + n * ((m - c) \div n) = c
  <2> TAKE c \in 1 .. n
  <2> HAVE ~(c > m)
  <2>1. PICK x \in Nat : x = m - c /\ x < n
    BY <1>1, SMTT(30)
  <2>2. x \div n = 0
    BY <1>1, <2>1
  <2>3. n * (x \div n) = 0
    BY <1>1, <2>2
  <2> QED BY <2>1, <2>3
<1>3. \A c \in 1 .. n : Written(row, tokens)[c] =
          IF c > m THEN row[c] ELSE tokens[c + n * ((m - c) \div n)]
  BY <1>1, Zenon DEF Written
<1> QED BY <1>1, <1>2, <1>3, Zenon

\* A row that was written has all its columns.
LEMMA WrittenIsRow ==
    \A f : (\E old, tokens : f = Written(old, tokens)) => f = [c \in 1 .. COLUMNS |-> f[c]]
  BY DEF Written

\* A panel's fields, and the changes of one of them.
Panel(enabled, on, ram) == [bSSIEnabled |-> enabled, on |-> on, ram |-> ram]

\* The SSI port is opened or closed, the panel switched, the RAM filled.
Opened(p, v) == [p EXCEPT !.bSSIEnabled = v]
Switched(p, v) == [p EXCEPT !.on = v]
Filled(p, v) == [p EXCEPT !.ram = v]

\* The states of a switch.
Yes == TRUE
No == FALSE

\* The fields of a panel, one by one.
LEMMA PanelFields ==
    \A x, y, z : /\ Panel(x, y, z).bSSIEnabled = x /\ Panel(x, y, z).on = y
                 /\ Panel(x, y, z).ram = z
  BY DEF Panel

\* Only the SSI port changes.
LEMMA OpenedFits == \A x, y, z, v : Opened(Panel(x, y, z), v) = Panel(v, y, z)
<1>1. ASSUME NEW x, NEW y, NEW z, NEW v, NEW p, p = Panel(x, y, z)
      PROVE  Opened(p, v) = Panel(v, y, z)
  <2> DEFINE q == Opened(p, v)
  <2>1. DOMAIN q = {"bSSIEnabled", "on", "ram"}
    BY <1>1 DEF Panel, Opened
  <2>2. q.bSSIEnabled = v /\ q.on = y /\ q.ram = z
    BY <1>1 DEF Panel, Opened
  <2>3. q = [f \in {"bSSIEnabled", "on", "ram"} |-> q[f]]
    BY <2>1 DEF Opened
  <2> HIDE DEF q
  <2>4. q = Panel(v, y, z)
    BY <2>2, <2>3 DEF Panel
  <2> QED BY <2>4, Zenon DEF q
<1> QED BY <1>1, SMT

\* Only the switch changes.
LEMMA SwitchedFits == \A x, y, z, v : Switched(Panel(x, y, z), v) = Panel(x, v, z)
<1>1. ASSUME NEW x, NEW y, NEW z, NEW v, NEW p, p = Panel(x, y, z)
      PROVE  Switched(p, v) = Panel(x, v, z)
  <2> DEFINE q == Switched(p, v)
  <2>1. DOMAIN q = {"bSSIEnabled", "on", "ram"}
    BY <1>1 DEF Panel, Switched
  <2>2. q.bSSIEnabled = x /\ q.on = v /\ q.ram = z
    BY <1>1 DEF Panel, Switched
  <2>3. q = [f \in {"bSSIEnabled", "on", "ram"} |-> q[f]]
    BY <2>1 DEF Switched
  <2> HIDE DEF q
  <2>4. q = Panel(x, v, z)
    BY <2>2, <2>3 DEF Panel
  <2> QED BY <2>4, Zenon DEF q
<1> QED BY <1>1, SMT

\* Only the RAM changes.
LEMMA FilledFits == \A x, y, z, v : Filled(Panel(x, y, z), v) = Panel(x, y, v)
<1>1. ASSUME NEW x, NEW y, NEW z, NEW v, NEW p, p = Panel(x, y, z)
      PROVE  Filled(p, v) = Panel(x, y, v)
  <2> DEFINE q == Filled(p, v)
  <2>1. DOMAIN q = {"bSSIEnabled", "on", "ram"}
    BY <1>1 DEF Panel, Filled
  <2>2. q.bSSIEnabled = x /\ q.on = y /\ q.ram = v
    BY <1>1 DEF Panel, Filled
  <2>3. q = [f \in {"bSSIEnabled", "on", "ram"} |-> q[f]]
    BY <2>1 DEF Filled
  <2> HIDE DEF q
  <2>4. q = Panel(x, y, v)
    BY <2>2, <2>3 DEF Panel
  <2> QED BY <2>4, Zenon DEF q
<1> QED BY <1>1, SMT

\* The panel when it is in use.
IsOn(p) ==
    /\ p = Panel(Yes, Yes, p.ram)
    /\ p.ram = [y \in Lines |-> [c \in 1 .. COLUMNS |-> p.ram[y][c]]]

\* What a row shows of a text.
Fitting(text) == SubSeq(text, 1, IF Len(text) < COLUMNS THEN Len(text) ELSE COLUMNS)

\* It is the text up to the last column.
LEMMA FittingFits ==
    \A S : \A text \in Seq(S) :
        /\ Len(Fitting(text)) = (IF Len(text) < COLUMNS THEN Len(text) ELSE COLUMNS)
        /\ Len(Fitting(text)) \in 0 .. COLUMNS
        /\ \A c \in 1 .. COLUMNS : ~(c > Len(text)) => Fitting(text)[c] = text[c]
        /\ \A c \in 1 .. COLUMNS : c > Len(Fitting(text)) <=> c > Len(text)
<1> TAKE S
<1> TAKE text \in Seq(S)
<1>1. PICK n \in Nat, m \in Nat :
         n = COLUMNS /\ m = (IF Len(text) < COLUMNS THEN Len(text) ELSE COLUMNS)
  BY ScreenAssumption
<1>2. /\ Len(SubSeq(text, 1, m)) = m
      /\ \A c \in 1 .. m : SubSeq(text, 1, m)[c] = text[c]
  BY <1>1
<1>3. m \in 0 .. n /\ (\A c \in 1 .. n : ~(c > Len(text)) => c \in 1 .. m)
      /\ (\A c \in 1 .. n : c > m <=> c > Len(text))
  BY <1>1
<1>4. Fitting(text) = SubSeq(text, 1, m)
  BY <1>1, Zenon DEF Fitting
<1> QED BY <1>1, <1>2, <1>3, <1>4, Zenon

\* Drawing changes the lines it is given, from the left.
LEMMA DrawFits ==
    ASSUME NEW p, IsOn(p), NEW texts, NEW q, q = StringDraw(p, texts)
    PROVE  /\ IsOn(q)
           /\ \A y \in Lines : y \notin DOMAIN texts => q.ram[y] = p.ram[y]
           /\ \A S : \A y \in Lines : y \in DOMAIN texts /\ texts[y] \in Seq(S) =>
                 \A c \in 1 .. COLUMNS :
                    q.ram[y][c] = IF c > Len(texts[y]) THEN p.ram[y][c] ELSE texts[y][c]
<1> DEFINE t == [y \in DOMAIN texts |-> Fitting(texts[y])]
           r == [y \in Lines |-> IF y \in DOMAIN t THEN Written(p.ram[y], t[y]) ELSE p.ram[y]]
<1>1. q = RITWriteData(p, t)
  BY Zenon DEF StringDraw, Fitting
<1> HIDE DEF r
<1>2. PICK w : p = Panel(Yes, Yes, w) /\ p.bSSIEnabled
  <2>1. p = Panel(Yes, Yes, p.ram)
    BY Zenon DEF IsOn
  <2>2. p.bSSIEnabled = Yes
    BY <2>1, PanelFields, SMT
  <2> QED BY <2>1, <2>2, Zenon DEF Yes
<1>3. q = Filled(p, r)
  BY <1>1, <1>2, Zenon DEF RITWriteData, Filled, r
<1>4. q = Panel(Yes, Yes, r) /\ q.ram = r
  BY <1>2, <1>3, FilledFits, PanelFields, SMT
<1>5. \A y \in Lines : r[y] = IF y \in DOMAIN texts THEN Written(p.ram[y], Fitting(texts[y]))
                              ELSE p.ram[y]
  BY Zenon DEF r
<1>6. IsOn(q)
  <2>1. \A y \in Lines : p.ram[y] = [c \in 1 .. COLUMNS |-> p.ram[y][c]]
    BY Zenon DEF IsOn
  <2>2. \A y \in Lines : r[y] = [c \in 1 .. COLUMNS |-> r[y][c]]
    <3> TAKE y \in Lines
    <3> HIDE DEF r
    <3>1. CASE y \in DOMAIN texts
      BY <1>5, <3>1, WrittenIsRow, Zenon
    <3>2. CASE y \notin DOMAIN texts
      <4>1. r[y] = p.ram[y]
        BY <1>5, <3>2, Zenon
      <4> QED BY <2>1, <4>1, Zenon
    <3> QED BY <3>1, <3>2, Zenon
  <2>3. r = [y \in Lines |-> r[y]]
    BY DEF r
  <2>4. r = [y \in Lines |-> [c \in 1 .. COLUMNS |-> r[y][c]]]
    <3> HIDE DEF r
    <3> QED BY <2>2, <2>3
  <2> HIDE DEF r
  <2> QED BY <1>4, <2>4, Zenon DEF IsOn
<1>7. \A y \in Lines : y \notin DOMAIN texts => q.ram[y] = p.ram[y]
  BY <1>4, <1>5, Zenon
<1>8. ASSUME NEW y \in Lines, NEW S, y \in DOMAIN texts, texts[y] \in Seq(S), NEW c \in 1 .. COLUMNS
      PROVE  q.ram[y][c] = IF c > Len(texts[y]) THEN p.ram[y][c] ELSE texts[y][c]
  <2>1. q.ram[y] = Written(p.ram[y], Fitting(texts[y]))
    BY <1>4, <1>5, <1>8, Zenon
  <2>2. PICK f : f = Fitting(texts[y])
    BY Zenon
  <2>3. Len(f) \in 0 .. COLUMNS
        /\ (~(c > Len(texts[y])) => f[c] = texts[y][c])
        /\ (c > Len(f) <=> c > Len(texts[y]))
    BY <1>8, <2>2, FittingFits, Zenon
  <2>4. Written(p.ram[y], f)[c] = IF c > Len(f) THEN p.ram[y][c] ELSE f[c]
    BY <2>3, WrittenFits, Zenon
  <2> QED BY <2>1, <2>2, <2>3, <2>4, Zenon
<1> QED BY <1>6, <1>7, <1>8, Zenon

\* The last switch command of the initialisation table turns the panel on.
LEMMA LastSwitchIsOn == LastSwitch = "on"
<1> DEFINE g == g_pucRIT128x96x4Init
           switches == { k \in DOMAIN g : g[k] \in {"on", "off"} }
<1>1. DOMAIN g = 1 .. 17 /\ g[17] = "on"
  BY DEF g_pucRIT128x96x4Init
<1>2. 17 \in switches /\ switches \subseteq 1 .. 17
  BY <1>1
<1>3. \A k \in switches : (\A j \in switches : j <= k) => k = 17
  BY <1>2
<1>4. \A j \in switches : j <= 17
  BY <1>2
<1>5. (CHOOSE k \in switches : \A j \in switches : j <= k) = 17
  <2> HIDE DEF switches
  <2> QED BY <1>2, <1>3, <1>4
<1>6. LastSwitch = g[CHOOSE k \in switches : \A j \in switches : j <= k]
  BY Zenon DEF LastSwitch
<1> QED BY <1>1, <1>5, <1>6, Zenon

\* Once set up the panel is on, and blank.
LEMMA InitFits ==
    /\ IsOn(RIT128x96x4Init(NoPanel))
    /\ \A y \in Lines, c \in 1 .. COLUMNS : RIT128x96x4Init(NoPanel).ram[y][c] = Blank
<1> DEFINE p == RIT128x96x4Enable(NoPanel)
           t == [y \in Lines |-> [c \in 1 .. COLUMNS |-> Blank]]
           r == [y \in Lines |-> Written(p.ram[y], t[y])]
           q == RIT128x96x4Init(NoPanel)
<1>1. PICK w : p = Panel(Yes, No, w)
  <2>1. PICK w : NoPanel = Panel(No, No, w)
    BY Zenon DEF NoPanel, Panel, No
  <2>2. p = Opened(NoPanel, Yes)
    BY Zenon DEF RIT128x96x4Enable, Opened, Yes
  <2> HIDE DEF p
  <2> QED BY <2>1, <2>2, OpenedFits, SMT
<1> HIDE DEF p
<1>2. RIT128x96x4Clear(p) = Filled(p, r)
  <2>1. p.bSSIEnabled
    <3>1. p.bSSIEnabled = Yes
      BY <1>1, PanelFields, SMT
    <3> QED BY <3>1, Zenon DEF Yes
  <2>2. DOMAIN t = Lines
    OBVIOUS
  <2>3. RIT128x96x4Clear(p) = Filled(p,
             [y \in Lines |-> IF y \in DOMAIN t THEN Written(p.ram[y], t[y]) ELSE p.ram[y]])
    BY <2>1, Zenon DEF RIT128x96x4Clear, RITWriteData, Filled
  <2>4. r = [y \in Lines |-> IF y \in DOMAIN t THEN Written(p.ram[y], t[y]) ELSE p.ram[y]]
    <3> HIDE DEF p, t
    <3> QED BY <2>2, Zenon
  <2> QED BY <2>3, <2>4, Zenon
<1>3. RIT128x96x4Clear(p) = Panel(Yes, No, r)
  <2> HIDE DEF r
  <2> QED BY <1>1, <1>2, FilledFits, SMT
<1>4. q = Panel(Yes, Yes, r) /\ q.ram = r
  <2>1. PICK o : o = RIT128x96x4Clear(p)
    BY Zenon
  <2>2. o.bSSIEnabled
    <3> HIDE DEF r
    <3>1. o.bSSIEnabled = Yes
      BY <1>3, <2>1, PanelFields, SMT
    <3> QED BY <3>1, Zenon DEF Yes
  <2>3. q = Commanded(o, "on")
    BY <2>1, <2>2, LastSwitchIsOn, Zenon DEF RIT128x96x4Init, RITWriteCommand, p
  <2> HIDE DEF q, r
  <2>4. q = Switched(o, Yes)
    <3>1. "on" \in {"on", "off"}
      OBVIOUS
    <3>2. (IF "on" \in {"on", "off"} THEN "on" = "on" ELSE o.on) = Yes
      BY DEF Yes
    <3> QED BY <2>3, <3>2, Zenon DEF Commanded, Switched
  <2>5. q = Panel(Yes, Yes, r)
    BY <1>3, <2>1, <2>4, SwitchedFits, SMT
  <2> QED BY <2>5, PanelFields, SMT
<1>5. \A y \in Lines : r[y] = Written(p.ram[y], t[y]) /\ Len(t[y]) = COLUMNS
                       /\ \A c \in 1 .. COLUMNS : t[y][c] = Blank
  <2>1. \A y \in Lines : r[y] = Written(p.ram[y], t[y])
    BY Zenon
  <2>2. COLUMNS \in Nat
    BY ScreenAssumption, Zenon
  <2>3. \A b : Len([c \in 1 .. COLUMNS |-> b]) = COLUMNS
    BY <2>2
  <2> QED BY <2>1, <2>3, Zenon
<1>6. \A y \in Lines, c \in 1 .. COLUMNS : r[y][c] = Blank
  <2>1. COLUMNS \in 0 .. COLUMNS /\ \A c \in 1 .. COLUMNS : ~(c > COLUMNS)
    BY ScreenAssumption
  <2> HIDE DEF r, t, p
  <2>2. \A row, tokens : Len(tokens) \in 0 .. COLUMNS => \A c \in 1 .. COLUMNS :
             Written(row, tokens)[c] = IF c > Len(tokens) THEN row[c] ELSE tokens[c]
    BY WrittenFits, Zenon
  <2>3. TAKE y \in Lines, c \in 1 .. COLUMNS
  <2>4. Len(t[y]) \in 0 .. COLUMNS /\ ~(c > Len(t[y])) /\ t[y][c] = Blank
    BY <1>5, <2>1, Zenon
  <2>5. Written(p.ram[y], t[y])[c] = t[y][c]
    BY <2>2, <2>4, Zenon
  <2> QED BY <1>5, <2>4, <2>5, Zenon
<1>7. r = [y \in Lines |-> [c \in 1 .. COLUMNS |-> r[y][c]]]
  <2>1. r = [y \in Lines |-> r[y]]
    OBVIOUS
  <2>2. \A y \in Lines : r[y] = [c \in 1 .. COLUMNS |-> r[y][c]]
    <3> HIDE DEF r, t, p
    <3> QED BY <1>5, WrittenIsRow, Zenon
  <2> HIDE DEF r
  <2> QED BY <2>1, <2>2
<1>8. IsOn(q)
  <2> HIDE DEF r, q
  <2> QED BY <1>4, <1>7, Zenon DEF IsOn
<1> HIDE DEF r, q
<1> QED BY <1>4, <1>6, <1>8, Zenon DEF q

\* StringDraw, stated for any panel, texts and result.
LEMMA DrawnLines ==
    \A p, t, q : IsOn(p) /\ q = StringDraw(p, t) =>
        /\ IsOn(q)
        /\ \A y \in Lines : y \notin DOMAIN t => q.ram[y] = p.ram[y]
        /\ \A S : \A y \in Lines : y \in DOMAIN t /\ t[y] \in Seq(S) =>
              \A c \in 1 .. COLUMNS :
                 q.ram[y][c] = IF c > Len(t[y]) THEN p.ram[y][c] ELSE t[y][c]
<1> TAKE p, t, q
<1> HAVE IsOn(p) /\ q = StringDraw(p, t)
<1>1. IsOn(q)
  BY DrawFits
<1>2. \A y \in Lines : y \notin DOMAIN t => q.ram[y] = p.ram[y]
  BY DrawFits
<1>3. ASSUME NEW y \in Lines, NEW S, y \in DOMAIN t, t[y] \in Seq(S), NEW c \in 1 .. COLUMNS
      PROVE  q.ram[y][c] = IF c > Len(t[y]) THEN p.ram[y][c] ELSE t[y][c]
  BY <1>3, DrawFits
<1> QED BY <1>1, <1>2, <1>3, Zenon

\* A name and a value.
RowOf(i, value) == <<Word(i)>> \o StringDecimal(value, 0, Space)

\* A row is the name and the number behind it.
LEMMA RowOfFits ==
    \A i \in Items, v \in Int32 :
        /\ RowOf(i, v) \in Seq(Plain) /\ Width(v) \in Nat
        /\ Len(RowOf(i, v)) = 1 + Width(v)
        /\ StringDecimal(v, 0, Space) \in Seq(Plain)
        /\ \A k \in 1 .. Width(v) : RowOf(i, v)[k + 1] = StringDecimal(v, 0, Space)[k]
        /\ usprintf(<<Text(Word(i)), Decimal(v, 0, Space)>>) = RowOf(i, v)
<1> TAKE i \in Items, v \in Int32
<1>1. PICK d \in Seq(Plain) : d = StringDecimal(v, 0, Space) /\ Len(d) \in 1 .. 11
  BY DecimalsFit, Zenon
<1>2. PICK t \in Plain : t = Word(i)
  BY TokenKinds, Zenon DEF Words
<1>3. /\ <<t>> \o d \in Seq(Plain) /\ Len(<<t>> \o d) = 1 + Len(d)
      /\ \A k \in 1 .. Len(d) : (<<t>> \o d)[k + 1] = d[k]
  OBVIOUS
<1>4. Width(v) = Len(d) /\ Len(d) \in Nat
  <2>1. Len(d) \in Nat
    BY LenProperties, Zenon
  <2> QED BY <1>1, <2>1, Zenon DEF Width
<1>5. usprintf(<<Text(Word(i)), Decimal(v, 0, Space)>>) = RowOf(i, v)
  BY ValueTextFits, Zenon DEF RowOf
<1> QED BY <1>1, <1>2, <1>3, <1>4, <1>5, Zenon DEF RowOf

\* The row of a parameter: its value, and blanks behind the longest number shown.
RowFits(i) ==
    /\ shown[i] \in SUBSET Int32
    /\ shown[i] = {} => \A c \in 1 .. COLUMNS : panel.ram[i][c] = Blank
    /\ shown[i] # {} =>
          /\ \A c \in 1 .. COLUMNS : ~(c > 1 + Width(store[i])) =>
                panel.ram[i][c] = RowOf(i, store[i])[c]
          /\ \A c \in 1 .. COLUMNS : (\A v \in shown[i] : c > 1 + Width(v)) =>
                panel.ram[i][c] = Blank

\* The panel: untouched before the machine starts, in use and true to the values
\* afterwards.
PanelFits ==
    /\ M.pc = "off" => panel = NoPanel /\ shown = [i \in Items |-> {}]
    /\ M.pc # "off" => IsOn(panel) /\ \A i \in Items : RowFits(i)

\* The values are drawn.
LEMMA DrawsFit ==
    ASSUME PanelFits, M.pc # "off", M'.pc # "off",
           NEW values \in [Items -> Int32], store' = values,
           NEW heading, Draws(heading, values)
    PROVE  PanelFits'
<1>1. Items \subseteq Lines
  BY SerialAssumption, Zenon
<1>2. PICK t : /\ panel' = StringDraw(panel, t)
               /\ \A i \in Items : i \in DOMAIN t /\ t[i] = RowOf(i, values[i])
  <2> DEFINE t == [y \in Items \cup {"command"} |-> IF y \in Items THEN ValueTexts(values)[y] ELSE heading]
  <2>1. panel' = StringDraw(panel, t)
    BY Zenon DEF Draws
  <2>2. \A i \in Items : i \in DOMAIN t /\ t[i] = ValueTexts(values)[i]
    OBVIOUS
  <2>3. \A i \in Items : values[i] \in Int32
    OBVIOUS
  <2>4. \A i \in Items : ValueTexts(values)[i] = usprintf(<<Text(Word(i)), Decimal(values[i], 0, Space)>>)
    BY Zenon DEF ValueTexts
  <2>5. \A i \in Items : usprintf(<<Text(Word(i)), Decimal(values[i], 0, Space)>>) = RowOf(i, values[i])
    BY <2>3, RowOfFits, Zenon
  <2> HIDE DEF t
  <2> QED BY <2>1, <2>2, <2>4, <2>5, Zenon
<1>3. IsOn(panel) /\ \A i \in Items : RowFits(i)
  BY Zenon DEF PanelFits
<1>4. PICK q : q = panel'
  BY Zenon
<1>5. /\ IsOn(q)
      /\ \A S : \A y \in Lines : y \in DOMAIN t /\ t[y] \in Seq(S) =>
            \A c \in 1 .. COLUMNS :
               q.ram[y][c] = IF c > Len(t[y]) THEN panel.ram[y][c] ELSE t[y][c]
  <2>1. q = StringDraw(panel, t)
    BY <1>2, <1>4, Zenon
  <2> QED BY <1>3, <2>1, DrawnLines
<1>6. ASSUME NEW i \in Items
      PROVE  RowFits(i)'
  <2>1. PICK v \in Int32 : v = values[i]
    OBVIOUS
  <2>2. shown'[i] = shown[i] \cup {v} /\ store'[i] = v
    BY <2>1, Zenon DEF Draws
  <2>3. PICK w \in Nat : w = Width(v)
    BY RowOfFits, Zenon
  <2>4. \A c \in 1 .. COLUMNS :
           q.ram[i][c] = IF c > 1 + w THEN panel.ram[i][c] ELSE RowOf(i, v)[c]
    <3>1. t[i] = RowOf(i, v) /\ i \in DOMAIN t /\ i \in Lines
      BY <1>1, <1>2, <2>1, Zenon
    <3>2. t[i] \in Seq(Plain) /\ Len(t[i]) = 1 + w
      BY <2>3, <3>1, RowOfFits, Zenon
    <3> QED BY <1>5, <3>1, <3>2, Zenon
  <2>5. shown[i] \in SUBSET Int32
    BY <1>3, Zenon DEF RowFits
  <2>6. shown'[i] \in SUBSET Int32 /\ shown'[i] # {} /\ v \in shown'[i]
    BY <2>2, <2>5, Zenon
  <2>7. \A c \in 1 .. COLUMNS : ~(c > 1 + w) => q.ram[i][c] = RowOf(i, v)[c]
    BY <2>4, Zenon
  <2>8. ASSUME NEW c \in 1 .. COLUMNS, \A u \in shown'[i] : c > 1 + Width(u)
        PROVE  q.ram[i][c] = Blank
    <3>1. c > 1 + w
      BY <2>3, <2>6, <2>8, Zenon
    <3>2. \A u \in shown[i] : c > 1 + Width(u)
      BY <2>2, <2>8, Zenon
    <3>3. panel.ram[i][c] = Blank
      BY <1>3, <3>2, Zenon DEF RowFits
    <3> QED BY <2>4, <3>1, <3>3, Zenon
  <2> QED BY <1>4, <2>2, <2>3, <2>6, <2>7, <2>8, Zenon DEF RowFits
<1> QED BY <1>4, <1>5, <1>6, Zenon DEF PanelFits

\* The machine's greeting is on the panel, whose rows of values are blank.
LEMMA StartsFit ==
    ASSUME PanelFits, M.pc = "off", M'.pc # "off", shown' = shown,
           panel' = StringDraw(RIT128x96x4Init(panel), [y \in {"title", "names"} |-> <<Word(y)>>])
    PROVE  PanelFits'
<1>1. Items \subseteq Lines /\ \A i \in Items : i \notin {"title", "names"}
  BY SerialAssumption
<1>2. PICK p : /\ p = RIT128x96x4Init(NoPanel) /\ IsOn(p)
               /\ \A y \in Lines, c \in 1 .. COLUMNS : p.ram[y][c] = Blank
  BY InitFits, Zenon
<1>3. PICK t, q : /\ q = panel' /\ q = StringDraw(p, t) /\ DOMAIN t = {"title", "names"}
  <2>1. PICK t : t = [y \in {"title", "names"} |-> <<Word(y)>>] /\ DOMAIN t = {"title", "names"}
    OBVIOUS
  <2>2. panel' = StringDraw(RIT128x96x4Init(NoPanel), t)
    BY <2>1, Zenon DEF PanelFits
  <2> QED BY <1>2, <2>1, <2>2, Zenon
<1>4. IsOn(q) /\ \A y \in Lines : y \notin DOMAIN t => q.ram[y] = p.ram[y]
  <2>1. IsOn(p) /\ q = StringDraw(p, t)
    BY <1>2, <1>3, Zenon
  <2> QED BY <2>1, DrawnLines
<1>5. \A i \in Items, c \in 1 .. COLUMNS : q.ram[i][c] = Blank
  BY <1>1, <1>2, <1>3, <1>4, ZenonT(60)
<1>6. \A i \in Items : shown'[i] = {}
  BY Zenon DEF PanelFits
<1>7. \A i \in Items : RowFits(i)'
  BY <1>3, <1>5, <1>6, Zenon DEF RowFits
<1> QED BY <1>3, <1>4, <1>7, Zenon DEF PanelFits

\* A blank column is no token of a text.
LEMMA BlankIsNoText == Blank \notin Plain
<1>1. Blank.kind = "blank" /\ Minus.kind = "minus" /\ Space.kind = "fill"
  BY DEF Blank, Minus, Space
<1>2. \A x : Word(x).kind = "word"
  BY DEF Word
<1>3. \A n : Digit(n).kind = "digit"
  BY DEF Digit
<1>4. "blank" # "minus" /\ "blank" # "fill" /\ "blank" # "word" /\ "blank" # "digit"
  OBVIOUS
<1> QED BY <1>1, <1>2, <1>3, <1>4, Zenon DEF Plain

\* What stands behind the name up to the first blank.
TextBehind(row) ==
    LET behind == { c \in 2 .. COLUMNS : row[c] = Blank }
        last == IF behind = {} THEN COLUMNS ELSE (CHOOSE c \in behind : \A d \in behind : c <= d) - 1
    IN SubSeq(row, 2, last)

\* The text behind a name is found in a row that is blank behind it.
LEMMA TextBehindFits ==
    ASSUME NEW S, NEW row \in [1 .. COLUMNS -> S], NEW text \in Seq(Plain), Len(text) < COLUMNS,
           \A k \in 1 .. Len(text) : row[k + 1] = text[k],
           \A c \in 1 .. COLUMNS : c > 1 + Len(text) => row[c] = Blank
    PROVE  TextBehind(row) = text
<1>0. COLUMNS \in Nat
  BY ScreenAssumption
<1> DEFINE behind == { c \in 2 .. COLUMNS : row[c] = Blank }
           last == IF behind = {} THEN COLUMNS ELSE (CHOOSE c \in behind : \A d \in behind : c <= d) - 1
<1>1. PICK w \in Nat : w = Len(text) /\ w < COLUMNS
  BY <1>0, LenProperties, Zenon
<1>2. \A k \in 1 .. w : row[k + 1] # Blank
  <2>1. \A k \in 1 .. w : text[k] \in Plain
    BY <1>1, ElementOfSeq, Zenon
  <2> QED BY <1>1, <2>1, BlankIsNoText, Zenon
<1>3. \A c \in 2 .. COLUMNS : c \in behind <=> c > 1 + w
  <2>1. \A c \in 2 .. COLUMNS : ~(c > 1 + w) => \E k \in 1 .. w : c = k + 1
    <3> TAKE c \in 2 .. COLUMNS
    <3> HAVE ~(c > 1 + w)
    <3>1. c - 1 \in 1 .. w /\ c = (c - 1) + 1
      BY <1>1
    <3> QED BY <3>1, Zenon
  <2>2. \A c \in 2 .. COLUMNS : c \in 1 .. COLUMNS
    OBVIOUS
  <2> QED BY <1>0, <1>1, <1>2, <2>1, <2>2, ZenonT(60)
<1>4. behind \subseteq 2 .. COLUMNS
  OBVIOUS
<1>5. last = w + 1
  <2>1. CASE w + 1 = COLUMNS
    <3>1. behind = {}
      BY <1>3, <1>4, <2>1
    <3> QED BY <2>1, <3>1, Zenon
  <2>2. CASE w + 1 # COLUMNS
    <3>1. w + 2 \in behind /\ \A e \in behind : w + 2 <= e
      <4>1. w + 2 \in 2 .. COLUMNS /\ w + 2 > 1 + w
        BY <1>0, <1>1, <2>2
      <4>2. \A e \in 2 .. COLUMNS : e > 1 + w => w + 2 <= e
        BY <1>0, <1>1
      <4> QED BY <1>3, <1>4, <4>1, <4>2, Zenon
    <3>2. (CHOOSE c \in behind : \A d \in behind : c <= d) = w + 2
      <4>1. \A c \in behind : (\A d \in behind : c <= d) => c = w + 2
        BY <1>1, <1>4, <3>1
      <4> QED BY <3>1, <4>1
    <3>3. last = (w + 2) - 1
      BY <3>1, <3>2, Zenon
    <3> QED BY <1>1, <3>3
  <2> QED BY <2>1, <2>2
<1>6. row \in Seq(S) /\ Len(row) = COLUMNS
  BY <1>0
<1>7. /\ SubSeq(row, 2, w + 1) \in Seq(S) /\ Len(SubSeq(row, 2, w + 1)) = w
      /\ \A k \in 1 .. w : SubSeq(row, 2, w + 1)[k] = row[k + 1]
  <2>1. PICK s \in Seq(S) : s = row
    BY <1>6, Zenon
  <2>2. w + 1 <= Len(s)
    BY <1>0, <1>1, <1>6, <2>1
  <2>3. /\ SubSeq(s, 2, w + 1) \in Seq(S) /\ Len(SubSeq(s, 2, w + 1)) = w
        /\ \A k \in 1 .. w : SubSeq(s, 2, w + 1)[k] = s[k + 1]
    BY <1>1, <2>2
  <2> QED BY <2>1, <2>3, Zenon
<1>8. PICK s \in Seq(S) : s = SubSeq(row, 2, w + 1) /\ Len(s) = Len(text)
                          /\ \A k \in 1 .. Len(s) : s[k] = text[k]
  BY <1>1, <1>7, Zenon
<1>9. s = text
  BY <1>8, SeqEqual
<1>10. TextBehind(row) = SubSeq(row, 2, last)
  BY <1>0, Zenon DEF TextBehind
<1> QED BY <1>5, <1>8, <1>9, <1>10, Zenon

\* The panel tells the machine's values.
LEMMA PanelTells ==
    ASSUME PanelFits, StoreFits
    PROVE  PanelShowsStore
<1> SUFFICES ASSUME NEW i \in Items, M.pc = "gets", shown[i] # {}, Width(store[i]) < COLUMNS,
                    \A v \in shown[i] : Width(v) <= Width(store[i])
             PROVE  Atoi(RowText(i)) = store[i]
  BY Zenon DEF PanelShowsStore, M
<1>1. PICK n \in Nat : n = COLUMNS
  BY ScreenAssumption
<1>2. PICK v \in Int32 : v = store[i]
  BY Zenon DEF StoreFits
<1>3. IsOn(panel) /\ RowFits(i)
  <2>1. M.pc # "off"
    OBVIOUS
  <2> QED BY <2>1, Zenon DEF PanelFits
<1>4. PICK text \in Seq(Plain) :
         /\ text = StringDecimal(v, 0, Space) /\ Len(text) = Width(v) /\ Len(text) \in Nat
         /\ \A k \in 1 .. Len(text) : RowOf(i, v)[k + 1] = text[k]
  <2>1. Len(StringDecimal(v, 0, Space)) = Width(v)
    BY DEF Width
  <2> QED BY <2>1, RowOfFits, Zenon
<1>5. PICK row : row = panel.ram[i] /\ row = [c \in 1 .. n |-> row[c]]
  <2>1. i \in Lines
    BY SerialAssumption, Zenon
  <2>2. panel.ram[i] = [c \in 1 .. n |-> panel.ram[i][c]]
    BY <1>1, <1>3, <2>1, Zenon DEF IsOn
  <2> QED BY <2>2, Zenon
<1>6. PICK S : row \in [1 .. n -> S]
  <2>1. row \in [1 .. n -> { row[c] : c \in 1 .. n }]
    BY <1>5
  <2> QED BY <2>1, Zenon
<1>7. \A k \in 1 .. Len(text) : row[k + 1] = text[k]
  <2>1. \A c \in 1 .. n : ~(c > 1 + Len(text)) => row[c] = RowOf(i, v)[c]
    BY <1>1, <1>2, <1>3, <1>4, <1>5, Zenon DEF RowFits
  <2>2. \A k \in 1 .. Len(text) : k + 1 \in 1 .. n /\ ~(k + 1 > 1 + Len(text))
    <3>1. Len(text) < n
      BY <1>1, <1>2, <1>4, Zenon
    <3> QED BY <1>4, <3>1
  <2> QED BY <1>4, <2>1, <2>2, Zenon
<1>8. \A c \in 1 .. n : c > 1 + Len(text) => row[c] = Blank
  <2> TAKE c \in 1 .. n
  <2> HAVE c > 1 + Len(text)
  <2>1. \A u \in shown[i] : c > 1 + Width(u)
    <3> TAKE u \in shown[i]
    <3>1. u \in Int32
      BY <1>3, Zenon DEF RowFits
    <3>2. PICK x \in Nat, l \in Nat : x = Width(u) /\ l = Len(text) /\ x <= l
      BY <1>2, <1>4, <3>1, RowOfFits, Zenon
    <3>3. c > 1 + x
      BY <3>2
    <3> QED BY <3>2, <3>3, Zenon
  <2> QED BY <1>1, <1>3, <1>5, <2>1, Zenon DEF RowFits
<1>9. RowText(i) = TextBehind(row)
  <2>1. RowText(i) = TextBehind(panel.ram[i])
    BY Zenon DEF RowText, TextBehind
  <2> QED BY <1>5, <2>1, Zenon
<1>10. Len(text) < n
  BY <1>1, <1>2, <1>4, Zenon
<1>11. TextBehind(row) = text
  BY <1>1, <1>6, <1>7, <1>8, <1>10, TextBehindFits
<1>12. Atoi(text) = v
  BY <1>4, AtoiUndoes, Zenon
<1> QED BY <1>2, <1>9, <1>11, <1>12, Zenon

\* The machine goes on.
LEMMA MachineGoesOn ==
    ASSUME PortsFit, MachinePut \/ MachineGets
    PROVE  M.pc # "off" /\ M'.pc # "off"
<1>1. B \in Ports /\ M \in Ports /\ port \in [Sides -> Ports]
  BY SidesFit, Zenon
<1>2. CASE Put("machine")
  <2>1. M.pc = "put" /\ M' = Sending(M)
    BY <1>1, <1>2, PutStep, Peers, Zenon DEF M
  <2>2. M'.pc = IF Len(M.out) = 1 THEN M.then ELSE "put"
    BY <1>1, <2>1, PortPuts, Zenon
  <2>3. M.then # "off"
    BY <1>1 DEF Ports, PortSet
  <2> QED BY <2>1, <2>2, <2>3
<1>3. CASE Gobble("machine")
  <2>1. M.pc = "gets" /\ M.rx # <<>> /\ M' = Handled(M, FALSE)
    BY <1>1, <1>3, GobbleStep, Peers, Zenon DEF M
  <2>2. M'.pc = M.pc
    BY <1>1, <2>1, PortHandles, Zenon
  <2> QED BY <2>1, <2>2
<1>4. CASE EndLine("machine")
  <2>1. PICK h \in Ports, tokens \in Texts : M.pc = "gets" /\ M' = Printing(h, tokens, "line")
    BY <1>1, <1>4, EndLineStep, EchoFits, Peers, Zenon DEF M, Texts
  <2>2. Printing(h, tokens, "line").pc = "put"
    BY PortPrints DEF Texts
  <2>3. M'.pc = "put"
    BY <2>1, <2>2, Zenon
  <2> QED BY <2>1, <2>3
<1>5. CASE Keep("machine") \/ Ignore("machine")
  <2>1. /\ M.pc = "gets" /\ M.rx # <<>> /\ Head(M.rx) \in Plain
        /\ \/ M' = Stored(Dropped(M), Head(M.rx)) /\ Len(M.buf) < LINE
           \/ M' = Dropped(M)
    BY <1>1, <1>5, KeepStep, IgnoreStep, Peers, Zenon DEF M
  <2>2. PICK d \in Ports, t \in Plain : /\ d = Dropped(M) /\ d.pc = M.pc /\ d.buf = M.buf
                                        /\ t = Head(M.rx)
    <3>1. Head(M.rx) \notin {CR, LF}
      BY <2>1, TokenKinds, Zenon
    <3> QED BY <1>1, <2>1, <3>1, PortKeeps, Zenon
  <2>3. Len(d.buf) < LINE => Stored(d, t).pc = d.pc
    BY PortStores, Zenon DEF Stored
  <2>4. M'.pc = "gets"
    BY <2>1, <2>2, <2>3, Zenon
  <2> QED BY <2>1, <2>4
<1> QED BY <1>2, <1>3, <1>4, <1>5, Zenon DEF MachinePut, MachineGets

\* A machine that answers is on, and stays on.
LEMMA MachineAnswers ==
    ASSUME PortsFit, MachineReads, NEW format, Answers(format)
    PROVE  M.pc # "off" /\ M'.pc # "off"
<1>1. port \in [Sides -> Ports] /\ "machine" \in Sides /\ M.pc = "line"
  BY Peers, Zenon DEF PortsFit, MachineReads, M
<1>2. M \in Ports
  BY SidesFit, Zenon
<1>3. M' = IF format = <<>> THEN [M EXCEPT !.pc = "gets", !.buf = <<>>]
           ELSE Printing([M EXCEPT !.buf = <<>>], UARTprintf(format), "gets")
  BY <1>1, Zenon DEF Answers, M
<1>4. [M EXCEPT !.pc = "gets", !.buf = <<>>].pc = "gets"
  BY <1>2 DEF Ports, PortSet
<1>5. PICK e : e = Emptied(M) /\ e \in Ports
  BY <1>2, PortEmpties, Zenon
<1>6. \A tokens : Printing(e, tokens, "gets").pc = "put"
  BY <1>5 DEF Ports, PortSet, Printing
<1>7. M'.pc = "gets" \/ M'.pc = "put"
  BY <1>3, <1>4, <1>5, <1>6, Zenon DEF Emptied
<1> QED BY <1>1, <1>7

\* A step that draws nothing and keeps the values keeps the panel true.
LEMMA PanelStays ==
    ASSUME PanelFits, UNCHANGED screen, store' = store, M'.pc = "off" <=> M.pc = "off"
    PROVE  PanelFits'
BY Zenon DEF PanelFits, RowFits, screen

-----------------------------------------------------------------------------
(* The theorems. *)

\* The invariant.
SerialFits == PortsFit /\ TornFits /\ StoreFits /\ PanelFits

\* It holds at the start.
LEMMA InitSerialFits == Init => SerialFits
<1> SUFFICES ASSUME Init PROVE SerialFits
  OBVIOUS
<1>1. Closed \in Ports
  <2>1. /\ Closed.rx = <<>> /\ Closed.out = <<>> /\ Closed.buf = <<>> /\ Closed.bLastWasCR = FALSE
        /\ Closed.pc = "off" /\ Closed.then = "idle"
    BY DEF Closed
  <2>2. Closed \in PortSet
    BY DEF Closed, PortSet
  <2>3. Len(<<>>) <= RX_FIFO /\ Len(<<>>) <= LINE
    BY SerialAssumption
  <2>4. ~("off" = "put")
    OBVIOUS
  <2> QED BY <2>1, <2>2, <2>3, <2>4, Zenon DEF Ports
<1>2. /\ B = Closed /\ M = Closed /\ port \in [Sides -> Ports] /\ owed = <<>> /\ torn = "never"
      /\ talk = [o \in Talkers |-> <<>>]
  BY <1>1, Peers, Zenon DEF Init, B, M
<1>3. /\ M.rx = <<>> /\ B.out = <<>> /\ M.buf = <<>> /\ M.pc = "off" /\ B.pc = "off"
  BY <1>2 DEF Closed
<1>4. talk \in [Talkers -> Seq(Tokens)] /\ Silent
  BY <1>2 DEF Silent
<1>5. PortsFit
  <2>1. B.pc # "put" /\ M.pc # "idle" /\ M.pc # "put"
    BY <1>3
  <2> QED BY <1>2, <1>4, <2>1, Zenon DEF PortsFit
<1>6. TornFits
  <2>1. ~HasLine /\ Rest = <<>>
    BY <1>3 DEF HasLine, Rest
  <2>2. Whole
    BY <1>2, <1>3, <1>4, <2>1, EmptyFits, Zenon
  <2>3. torn # "now"
    BY <1>2
  <2> QED BY <2>2, <2>3, Zenon DEF TornFits
<1>7. StoreFits
  BY SerialAssumption, Zenon DEF Init, StoreFits
<1>8. PanelFits
  BY <1>3, Zenon DEF Init, PanelFits
<1> QED BY <1>5, <1>6, <1>7, <1>8, Zenon DEF SerialFits

\* Each action of the two programs keeps the ports and the lines.
LEMMA NextLinesFit ==
    ASSUME SerialFits, Next
    PROVE  PortsFit' /\ TornFits'
<1>1. PortsFit /\ TornFits /\ StoreFits
  BY Zenon DEF SerialFits
<1>2. CASE BoardStarts \/ MachineStarts
  <2>1. torn' = torn /\ owed' = owed
    BY <1>2, Zenon DEF BoardStarts, MachineStarts, UARTStdioInit, history
  <2>2. PortsFit' /\ (Whole => Whole')
    BY <1>1, <1>2, BoardStartsFits, MachineStartsFits, Zenon DEF BoardStarts, MachineStarts
  <2> QED BY <1>1, <2>1, <2>2, KeepsTorn, Zenon
<1>3. CASE ComGoesOn
  BY <1>1, <1>3, ComGoesOnFits, Zenon
<1>4. CASE \/ \E id \in Items : GetFormMachine(id)
           \/ \E id \in Items, value \in Values : SendToMachine(id, value)
  BY <1>1, <1>4, CommandFits, Zenon
<1>5. ASSUME NEW o \in Talkers, Log(o) \/ LogPiece(o)
      PROVE  PortsFit' /\ TornFits'
  BY <1>1, <1>5, LogFits, LogPieceFits, Zenon
<1>6. ASSUME NEW o \in Talkers, TalkPut(o)
      PROVE  PortsFit' /\ TornFits'
  BY <1>1, <1>6, TalkPutFits, SendsOnFits, Zenon
<1>7. CASE Interrupt
  BY <1>1, <1>7, InterruptFits, Zenon
<1>8. CASE MachinePut \/ MachineGets
  BY <1>1, <1>8, MachineGoesOnFits, Zenon
<1>9. CASE HandleGet \/ HandleSet \/ HandleOther
  BY <1>1, <1>9, HandlesFit, Zenon
<1>10. Handler \in Talkers /\ \A o \in Others : o \in Talkers
  BY DEF Talkers
<1> QED BY <1>2, <1>3, <1>4, <1>5, <1>6, <1>7, <1>8, <1>9, <1>10, Zenon
        DEF Next, Board, Machine

\* The board neither draws, nor changes the machine's values, nor stops it.
LEMMA BoardDrawsNothing ==
    ASSUME SerialFits, Board
    PROVE  UNCHANGED screen /\ store' = store /\ M'.pc = M.pc
<1>1. PortsFit /\ TornFits
  BY Zenon DEF SerialFits
<1>2. CASE BoardStarts
  <2>1. M' = M
    BY <1>1, <1>2, BoardStartsFits, Zenon DEF BoardStarts
  <2> QED BY <1>2, <2>1, Zenon DEF BoardStarts, UARTStdioInit
<1>3. CASE ComGoesOn
  <2>1. M'.pc = M.pc
    BY <1>1, <1>3, ComGoesOnFits, Zenon
  <2> QED BY <1>3, <2>1, Zenon
          DEF ComGoesOn, BoardPut, BoardGets, LogLine, Put, Gobble, EndLine, Keep, Ignore
<1>4. CASE \/ \E id \in Items : GetFormMachine(id)
           \/ \E id \in Items, value \in Values : SendToMachine(id, value)
  <2>1. M' = M
    BY <1>1, <1>4, CommandFits, Zenon
  <2> QED BY <1>4, <2>1, Zenon DEF GetFormMachine, SendToMachine, Begins
<1>5. ASSUME NEW o \in Talkers, Log(o) \/ LogPiece(o) \/ TalkPut(o)
      PROVE  UNCHANGED screen /\ store' = store /\ M'.pc = M.pc
  <2>1. M'.pc = M.pc
    BY <1>1, <1>5, LogFits, LogPieceFits, TalkPutFits, Zenon
  <2> QED BY <1>5, <2>1, Zenon DEF Log, LogPiece, TalkPut, Talks
<1>6. CASE Interrupt
  <2>1. M' = M
    BY <1>1, <1>6, InterruptFits, Zenon
  <2> QED BY <1>6, <2>1, Zenon DEF Interrupt, Talks
<1>7. Handler \in Talkers /\ \A o \in Others : o \in Talkers
  BY DEF Talkers
<1> QED BY <1>2, <1>3, <1>4, <1>5, <1>6, <1>7, Zenon DEF Board

\* The store and the panel change together.
LEMMA NextPanelFits ==
    ASSUME SerialFits, Next
    PROVE  StoreFits' /\ PanelFits'
<1>1. PortsFit /\ StoreFits /\ PanelFits
  BY Zenon DEF SerialFits
<1>2. ASSUME UNCHANGED screen, store' = store, M'.pc = "off" <=> M.pc = "off"
      PROVE  StoreFits' /\ PanelFits'
  BY <1>1, <1>2, PanelStays, Zenon DEF StoreFits
<1>3. CASE Board
  BY <1>2, <1>3, BoardDrawsNothing, Zenon
<1>4. CASE MachineStarts
  <2>1. M.pc = "off" /\ M'.pc # "off" /\ store' = store
    BY <1>1, <1>4, MachineStartsFits, Zenon DEF MachineStarts, UARTStdioInit, M
  <2>2. PanelFits'
    BY <1>1, <1>4, <2>1, StartsFit, Zenon DEF MachineStarts
  <2> QED BY <1>1, <2>1, <2>2, Zenon DEF StoreFits
<1>5. CASE MachinePut \/ MachineGets
  <2>1. M.pc # "off" /\ M'.pc # "off"
    BY <1>1, <1>5, MachineGoesOn, Zenon
  <2> QED BY <1>2, <1>5, <2>1, Zenon
          DEF MachinePut, MachineGets, Put, Gobble, EndLine, Keep, Ignore
<1>6. CASE HandleGet
  <2>1. PICK format : MachineReads /\ Answers(format)
    BY <1>6, Zenon DEF HandleGet
  <2>2. M.pc # "off" /\ M'.pc # "off"
    BY <1>1, <2>1, MachineAnswers, Zenon
  <2>3. store' = store /\ store \in [Items -> Int32] /\ \E h : Draws(h, store)
    BY <1>1, <1>6, Zenon DEF HandleGet, StoreFits
  <2> QED BY <1>1, <2>2, <2>3, DrawsFit, Zenon DEF StoreFits
<1>7. CASE HandleSet
  <2>1. PICK format, heading, values :
           /\ MachineReads /\ Answers(format)
           /\ store' = values /\ Draws(heading, values)
    BY <1>7, Zenon DEF HandleSet
  <2>2. M.pc # "off" /\ M'.pc # "off"
    BY <1>1, <2>1, MachineAnswers, Zenon
  <2>3. StoreFits'
    BY <1>1, <1>7, HandleSetFits, Zenon
  <2>4. values \in [Items -> Int32]
    BY <2>1, <2>3, Zenon DEF StoreFits
  <2> QED BY <1>1, <2>1, <2>2, <2>3, <2>4, DrawsFit, Zenon
<1>8. CASE HandleOther
  <2>1. PICK format : MachineReads /\ Answers(format)
    BY <1>8, Zenon DEF HandleOther
  <2>2. M.pc # "off" /\ M'.pc # "off"
    BY <1>1, <2>1, MachineAnswers, Zenon
  <2>3. store' = store /\ store \in [Items -> Int32] /\ \E h : Draws(h, store)
    BY <1>1, <1>8, Zenon DEF HandleOther, StoreFits
  <2> QED BY <1>1, <2>2, <2>3, DrawsFit, Zenon DEF StoreFits
<1> QED BY <1>3, <1>4, <1>5, <1>6, <1>7, <1>8, Zenon DEF Next, Machine

\* Every step keeps it.
LEMMA NextSerialFits == SerialFits /\ [Next]_vars => SerialFits'
<1> SUFFICES ASSUME SerialFits, [Next]_vars PROVE SerialFits'
  OBVIOUS
<1>1. CASE Next
  BY <1>1, NextLinesFit, NextPanelFits, Zenon DEF SerialFits
<1>2. CASE UNCHANGED vars
  <2>1. /\ port' = port /\ talk' = talk /\ store' = store /\ panel' = panel /\ torn' = torn
        /\ owed' = owed /\ shown' = shown
    BY <1>2 DEF vars
  <2>2. B' = B /\ M' = M
    BY <2>1, Zenon DEF B, M
  <2>3. PortsFit'
    BY <2>1, <2>2, Zenon DEF SerialFits, PortsFit
  <2>4. (HasLine' <=> HasLine) /\ Rest' = Rest
    BY <2>2, Zenon DEF HasLine, Rest
  <2>5. PortsFit /\ TornFits
    BY Zenon DEF SerialFits
  <2>6. Whole => Whole'
    BY <2>1, <2>2, <2>4, <2>5, StandsFits, Zenon
  <2>7. TornFits'
    BY <2>1, <2>5, <2>6, KeepsTorn, Zenon
  <2>8. StoreFits' /\ PanelFits'
    BY <2>1, <2>2, PanelStays, Zenon DEF SerialFits, StoreFits, screen
  <2> QED BY <2>3, <2>7, <2>8, Zenon DEF SerialFits
<1> QED BY <1>1, <1>2, Zenon

\* The types, the lines and the panel, in every state.
THEOREM SerialAlwaysFits == Spec => []SerialFits
<1> QED BY InitSerialFits, NextSerialFits, PTL DEF Spec

\* It gives the types.
LEMMA FitsTypeOK == SerialFits => TypeOK
<1> SUFFICES ASSUME SerialFits PROVE TypeOK
  OBVIOUS
<1>1. ASSUME NEW s \in Sides
      PROVE  /\ Len(port[s].rx) <= RX_FIFO /\ Len(port[s].buf) <= LINE
             /\ port[s].bLastWasCR \in BOOLEAN
             /\ port[s].pc = "put" <=> port[s].out # <<>>
  <2>1. PICK p \in Ports : p = port[s]
    BY Zenon DEF SerialFits, PortsFit
  <2>2. p.bLastWasCR \in BOOLEAN
    BY DEF Ports, PortSet
  <2>3. Len(p.rx) <= RX_FIFO /\ Len(p.buf) <= LINE /\ (p.pc = "put" <=> p.out # <<>>)
    BY Zenon DEF Ports
  <2> QED BY <2>1, <2>2, <2>3, Zenon
<1>2. M.pc # "off" => panel.on
  <2> SUFFICES ASSUME M.pc # "off" PROVE panel.on
    OBVIOUS
  <2>1. panel = Panel(Yes, Yes, panel.ram)
    BY Zenon DEF SerialFits, PanelFits, IsOn
  <2>2. panel.on = Yes
    BY <2>1, PanelFields, SMT
  <2> QED BY <2>2, Zenon DEF Yes
<1> QED BY <1>1, <1>2, Zenon DEF TypeOK, SerialFits, StoreFits, M

\* What a port holds is within its limits and is sent while it is to be sent; the
\* machine holds numbers, and its display is on.
THEOREM SerialTypeCorrect == Spec => []TypeOK
<1> QED BY SerialAlwaysFits, FitsTypeOK, PTL

\* The machine reads just the lines that the board sent, in their order, from each
\* text that begins on a quiet line until texts of the board's tasks and its handler
\* meet on the line, one of them has no end, or a token of one is lost: UARTgets reads
\* a line as UARTwrite and the echoes sent it, whether its end is a CR, a CRLF or a CR
\* with a late LF.
THEOREM LinesAlwaysArrive == Spec => []LinesArrive
<1>1. SerialFits => LinesArrive
  BY Zenon DEF SerialFits, TornFits, Whole, OwedFits, LinesArrive, HasLine, M
<1> QED BY <1>1, SerialAlwaysFits, PTL

\* What stands behind a name on the panel, read as a number, is the value the
\* machine holds, unless a longer number stood there: convert, StringDraw and atoi
\* undo one another.
THEOREM PanelAlwaysTells == Spec => []PanelShowsStore
<1>1. SerialFits => PanelShowsStore
  BY PanelTells, Zenon DEF SerialFits
<1> QED BY <1>1, SerialAlwaysFits, PTL
=====================================================================================================================================================
