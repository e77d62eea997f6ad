--------------------------- MODULE Display_proofs ---------------------------
(***************************************************************************)
(* Proofs about Display, for any pages, lines and presses.                 *)
(*                                                                         *)
(* Whatever happens, the children of the page form a list without          *)
(* repetition, the widgets outside it hang behind each other without a     *)
(* cycle, and the lines of the list are those whose memory is in use.  As  *)
(* long as the tasks do not overlap and no page button is pressed, nothing *)
(* hangs behind a widget outside the list and what is in it has a parent.  *)
(* What is shown of a page is what came of it (PInv), page buttons or not. *)
(***************************************************************************)
EXTENDS Display, WellFoundedInduction, SequenceTheorems, TLAPS

-----------------------------------------------------------------------------
(* Numbers, and sequences without repetition. *)

\* A set of numbers has a least one.
LEMMA LeastNumber ==
    ASSUME NEW T, T \subseteq Nat, T # {}
    PROVE  \E k \in T : \A j \in T : k <= j
<1> DEFINE R == OpToRel(<, Nat)
<1>1. IsWellFoundedOn(R, Nat)
  BY NatLessThanWellFounded, Zenon
<1>2. \A x, y \in Nat : <<y, x>> \in R <=> y < x
  BY DEF OpToRel
<1> HIDE DEF R
<1>3. PICK x \in T : \A y \in T : ~(<<y, x>> \in R)
  BY <1>1, WFMin
<1>4. \A y \in T : x \in Nat /\ y \in Nat /\ ~(y < x)
  BY <1>2, <1>3
<1> QED BY <1>4

DupFree(c) == \A j, k \in DOMAIN c : c[j] = c[k] => j = k

LEMMA PlaceOf ==
    ASSUME NEW W, NEW c \in Seq(W), NEW w, w \in ToSet(c)
    PROVE  Place(c, w) \in 1 .. Len(c) /\ c[Place(c, w)] = w
<1>1. \E k \in DOMAIN c : c[k] = w
  BY DEF ToSet
<1>2. Place(c, w) \in DOMAIN c /\ c[Place(c, w)] = w
  BY <1>1, Zenon DEF Place
<1> QED BY <1>2

\* The first p of a sequence.
LEMMA Kept ==
    ASSUME NEW W, NEW c \in Seq(W), DupFree(c), NEW p \in 1 .. Len(c)
    PROVE  LET s == SubSeq(c, 1, p)
           IN /\ s \in Seq(W) /\ Len(s) = p /\ DupFree(s)
              /\ \A i \in 1 .. p : s[i] = c[i]
              /\ ToSet(s) = { c[i] : i \in 1 .. p }
<1> DEFINE s == SubSeq(c, 1, p)
<1>1. s \in Seq(W) /\ Len(s) = p /\ \A i \in 1 .. p : s[i] = c[i]
  OBVIOUS
<1>2. DOMAIN s = 1 .. p /\ 1 .. p \subseteq DOMAIN c
  BY <1>1
<1> HIDE DEF s
<1>3. DupFree(s)
  BY <1>1, <1>2 DEF DupFree
<1>4. ToSet(s) = { c[i] : i \in 1 .. p }
  BY <1>1, <1>2, Zenon DEF ToSet
<1> QED BY <1>1, <1>3, <1>4 DEF s

\* One sequence after another that has nothing in common with it.
LEMMA Joined ==
    ASSUME NEW W, NEW c \in Seq(W), NEW t \in Seq(W), DupFree(c), DupFree(t),
           ToSet(t) \cap ToSet(c) = {}
    PROVE  /\ c \o t \in Seq(W) /\ DupFree(c \o t)
           /\ ToSet(c \o t) = ToSet(c) \cup ToSet(t)
           /\ Len(c \o t) = Len(c) + Len(t)
           /\ t # <<>> => c \o t # <<>> /\ Last(c \o t) = Last(t)
<1> DEFINE s == c \o t
<1>1. s \in Seq(W) /\ Len(s) = Len(c) + Len(t) /\ Len(c) \in Nat /\ Len(t) \in Nat
  OBVIOUS
<1>2. /\ \A i \in 1 .. Len(c) : s[i] = c[i]
      /\ \A i \in 1 .. Len(t) : s[Len(c) + i] = t[i]
  OBVIOUS
<1>3. DOMAIN s = 1 .. Len(s) /\ DOMAIN c = 1 .. Len(c) /\ DOMAIN t = 1 .. Len(t)
  BY <1>1
<1> HIDE DEF s
<1>4. \A i \in 1 .. Len(s) : i \in 1 .. Len(c) \/ \E j \in 1 .. Len(t) : i = Len(c) + j
  <2> TAKE i \in 1 .. Len(s)
  <2>1. i \in 1 .. Len(c) \/ (i - Len(c) \in 1 .. Len(t) /\ i = Len(c) + (i - Len(c)))
    BY <1>1
  <2> QED BY <2>1, Zenon
<1>5. \A i \in 1 .. Len(c), j \in 1 .. Len(t) : i \in 1 .. Len(s) /\ Len(c) + j \in 1 .. Len(s)
  BY <1>1
<1>6. \A i \in 1 .. Len(c), j \in 1 .. Len(t) : c[i] # t[j]
  BY <1>3, Zenon DEF ToSet
<1>7. DupFree(s)
  <2> SUFFICES ASSUME NEW i \in 1 .. Len(s), NEW j \in 1 .. Len(s), s[i] = s[j]
               PROVE  i = j
    BY <1>3, Zenon DEF DupFree
  <2>0. /\ \A a, b \in 1 .. Len(c) : c[a] = c[b] => a = b
        /\ \A a, b \in 1 .. Len(t) : t[a] = t[b] => a = b
    BY <1>3, Zenon DEF DupFree
  <2>1. CASE i \in 1 .. Len(c) /\ j \in 1 .. Len(c)
    <3>1. s[i] = c[i] /\ s[j] = c[j]
      BY <1>2, <2>1, Zenon
    <3> QED BY <2>0, <2>1, <3>1, Zenon
  <2>2. CASE \E a, b \in 1 .. Len(t) : i = Len(c) + a /\ j = Len(c) + b
    <3>1. PICK a \in 1 .. Len(t), b \in 1 .. Len(t) : i = Len(c) + a /\ j = Len(c) + b
      BY <2>2, Zenon
    <3>2. s[i] = t[a] /\ s[j] = t[b]
      BY <1>2, <3>1, Zenon
    <3>3. a = b
      BY <2>0, <3>2, Zenon
    <3> QED BY <3>1, <3>3, Zenon
  <2>3. CASE i \in 1 .. Len(c) /\ \E b \in 1 .. Len(t) : j = Len(c) + b
    <3>1. PICK b \in 1 .. Len(t) : j = Len(c) + b
      BY <2>3, Zenon
    <3>2. s[i] = c[i] /\ s[j] = t[b]
      BY <1>2, <2>3, <3>1, Zenon
    <3> QED BY <1>6, <2>3, <3>2, Zenon
  <2>4. CASE j \in 1 .. Len(c) /\ \E b \in 1 .. Len(t) : i = Len(c) + b
    <3>1. PICK b \in 1 .. Len(t) : i = Len(c) + b
      BY <2>4, Zenon
    <3>2. s[j] = c[j] /\ s[i] = t[b]
      BY <1>2, <2>4, <3>1, Zenon
    <3> QED BY <1>6, <2>4, <3>2, Zenon
  <2> QED BY <1>4, <2>1, <2>2, <2>3, <2>4, Zenon
<1>8. ToSet(s) = ToSet(c) \cup ToSet(t)
  <2>1. ToSet(s) \subseteq ToSet(c) \cup ToSet(t)
    <3> SUFFICES ASSUME NEW i \in 1 .. Len(s) PROVE s[i] \in ToSet(c) \cup ToSet(t)
      BY <1>3, Zenon DEF ToSet
    <3>1. CASE i \in 1 .. Len(c)
      BY <1>2, <1>3, <3>1, Zenon DEF ToSet
    <3>2. CASE \E j \in 1 .. Len(t) : i = Len(c) + j
      <4>1. PICK j \in 1 .. Len(t) : i = Len(c) + j
        BY <3>2, Zenon
      <4>2. s[i] = t[j]
        BY <1>2, <4>1, Zenon
      <4> QED BY <1>3, <4>2, Zenon DEF ToSet
    <3> QED BY <1>4, <3>1, <3>2, Zenon
  <2>2. ToSet(c) \subseteq ToSet(s)
    <3> SUFFICES ASSUME NEW i \in 1 .. Len(c) PROVE c[i] \in ToSet(s)
      BY <1>3, Zenon DEF ToSet
    <3>1. i \in 1 .. Len(s)
      BY <1>1
    <3> QED BY <1>2, <1>3, <3>1, Zenon DEF ToSet
  <2>3. ToSet(t) \subseteq ToSet(s)
    <3> SUFFICES ASSUME NEW i \in 1 .. Len(t) PROVE t[i] \in ToSet(s)
      BY <1>3, Zenon DEF ToSet
    <3>1. Len(c) + i \in 1 .. Len(s)
      BY <1>1
    <3> QED BY <1>2, <1>3, <3>1, Zenon DEF ToSet
  <2> QED BY <2>1, <2>2, <2>3
<1>9. t # <<>> => s # <<>> /\ Last(s) = Last(t)
  <2> SUFFICES ASSUME t # <<>> PROVE s # <<>> /\ Last(s) = Last(t)
    OBVIOUS
  <2>1. Len(t) \in 1 .. Len(t) /\ Len(s) # 0
    BY <1>1
  <2>2. s[Len(s)] = t[Len(t)]
    BY <1>1, <1>2, <2>1, Zenon
  <2> QED BY <2>1, <2>2 DEF Last
<1> QED BY <1>1, <1>7, <1>8, <1>9 DEF s

\* A sequence without one of its elements.
LEMMA WithoutOne ==
    ASSUME NEW W, NEW c \in Seq(W), DupFree(c), NEW w
    PROVE  /\ Without(c, w) \in Seq(W) /\ DupFree(Without(c, w))
           /\ ToSet(Without(c, w)) = ToSet(c) \ {w}
<1>1. CASE w \notin ToSet(c)
  BY <1>1 DEF Without
<1>2. CASE w \in ToSet(c)
  <2>1. PICK p \in 1 .. Len(c) : p = Place(c, w) /\ c[p] = w
    BY <1>2, PlaceOf
  <2> DEFINE a == SubSeq(c, 1, p - 1)
             b == SubSeq(c, p + 1, Len(c))
  <2>2. /\ a \in Seq(W) /\ Len(a) = p - 1 /\ DOMAIN a = 1 .. p - 1
        /\ \A i \in 1 .. p - 1 : a[i] = c[i]
    OBVIOUS
  <2>3. /\ b \in Seq(W) /\ Len(b) = Len(c) - p /\ DOMAIN b = 1 .. Len(c) - p
        /\ \A i \in 1 .. Len(c) - p : b[i] = c[p + i]
    OBVIOUS
  <2>4. Without(c, w) = a \o b
    BY <1>2, <2>1 DEF Without, RemoveAt
  <2> HIDE DEF a, b
  <2>5. DOMAIN c = 1 .. Len(c) /\ Len(c) \in Nat
    OBVIOUS
  <2>6. DupFree(a)
    <3>1. \A i \in 1 .. p - 1 : i \in 1 .. Len(c)
      BY <2>5
    <3> QED BY <2>2, <2>5, <3>1 DEF DupFree
  <2>7. DupFree(b)
    <3>1. \A i \in 1 .. Len(c) - p : p + i \in 1 .. Len(c)
      BY <2>5
    <3>2. \A i, j \in 1 .. Len(c) - p : p + i = p + j => i = j
      BY <2>5
    <3> SUFFICES ASSUME NEW i \in 1 .. Len(c) - p, NEW j \in 1 .. Len(c) - p, b[i] = b[j]
                 PROVE  i = j
      BY <2>3, Zenon DEF DupFree
    <3>3. c[p + i] = c[p + j]
      BY <2>3, Zenon
    <3>4. p + i = p + j
      BY <2>5, <3>1, <3>3, Zenon DEF DupFree
    <3> QED BY <3>2, <3>4, Zenon
  <2>8. ToSet(b) \cap ToSet(a) = {}
    <3>1. \A i \in 1 .. p - 1, j \in 1 .. Len(c) - p :
              i \in 1 .. Len(c) /\ p + j \in 1 .. Len(c) /\ i # p + j
      BY <2>5
    <3>2. ASSUME NEW i \in 1 .. p - 1, NEW j \in 1 .. Len(c) - p PROVE a[i] # b[j]
      <4>1. a[i] = c[i] /\ b[j] = c[p + j]
        BY <2>2, <2>3, Zenon
      <4>2. c[i] = c[p + j] => i = p + j
        BY <2>5, <3>1, Zenon DEF DupFree
      <4> QED BY <3>1, <4>1, <4>2, Zenon
    <3>3. \A v \in ToSet(a) : \E i \in 1 .. p - 1 : v = a[i]
      BY <2>2, Zenon DEF ToSet
    <3>4. \A v \in ToSet(b) : \E i \in 1 .. Len(c) - p : v = b[i]
      BY <2>3, Zenon DEF ToSet
    <3> QED BY <3>2, <3>3, <3>4
  <2>9. ToSet(a) \cup ToSet(b) = ToSet(c) \ {w}
    <3>1. ToSet(a) \subseteq ToSet(c) \ {w}
      <4> SUFFICES ASSUME NEW i \in 1 .. p - 1 PROVE c[i] \in ToSet(c) \ {w}
        BY <2>2, Zenon DEF ToSet
      <4>1. i \in 1 .. Len(c) /\ i # p
        BY <2>5
      <4>2. c[i] = c[p] => i = p
        BY <2>5, <4>1, Zenon DEF DupFree
      <4> QED BY <2>1, <2>5, <4>1, <4>2, Zenon DEF ToSet
    <3>2. ToSet(b) \subseteq ToSet(c) \ {w}
      <4> SUFFICES ASSUME NEW i \in 1 .. Len(c) - p PROVE c[p + i] \in ToSet(c) \ {w}
        BY <2>3, Zenon DEF ToSet
      <4>1. p + i \in 1 .. Len(c) /\ p + i # p
        BY <2>5
      <4>2. c[p + i] = c[p] => p + i = p
        BY <2>5, <4>1, Zenon DEF DupFree
      <4> QED BY <2>1, <2>5, <4>1, <4>2, Zenon DEF ToSet
    <3>3. ToSet(c) \ {w} \subseteq ToSet(a) \cup ToSet(b)
      <4> SUFFICES ASSUME NEW i \in 1 .. Len(c), i # p
                   PROVE  c[i] \in ToSet(a) \cup ToSet(b)
        BY <2>1, <2>5, Zenon DEF ToSet
      <4>1. CASE i < p
        <5>1. i \in 1 .. p - 1
          BY <2>5, <4>1
        <5> QED BY <2>2, <5>1, Zenon DEF ToSet
      <4>2. CASE i > p
        <5>1. i - p \in 1 .. Len(c) - p /\ p + (i - p) = i
          BY <2>5, <4>2
        <5>2. b[i - p] = c[i]
          BY <2>3, <5>1, Zenon
        <5> QED BY <2>3, <5>1, <5>2, Zenon DEF ToSet
      <4> QED BY <2>5, <4>1, <4>2
    <3> QED BY <3>1, <3>2, <3>3
  <2> QED BY <2>2, <2>3, <2>4, <2>6, <2>7, <2>8, <2>9, Joined
<1> QED BY <1>1, <1>2

-----------------------------------------------------------------------------
(* What hangs behind a widget. *)

Nexts == [Widgets -> Widgets \cup {None}]

NoCycle(f) == \A S \in SUBSET Widgets : S # {} => \E w \in S : f[w] \notin S

\* s is what hangs behind v when each widget w is followed by f[w].
Hangs(f, v, s) ==
    /\ s \in Seq(Widgets) /\ s # <<>> /\ s[1] = v
    /\ \A i \in 1 .. Len(s) - 1 : s[i + 1] = f[s[i]]
    /\ f[s[Len(s)]] = None

LEMMA NoneNoWidget == None \notin Widgets
BY DEF None, Widgets, Menu, Save, Up, Down, Title, Label, Value

LEMMA HangsLast ==
    ASSUME NEW f \in Nexts, NEW v \in Widgets, f[v] = None
    PROVE  Hangs(f, v, <<v>>)
BY DEF Hangs

LEMMA HangsMore ==
    ASSUME NEW f \in Nexts, NEW v \in Widgets, NEW s, Hangs(f, f[v], s)
    PROVE  Hangs(f, v, <<v>> \o s)
<1> DEFINE t == <<v>> \o s
<1>1. s \in Seq(Widgets) /\ Len(s) \in Nat \ {0} /\ s[1] = f[v]
  BY DEF Hangs
<1>2. t \in Seq(Widgets) /\ Len(t) = Len(s) + 1 /\ t[1] = v
  BY <1>1
<1>3. \A i \in 1 .. Len(s) : t[i + 1] = s[i]
  BY <1>1
<1> HIDE DEF t
<1>4. t # <<>>
  BY <1>1, <1>2
<1>5. ASSUME NEW i \in 1 .. Len(t) - 1 PROVE t[i + 1] = f[t[i]]
  <2>1. i \in 1 .. Len(s)
    BY <1>1, <1>2
  <2>2. CASE i = 1
    BY <1>1, <1>2, <1>3, <2>1, <2>2, Zenon
  <2>3. CASE i # 1
    <3>1. i - 1 \in 1 .. Len(s) - 1 /\ i - 1 \in 1 .. Len(s) /\ (i - 1) + 1 = i
      BY <1>1, <2>1, <2>3
    <3>2. s[(i - 1) + 1] = f[s[i - 1]]
      BY <3>1, Zenon DEF Hangs
    <3>3. t[(i - 1) + 1] = s[i - 1]
      BY <1>3, <3>1, Zenon
    <3>4. t[i + 1] = s[i]
      BY <1>3, <2>1, Zenon
    <3> QED BY <3>1, <3>2, <3>3, <3>4, Zenon
  <2> QED BY <2>2, <2>3
<1>6. f[t[Len(t)]] = None
  <2>1. Len(s) \in 1 .. Len(s) /\ Len(t) = Len(s) + 1
    BY <1>1, <1>2
  <2>2. t[Len(s) + 1] = s[Len(s)]
    BY <1>3, <2>1, Zenon
  <2> QED BY <2>1, <2>2, Zenon DEF Hangs
<1> QED BY <1>2, <1>4, <1>5, <1>6, Zenon DEF Hangs, t

\* Without a cycle something hangs behind every widget: at least itself.
LEMMA HangsExists ==
    ASSUME NEW f \in Nexts, NoCycle(f)
    PROVE  \A v \in Widgets : \E s : Hangs(f, v, s)
<1> DEFINE S == {v \in Widgets : ~ \E s : Hangs(f, v, s)}
<1> SUFFICES ASSUME S # {} PROVE FALSE
  BY Zenon
<1>1. PICK w \in S : f[w] \notin S
  BY Zenon DEF NoCycle
<1>2. w \in Widgets /\ ~ \E s : Hangs(f, w, s)
  BY <1>1, Zenon
<1>3. f[w] # None
  BY <1>2, HangsLast, Zenon
<1>4. f[w] \in Widgets
  BY <1>2, <1>3 DEF Nexts
<1>5. \E s : Hangs(f, f[w], s)
  BY <1>1, <1>4, Zenon
<1>6. PICK s : Hangs(f, f[w], s)
  BY <1>5, Zenon
<1>7. Hangs(f, w, <<w>> \o s)
  BY <1>2, <1>6, HangsMore, Zenon
<1> QED BY <1>2, <1>7, Zenon

LEMMA HangsFirst ==
    ASSUME NEW f \in Nexts, NEW v \in Widgets, NEW s, Hangs(f, v, s)
    PROVE  \/ f[v] = None /\ s = <<v>>
           \/ f[v] # None /\ \E t : Hangs(f, f[v], t) /\ s = <<v>> \o t
<1>1. s \in Seq(Widgets) /\ Len(s) \in Nat \ {0} /\ s[1] = v
  BY DEF Hangs
<1>2. CASE Len(s) = 1
  <2>1. s = <<v>>
    BY <1>1, <1>2
  <2>2. f[v] = None
    BY <1>1, <1>2, Zenon DEF Hangs
  <2> QED BY <2>1, <2>2
<1>3. CASE Len(s) # 1
  <2>1. Len(s) - 1 \in Nat \ {0} /\ 1 \in 1 .. Len(s) - 1 /\ 1 + 1 = 2 /\ 2 \in 1 .. Len(s)
    <3>1. PICK n \in Nat : n = Len(s)
      BY <1>1
    <3>2. n - 1 \in Nat \ {0} /\ 1 \in 1 .. n - 1 /\ 2 \in 1 .. n
      BY <1>1, <1>3, <3>1
    <3> QED BY <3>1, <3>2
  <2>2. s[2] = f[v]
    BY <1>1, <2>1, Zenon DEF Hangs
  <2>3. f[v] \in Widgets /\ f[v] # None
    <3>1. s[2] \in Widgets
      BY <1>1, <2>1
    <3> QED BY <2>2, <3>1, NoneNoWidget, Zenon
  <2> DEFINE t == Tail(s)
  <2>4. t \in Seq(Widgets) /\ Len(t) = Len(s) - 1
    BY <1>1
  <2>5. \A i \in 1 .. Len(t) : t[i] = s[i + 1]
    BY <1>1
  <2> HIDE DEF t
  <2>6. Hangs(f, f[v], t)
    <3>1. t # <<>> /\ 1 \in 1 .. Len(t) /\ Len(t) \in 1 .. Len(t) /\ Len(t) + 1 = Len(s)
      BY <1>1, <2>1, <2>4
    <3>2. t[1] = f[v]
      BY <2>1, <2>2, <2>5, <3>1, Zenon
    <3>3. t[Len(t)] = s[Len(s)]
      BY <2>5, <3>1, Zenon
    <3>4. ASSUME NEW i \in 1 .. Len(t) - 1 PROVE t[i + 1] = f[t[i]]
      <4>1. i \in 1 .. Len(t) /\ i + 1 \in 1 .. Len(t) /\ i + 1 \in 1 .. Len(s) - 1
        BY <1>1, <2>4
      <4>2. s[(i + 1) + 1] = f[s[i + 1]]
        BY <4>1, Zenon DEF Hangs
      <4> QED BY <2>5, <4>1, <4>2, Zenon
    <3> QED BY <2>4, <3>1, <3>2, <3>3, <3>4, Zenon DEF Hangs
  <2>7. s = <<v>> \o t
    <3> DEFINE u == <<v>> \o t
    <3>1. u \in Seq(Widgets) /\ Len(u) = Len(s) /\ u[1] = s[1]
      BY <1>1, <2>4
    <3>2. \A i \in 1 .. Len(t) : u[i + 1] = t[i]
      BY <2>4
    <3> HIDE DEF u
    <3>3. ASSUME NEW i \in 1 .. Len(s) PROVE u[i] = s[i]
      <4>1. CASE i = 1
        BY <3>1, <4>1, Zenon
      <4>2. CASE i # 1
        <5>1. i - 1 \in 1 .. Len(t) /\ (i - 1) + 1 = i
          BY <1>1, <2>4, <4>2
        <5> QED BY <2>5, <3>2, <5>1, Zenon
      <4> QED BY <4>1, <4>2
    <3>4. u = s
      BY <1>1, <3>1, <3>3, SeqEqual
    <3> QED BY <3>4, Zenon DEF u
  <2> QED BY <2>3, <2>6, <2>7, Zenon
<1> QED BY <1>2, <1>3

\* Only one sequence hangs behind a widget.
LEMMA HangsOnce ==
    ASSUME NEW f \in Nexts, NoCycle(f), NEW v \in Widgets,
           NEW s, NEW t, Hangs(f, v, s), Hangs(f, v, t)
    PROVE  s = t
<1>0. ASSUME NEW w \in Widgets, NEW c, Hangs(f, w, c)
      PROVE  \/ f[w] = None /\ c = <<w>>
             \/ f[w] # None /\ \E r : Hangs(f, f[w], r) /\ c = <<w>> \o r
  BY <1>0, HangsFirst
<1> DEFINE Twice(w) == \E a, b : Hangs(f, w, a) /\ Hangs(f, w, b) /\ a # b
           S == {w \in Widgets : Twice(w)}
<1> SUFFICES ASSUME S # {} PROVE FALSE
  BY Zenon
<1>1. PICK w \in S : f[w] \notin S
  BY Zenon DEF NoCycle
<1>2. w \in Widgets /\ Twice(w)
  BY <1>1, Zenon
<1>3. PICK a, b : Hangs(f, w, a) /\ Hangs(f, w, b) /\ a # b
  BY <1>2, Zenon
<1>4. /\ \/ f[w] = None /\ a = <<w>>
         \/ f[w] # None /\ \E r : Hangs(f, f[w], r) /\ a = <<w>> \o r
      /\ \/ f[w] = None /\ b = <<w>>
         \/ f[w] # None /\ \E r : Hangs(f, f[w], r) /\ b = <<w>> \o r
  BY <1>0, <1>2, <1>3, Zenon
<1>4a. f[w] # None
  BY <1>3, <1>4, Zenon
<1>5. f[w] \in Widgets /\ ~Twice(f[w])
  BY <1>1, <1>2, <1>4a DEF Nexts
<1>6. PICK c : Hangs(f, f[w], c) /\ a = <<w>> \o c
  BY <1>3, <1>4, <1>4a, Zenon
<1>7. PICK e : Hangs(f, f[w], e) /\ b = <<w>> \o e
  BY <1>3, <1>4, <1>4a, Zenon
<1>8. c = e
  BY <1>5, <1>6, <1>7, Zenon
<1> QED BY <1>3, <1>6, <1>7, <1>8, Zenon

\* And it does not come back.
LEMMA HangsApart ==
    ASSUME NEW f \in Nexts, NoCycle(f), NEW v \in Widgets, NEW s, Hangs(f, v, s)
    PROVE  DupFree(s)
<1>1. s \in Seq(Widgets) /\ Len(s) \in Nat \ {0} /\ DOMAIN s = 1 .. Len(s)
  BY DEF Hangs
<1>2. ASSUME NEW i \in 1 .. Len(s), NEW j \in 1 .. Len(s), i < j, s[i] = s[j]
      PROVE  FALSE
  <2> DEFINE S == {s[k] : k \in i .. j - 1}
  <2>1. \A k \in i .. j - 1 : k \in 1 .. Len(s) /\ k \in 1 .. Len(s) - 1
    BY <1>1, <1>2
  <2>2. S \in SUBSET Widgets
    BY <1>1, <2>1
  <2>3. i \in i .. j - 1
    BY <1>1, <1>2
  <2>4. S # {}
    BY <2>3
  <2>5. PICK w \in S : f[w] \notin S
    BY <2>2, <2>4, Zenon DEF NoCycle
  <2>6. PICK k \in i .. j - 1 : w = s[k]
    BY <2>5, Zenon
  <2>7. f[w] = s[k + 1]
    BY <2>1, <2>6, Zenon DEF Hangs
  <2>8. CASE k = j - 1
    <3>1. k + 1 = j
      BY <1>1, <2>8
    <3> QED BY <1>2, <2>3, <2>5, <2>7, <3>1, Zenon
  <2>9. CASE k # j - 1
    <3>1. k + 1 \in i .. j - 1
      BY <1>1, <2>9
    <3> QED BY <2>5, <2>7, <3>1, Zenon
  <2> QED BY <2>8, <2>9
<1>3. SUFFICES ASSUME NEW i \in 1 .. Len(s), NEW j \in 1 .. Len(s), s[i] = s[j]
               PROVE  i = j
  BY <1>1, Zenon DEF DupFree
<1>4. ~(i < j) /\ ~(j < i)
  BY <1>2, <1>3, Zenon
<1> QED BY <1>1, <1>4

\* The function of Hanging.
Tails(f, h) ==
    h = [v \in Widgets |-> IF f[v] = None THEN <<v>> ELSE <<v>> \o h[f[v]]]

LEMMA TailsExist ==
    ASSUME NEW f \in Nexts, NoCycle(f)
    PROVE  \E h : Tails(f, h)
<1> DEFINE P(v, s) == Hangs(f, v, s)
           h == [v \in Widgets |-> CHOOSE s : P(v, s)]
<1>1. \A v \in Widgets : P(v, h[v])
  BY HangsExists, Zenon
<1>2. h = [v \in Widgets |-> h[v]]
  OBVIOUS
<1> HIDE DEF h
<1>3. ASSUME NEW v \in Widgets
      PROVE  h[v] = IF f[v] = None THEN <<v>> ELSE <<v>> \o h[f[v]]
  <2>1. CASE f[v] = None
    BY <1>1, <2>1, HangsFirst, Zenon
  <2>2. CASE f[v] # None
    <3>1. f[v] \in Widgets
      BY <2>2 DEF Nexts
    <3>2. Hangs(f, v, <<v>> \o h[f[v]]) /\ Hangs(f, v, h[v])
      BY <1>1, <3>1, HangsMore, Zenon
    <3>3. h[v] = <<v>> \o h[f[v]]
      BY <3>2, HangsOnce, Zenon
    <3> QED BY <2>2, <3>3
  <2> QED BY <2>1, <2>2
<1>4. [v \in Widgets |-> h[v]] = [v \in Widgets |-> IF f[v] = None THEN <<v>> ELSE <<v>> \o h[f[v]]]
  BY <1>3, Zenon
<1> QED BY <1>2, <1>4, Zenon DEF Tails

LEMMA TailsHang ==
    ASSUME NEW f \in Nexts, NoCycle(f), NEW h, Tails(f, h)
    PROVE  \A v \in Widgets : Hangs(f, v, h[v])
<1> DEFINE S == {v \in Widgets : ~Hangs(f, v, h[v])}
<1> SUFFICES ASSUME S # {} PROVE FALSE
  BY Zenon
<1>1. PICK w \in S : f[w] \notin S
  BY Zenon DEF NoCycle
<1>2. w \in Widgets /\ ~Hangs(f, w, h[w])
  BY <1>1, Zenon
<1>3. h[w] = IF f[w] = None THEN <<w>> ELSE <<w>> \o h[f[w]]
  BY <1>2, Zenon DEF Tails
<1>4. CASE f[w] = None
  BY <1>2, <1>3, <1>4, HangsLast, Zenon
<1>5. CASE f[w] # None
  <2>1. f[w] \in Widgets
    BY <1>2, <1>5 DEF Nexts
  <2>2. Hangs(f, f[w], h[f[w]])
    BY <1>1, <2>1, Zenon
  <2>3. Hangs(f, w, <<w>> \o h[f[w]])
    BY <1>2, <2>2, HangsMore, Zenon
  <2> QED BY <1>2, <1>3, <1>5, <2>3, Zenon
<1> QED BY <1>4, <1>5

\* What Hanging returns.
LEMMA HangingHangs ==
    ASSUME NEW d, d.loose \in Nexts, NoCycle(d.loose), NEW w \in Widgets
    PROVE  /\ Hangs(d.loose, w, Hanging(d, w)) /\ DupFree(Hanging(d, w))
           /\ d.loose[w] = None => Hanging(d, w) = <<w>>
<1> DEFINE f == d.loose
           h == CHOOSE g : Tails(f, g)
<1>1. Tails(f, h)
  BY TailsExist, Zenon
<1>2. Hanging(d, w) = h[w]
  BY DEF Hanging, Tails
<1> HIDE DEF h
<1>3. Hangs(f, w, h[w])
  BY <1>1, TailsHang, Zenon
<1> HIDE DEF f
<1>4. f \in Nexts /\ NoCycle(f)
  BY DEF f
<1>5. DupFree(h[w])
  BY <1>3, <1>4, HangsApart, Zenon
<1>6. f[w] = None => h[w] = <<w>>
  BY <1>3, <1>4, HangsFirst, Zenon
<1> QED BY <1>2, <1>3, <1>5, <1>6, Zenon DEF f

-----------------------------------------------------------------------------
(* The operations on the tree. *)

Tree(d) ==
    /\ DupFree(d.chain)
    /\ \A w \in Linked(d) : d.loose[w] = None
    /\ NoCycle(d.loose)

Good(d) == d \in Displays /\ Tree(d)

\* A widget leads to another page only if its line is a link.
Clicks(d) ==
    \A l \in Lines : d.click[l] = "vHyperlinkAction" => Type(d, l) = "Hyperlink"

ClicksKept(d, e) ==
    \A l \in Lines : e.click[l] = "vHyperlinkAction" =>
        d.click[l] = "vHyperlinkAction" \/ Type(d, l) = "Hyperlink"

\* Nothing hangs outside the tree, and a walk through it comes back.
Simple(d) ==
    /\ \A w \in Widgets : d.loose[w] = None
    /\ Linked(d) \subseteq d.up

SameHead(d, e) ==
    /\ e.initialized = d.initialized /\ e.menue = d.menue /\ e.save = d.save
    /\ e.title = d.title /\ e.entities = d.entities
    /\ e.displayEntities = d.displayEntities /\ e.offset = d.offset

SameLines(d, e) ==
    /\ e.tag = d.tag /\ e.pool = d.pool /\ e.drawn = d.drawn
    /\ e.row = d.row /\ e.click = d.click

Faults == {"none", "walk", "ring", "memory", "freed", "stale", "wild"}

LEMMA TreeFields ==
    ASSUME NEW d \in Displays
    PROVE  /\ d.chain \in Seq(Widgets) /\ Linked(d) \subseteq Widgets
           /\ d.loose \in Nexts /\ d.up \in SUBSET Widgets /\ d.fault \in Faults
<1>1. d.chain \in Seq(Widgets) /\ d.loose \in Nexts /\ d.up \in SUBSET Widgets /\ d.fault \in Faults
  BY DEF Displays, Nexts, Faults
<1>2. Linked(d) \subseteq Widgets
  BY <1>1 DEF Linked, ToSet
<1> QED BY <1>1, <1>2

LEMMA Faulted ==
    ASSUME NEW d, Good(d), NEW what \in Faults \ {"none"}
    PROVE  /\ Good(Fault(d, what)) /\ SameHead(d, Fault(d, what))
           /\ SameLines(d, Fault(d, what))
           /\ Fault(d, what).chain = d.chain /\ Fault(d, what).loose = d.loose
           /\ Fault(d, what).up = d.up
           /\ Fault(d, what).fault = IF d.fault = "none" THEN what ELSE d.fault
<1> DEFINE e == Fault(d, what)
<1>1. d \in Displays /\ Tree(d)
  BY DEF Good
<1>2. /\ e \in Displays /\ SameHead(d, e) /\ SameLines(d, e)
      /\ e.chain = d.chain /\ e.loose = d.loose /\ e.up = d.up
      /\ e.fault = IF d.fault = "none" THEN what ELSE d.fault
  <2>1. CASE d.fault = "none"
    BY <1>1, <2>1 DEF Fault, Displays, Faults, SameHead, SameLines
  <2>2. CASE d.fault # "none"
    BY <1>1, <2>2 DEF Fault, SameHead, SameLines
  <2> QED BY <2>1, <2>2
<1> HIDE DEF e
<1>3. Tree(e)
  BY <1>1, <1>2 DEF Tree, Linked
<1> QED BY <1>2, <1>3 DEF Good, e

\* Next-pointers that are cleared close no cycle.
LEMMA Cleared ==
    ASSUME NEW f \in Nexts, NoCycle(f), NEW A
    PROVE  LET g == [v \in Widgets |-> IF v \in A THEN None ELSE f[v]]
           IN g \in Nexts /\ NoCycle(g)
<1> DEFINE g == [v \in Widgets |-> IF v \in A THEN None ELSE f[v]]
<1>1. g \in Nexts
  BY DEF Nexts
<1>2. \A v \in Widgets : g[v] = IF v \in A THEN None ELSE f[v]
  OBVIOUS
<1> HIDE DEF g
<1>3. ASSUME NEW S \in SUBSET Widgets, S # {} PROVE \E v \in S : g[v] \notin S
  <2>1. CASE \E v \in S : v \in A
    <3>1. PICK v \in S : v \in A
      BY <2>1
    <3>2. g[v] = None
      BY <1>2, <3>1
    <3> QED BY <3>1, <3>2, NoneNoWidget
  <2>2. CASE \A v \in S : v \notin A
    <3>1. PICK v \in S : f[v] \notin S
      BY <1>3, Zenon DEF NoCycle
    <3>2. g[v] = f[v]
      BY <1>2, <2>2, <3>1
    <3> QED BY <3>1, <3>2
  <2> QED BY <2>1, <2>2
<1> QED BY <1>1, <1>3, Zenon DEF NoCycle, g

LEMMA WidgetAdded ==
    ASSUME NEW d, Good(d), NEW w \in Widgets
    PROVE  LET e == WidgetAdd(d, w)
           IN /\ Good(e) /\ SameHead(d, e) /\ SameLines(d, e)
              /\ Simple(d) => Simple(e) /\ Linked(e) = Linked(d) \cup {w} /\ e.fault = d.fault
<1> DEFINE e == WidgetAdd(d, w)
           t == Hanging(d, w)
           u == d.up \cup {w}
           a == [d EXCEPT !.up = u]
<1>1. d \in Displays /\ Tree(d)
  BY DEF Good
<1>2. /\ d.chain \in Seq(Widgets) /\ Linked(d) \subseteq Widgets
      /\ d.loose \in Nexts /\ d.up \in SUBSET Widgets /\ d.fault \in Faults
  BY <1>1, TreeFields
<1>3. u \in SUBSET Widgets
  BY <1>2
<1>4. /\ a \in Displays /\ SameHead(d, a) /\ SameLines(d, a)
      /\ a.chain = d.chain /\ a.loose = d.loose /\ a.up = u /\ a.fault = d.fault
  BY <1>1, <1>3 DEF Displays, SameHead, SameLines
<1>5. Good(a)
  BY <1>1, <1>4 DEF Good, Tree, Linked
<1>6. Linked(a) = Linked(d)
  BY <1>4 DEF Linked
<1>7. e = IF w \in Linked(d) THEN a
          ELSE IF ToSet(t) \cap Linked(d) # {} THEN Fault(a, "ring")
          ELSE [a EXCEPT !.chain = a.chain \o t,
                   !.loose = [v \in Widgets |-> IF v \in ToSet(t) THEN None ELSE a.loose[v]]]
  BY DEF WidgetAdd
<1>8. Hangs(d.loose, w, t) /\ DupFree(t) /\ (d.loose[w] = None => t = <<w>>)
  BY <1>1, <1>2, HangingHangs DEF Tree
<1> HIDE DEF a, t, u, e
<1>9. t \in Seq(Widgets) /\ t # <<>>
  BY <1>8, Zenon DEF Hangs
<1>10. CASE w \in Linked(d)
  <2>1. e = a
    BY <1>7, <1>10
  <2>2. Simple(d) => Simple(e)
    BY <1>4, <1>6, <2>1 DEF Simple, u
  <2> QED BY <1>4, <1>5, <1>6, <1>10, <2>1, <2>2 DEF e
<1>11. CASE w \notin Linked(d) /\ ToSet(t) \cap Linked(d) # {}
  <2>1. e = Fault(a, "ring")
    BY <1>7, <1>11
  <2>2. Good(e) /\ SameHead(a, e) /\ SameLines(a, e)
    BY <1>5, <2>1, Faulted DEF Faults
  <2>3. SameHead(d, e) /\ SameLines(d, e)
    BY <1>4, <2>2 DEF SameHead, SameLines
  <2>4. ~Simple(d)
    <3> SUFFICES ASSUME Simple(d) PROVE FALSE
      OBVIOUS
    <3>1. t = <<w>>
      BY <1>8 DEF Simple
    <3> QED BY <1>11, <3>1 DEF ToSet
  <2> QED BY <2>2, <2>3, <2>4 DEF e
<1>12. CASE w \notin Linked(d) /\ ToSet(t) \cap Linked(d) = {}
  <2> DEFINE c == a.chain \o t
             f == [v \in Widgets |-> IF v \in ToSet(t) THEN None ELSE a.loose[v]]
  <2>1. e = [a EXCEPT !.chain = c, !.loose = f]
    BY <1>7, <1>12
  <2>2. /\ c \in Seq(Widgets) /\ DupFree(c) /\ ToSet(c) = Linked(d) \cup ToSet(t)
    <3>1. DupFree(d.chain) /\ ToSet(t) \cap ToSet(d.chain) = {}
      BY <1>1, <1>12 DEF Tree, Linked
    <3> QED BY <1>2, <1>4, <1>8, <1>9, <3>1, Joined DEF Linked
  <2>3. f \in Nexts /\ NoCycle(f)
    BY <1>1, <1>2, <1>4, Cleared DEF Tree
  <2>4. \A v \in Widgets : f[v] = IF v \in ToSet(t) THEN None ELSE d.loose[v]
    BY <1>4
  <2> HIDE DEF c, f
  <2>5. /\ e \in Displays /\ SameHead(a, e) /\ SameLines(a, e)
        /\ e.chain = c /\ e.loose = f /\ e.up = u /\ e.fault = d.fault
    BY <1>4, <2>1, <2>2, <2>3 DEF Displays, Nexts, SameHead, SameLines
  <2>6. SameHead(d, e) /\ SameLines(d, e)
    BY <1>4, <2>5 DEF SameHead, SameLines
  <2>7. Linked(e) = Linked(d) \cup ToSet(t)
    BY <2>2, <2>5 DEF Linked
  <2>8. Tree(e)
    <3>1. \A v \in Linked(e) : f[v] = None
      <4> TAKE v \in Linked(e)
      <4>1. v \in Widgets
        BY <2>5, TreeFields
      <4>2. v \in ToSet(t) \/ d.loose[v] = None
        BY <1>1, <2>7 DEF Tree
      <4> QED BY <2>4, <4>1, <4>2
    <3> QED BY <2>2, <2>3, <2>5, <3>1 DEF Tree
  <2>9. ASSUME Simple(d) PROVE Simple(e) /\ Linked(e) = Linked(d) \cup {w}
    <3>1. t = <<w>>
      BY <1>8, <2>9 DEF Simple
    <3>2. ToSet(t) = {w}
      BY <3>1 DEF ToSet
    <3>3. \A v \in Widgets : f[v] = None
      BY <2>4, <2>9 DEF Simple
    <3>4. Linked(e) \subseteq u
      BY <2>7, <2>9, <3>2 DEF Simple, u
    <3> QED BY <2>5, <2>7, <3>2, <3>3, <3>4 DEF Simple
  <2> QED BY <2>5, <2>6, <2>8, <2>9 DEF Good, e
<1> QED BY <1>10, <1>11, <1>12

LEMMA WidgetRemoved ==
    ASSUME NEW d, Good(d), NEW w \in Widgets
    PROVE  LET e == WidgetRemove(d, w)
           IN /\ Good(e) /\ SameHead(d, e) /\ SameLines(d, e)
              /\ Simple(d) => Simple(e) /\ Linked(e) = Linked(d) \ {w} /\ e.fault = d.fault
<1> DEFINE e == WidgetRemove(d, w)
<1>1. d \in Displays /\ Tree(d)
  BY DEF Good
<1>2. /\ d.chain \in Seq(Widgets) /\ Linked(d) \subseteq Widgets
      /\ d.loose \in Nexts /\ d.up \in SUBSET Widgets /\ d.fault \in Faults
  BY <1>1, TreeFields
<1>3. CASE w \notin d.up
  <2>1. e = d
    BY <1>3 DEF WidgetRemove
  <2>2. Simple(d) => w \notin Linked(d)
    BY <1>3 DEF Simple
  <2> HIDE DEF e
  <2> QED BY <2>1, <2>2 DEF SameHead, SameLines, e
<1>4. CASE w \in d.up /\ w \in Linked(d)
  <2> DEFINE c == Without(d.chain, w)
  <2>1. e = [d EXCEPT !.chain = c]
    BY <1>4 DEF WidgetRemove
  <2>2. c \in Seq(Widgets) /\ DupFree(c) /\ ToSet(c) = Linked(d) \ {w}
    BY <1>1, <1>2, WithoutOne DEF Tree, Linked
  <2> HIDE DEF c, e
  <2>3. /\ e \in Displays /\ SameHead(d, e) /\ SameLines(d, e)
        /\ e.chain = c /\ e.loose = d.loose /\ e.up = d.up /\ e.fault = d.fault
    BY <1>1, <2>1, <2>2 DEF Displays, SameHead, SameLines
  <2>4. Linked(e) = Linked(d) \ {w}
    BY <2>2, <2>3 DEF Linked
  <2>5. Tree(e)
    BY <1>1, <2>2, <2>3, <2>4 DEF Tree
  <2>6. Simple(d) => Simple(e)
    BY <2>3, <2>4 DEF Simple
  <2> QED BY <2>3, <2>4, <2>5, <2>6 DEF Good, e
<1>5. CASE w \in d.up /\ w \notin Linked(d)
  <2>1. Simple(d) => ~LeavesTree(d)
    <3>1. d.chain # <<>> => Last(d.chain) \in ToSet(d.chain)
      <4>1. d.chain # <<>> => Len(d.chain) \in 1 .. Len(d.chain)
        BY <1>2
      <4> QED BY <4>1 DEF Last, ToSet
    <3> QED BY <3>1 DEF Simple, LeavesTree, Linked
  <2>2. CASE LeavesTree(d)
    <3>1. e = Fault(d, "walk")
      BY <1>5, <2>2 DEF WidgetRemove
    <3> QED BY <2>1, <2>2, <3>1, Faulted DEF Faults
  <2>3. CASE ~LeavesTree(d)
    <3>1. e = d
      BY <1>5, <2>3 DEF WidgetRemove
    <3> HIDE DEF e
    <3> QED BY <1>5, <3>1 DEF SameHead, SameLines, e
  <2> QED BY <2>2, <2>3
<1> QED BY <1>3, <1>4, <1>5

\* What is cut off by Reset hangs behind each other.
LEMMA CutOff ==
    ASSUME NEW f \in Nexts, NoCycle(f), NEW c \in Seq(Widgets), DupFree(c),
           NEW p \in 1 .. Len(c), NEW g \in Nexts,
           \A i \in p + 1 .. Len(c) - 1 : g[c[i]] = c[i + 1],
           p < Len(c) => g[c[Len(c)]] = None,
           g[c[p]] = None,
           \A v \in Widgets : g[v] = f[v] \/ \E i \in p .. Len(c) : v = c[i]
    PROVE  NoCycle(g)
<1> SUFFICES ASSUME NEW S \in SUBSET Widgets, S # {} PROVE \E w \in S : g[w] \notin S
  BY Zenon DEF NoCycle
<1>0. Len(c) \in Nat /\ p \in Nat /\ p <= Len(c)
  OBVIOUS
<1>1. CASE \E i \in p + 1 .. Len(c) : c[i] \in S
  <2> DEFINE T == {k \in Nat : k < Len(c) - p /\ c[Len(c) - k] \in S}
  <2>1. PICK i \in p + 1 .. Len(c) : c[i] \in S
    BY <1>1
  <2>2. Len(c) - i \in T
    <3>1. Len(c) - i \in Nat /\ Len(c) - i < Len(c) - p /\ Len(c) - (Len(c) - i) = i
      BY <1>0
    <3> QED BY <2>1, <3>1
  <2>3. PICK k \in T : \A j \in T : k <= j
    BY <2>2, LeastNumber
  <2> DEFINE m == Len(c) - k
  <2>4. m \in p + 1 .. Len(c) /\ c[m] \in S
    BY <1>0, <2>3
  <2>5. CASE m = Len(c)
    <3>0. p < Len(c)
      BY <1>0, <2>4
    <3>1. g[c[m]] = None
      BY <2>5, <3>0
    <3> QED BY <2>4, <3>1, NoneNoWidget
  <2>6. CASE m # Len(c)
    <3>1. m \in p + 1 .. Len(c) - 1
      BY <1>0, <2>4, <2>6
    <3>2. g[c[m]] = c[m + 1]
      BY <3>1
    <3>3. c[m + 1] \notin S
      <4> SUFFICES ASSUME c[m + 1] \in S PROVE FALSE
        OBVIOUS
      <4>1. k - 1 \in Nat /\ k - 1 < Len(c) - p /\ Len(c) - (k - 1) = m + 1
        BY <1>0, <2>3, <3>1
      <4>2. k - 1 \in T
        BY <4>1
      <4> QED BY <2>3, <4>2
    <3> QED BY <2>4, <3>2, <3>3
  <2> QED BY <2>5, <2>6
<1>2. CASE c[p] \in S
  BY <1>2, NoneNoWidget
<1>3. CASE c[p] \notin S /\ \A i \in p + 1 .. Len(c) : c[i] \notin S
  <2>1. PICK w \in S : f[w] \notin S
    BY Zenon DEF NoCycle
  <2>2. \A i \in p .. Len(c) : i = p \/ i \in p + 1 .. Len(c)
    BY <1>0
  <2>3. \A i \in p .. Len(c) : w # c[i]
    BY <1>3, <2>1, <2>2
  <2>4. g[w] = f[w]
    BY <2>3
  <2> QED BY <2>1, <2>4
<1> QED BY <1>1, <1>2, <1>3

LEMMA ResetOf ==
    ASSUME NEW d, Good(d), NEW w \in Widgets
    PROVE  LET e == Reset(d, w)
           IN /\ Good(e) /\ SameHead(d, e) /\ SameLines(d, e) /\ e.fault = d.fault
              /\ Simple(d) /\ w \notin Linked(d) => Simple(e) /\ Linked(e) = Linked(d)
<1> DEFINE e == Reset(d, w)
           kept == IF w \in Linked(d) THEN SubSeq(d.chain, 1, Place(d.chain, w)) ELSE d.chain
           lost == Linked(d) \ ToSet(kept)
           g == [v \in Widgets |-> IF v \in lost THEN Behind(d, v)
                                   ELSE IF v = w THEN None ELSE d.loose[v]]
           u == d.up \ {w}
<1>1. d \in Displays /\ DupFree(d.chain) /\ NoCycle(d.loose)
      /\ \A v \in Linked(d) : d.loose[v] = None
  BY DEF Good, Tree
<1>2. /\ d.chain \in Seq(Widgets) /\ Linked(d) \subseteq Widgets
      /\ d.loose \in Nexts /\ d.up \in SUBSET Widgets /\ d.fault \in Faults
  BY <1>1, TreeFields
<1>3. e = [d EXCEPT !.chain = kept, !.loose = g, !.up = u]
  BY DEF Reset
<1>4. \A v \in Widgets : g[v] = IF v \in lost THEN Behind(d, v)
                                ELSE IF v = w THEN None ELSE d.loose[v]
  OBVIOUS
<1>5. g = [v \in Widgets |-> g[v]] /\ u \in SUBSET Widgets
  BY <1>2
<1>6. lost = Linked(d) \ ToSet(kept)
  OBVIOUS
<1>7. /\ kept \in Seq(Widgets) /\ DupFree(kept) /\ ToSet(kept) \subseteq Linked(d)
      /\ g \in Nexts /\ NoCycle(g)
  <2>1. CASE w \notin Linked(d)
    <3>1. kept = d.chain
      BY <2>1
    <3>2. lost = {}
      BY <3>1 DEF Linked
    <3> HIDE DEF kept, lost, g
    <3>3. \A v \in Widgets : g[v] = IF v \in {w} THEN None ELSE d.loose[v]
      BY <1>4, <3>2
    <3>4. g = [v \in Widgets |-> IF v \in {w} THEN None ELSE d.loose[v]]
      BY <1>5, <3>3, Zenon
    <3>5. g \in Nexts /\ NoCycle(g)
      BY <1>1, <1>2, <3>4, Cleared
    <3> QED BY <1>1, <1>2, <3>1, <3>5 DEF Linked
  <2>2. CASE w \in Linked(d)
    <3> DEFINE c == d.chain
    <3>1. PICK p \in 1 .. Len(c) : p = Place(c, w) /\ c[p] = w
      BY <1>2, <2>2, PlaceOf DEF Linked
    <3>2. kept = SubSeq(c, 1, p)
      BY <2>2, <3>1
    <3> HIDE DEF kept, lost, g, c
    <3>3. c \in Seq(Widgets) /\ DupFree(c) /\ Linked(d) = ToSet(c) /\ DOMAIN c = 1 .. Len(c)
          /\ Len(c) \in Nat
      BY <1>1, <1>2 DEF c, Linked
    <3>4. kept \in Seq(Widgets) /\ DupFree(kept) /\ ToSet(kept) = { c[i] : i \in 1 .. p }
      BY <3>2, <3>3, Kept
    <3>5. \A i \in 1 .. p : i \in 1 .. Len(c)
      BY <3>3
    <3>6. ToSet(kept) \subseteq Linked(d)
      BY <3>3, <3>4, <3>5 DEF ToSet
    <3>7. \A i, j \in 1 .. Len(c) : c[i] = c[j] => i = j
      BY <3>3, Zenon DEF DupFree
    <3>8. \A i \in p + 1 .. Len(c) : i \in 1 .. Len(c) /\ \A j \in 1 .. p : i # j
      BY <3>3
    <3>9. \A i \in p + 1 .. Len(c) : c[i] \in lost
      <4> TAKE i \in p + 1 .. Len(c)
      <4>1. c[i] \notin ToSet(kept)
        BY <3>4, <3>5, <3>7, <3>8
      <4>2. c[i] \in Linked(d)
        BY <3>3, <3>8, Zenon DEF ToSet
      <4> QED BY <1>6, <4>1, <4>2
    <3>10. \A i \in 1 .. Len(c) : i \in 1 .. p \/ i \in p + 1 .. Len(c)
      BY <3>3
    <3>11. \A v \in lost : \E i \in p + 1 .. Len(c) : v = c[i]
      <4> TAKE v \in lost
      <4>1. PICK i \in 1 .. Len(c) : v = c[i]
        BY <1>6, <3>3, Zenon DEF ToSet
      <4>2. i \notin 1 .. p
        BY <1>6, <3>4, <4>1
      <4> QED BY <3>10, <4>1, <4>2
    <3>12. \A i \in 1 .. Len(c) : Place(c, c[i]) = i
      <4> TAKE i \in 1 .. Len(c)
      <4>1. c[i] \in ToSet(c)
        BY <3>3, Zenon DEF ToSet
      <4>2. Place(c, c[i]) \in 1 .. Len(c) /\ c[Place(c, c[i])] = c[i]
        BY <3>3, <4>1, PlaceOf
      <4> QED BY <3>7, <4>2
    <3>13. ASSUME NEW i \in p + 1 .. Len(c)
           PROVE  Behind(d, c[i]) = IF i = Len(c) THEN None ELSE c[i + 1]
      <4>1. i \in 1 .. Len(c) /\ c[i] \in Linked(d) /\ Len(c) \in 1 .. Len(c)
        BY <1>6, <3>3, <3>8, <3>9
      <4>2. c[i] = c[Len(c)] <=> i = Len(c)
        BY <3>7, <4>1
      <4>3. Place(c, c[i]) = i
        BY <3>12, <4>1
      <4> QED BY <4>1, <4>2, <4>3 DEF Behind, Last, c
    <3>14. /\ \A i \in p + 1 .. Len(c) : c[i] \in Widgets
           /\ \A i \in p + 1 .. Len(c) : i = Len(c) \/ c[i + 1] \in Widgets
      <4>1. \A i \in 1 .. Len(c) : c[i] \in Widgets
        BY <3>3
      <4>2. \A i \in p + 1 .. Len(c) : i = Len(c) \/ i + 1 \in 1 .. Len(c)
        <5>1. PICK n \in Nat : n = Len(c)
          BY <3>3
        <5>2. \A i \in p + 1 .. n : i = n \/ i + 1 \in 1 .. n
          BY <5>1
        <5> QED BY <5>1, <5>2
      <4> QED BY <3>8, <4>1, <4>2, Zenon
    <3>15. \A i \in p + 1 .. Len(c) : g[c[i]] = IF i = Len(c) THEN None ELSE c[i + 1]
      BY <1>4, <3>9, <3>13, <3>14
    <3>16. g \in Nexts
      <4>1. ASSUME NEW v \in Widgets PROVE g[v] \in Widgets \cup {None}
        <5>1. CASE v \in lost
          <6>1. PICK i \in p + 1 .. Len(c) : v = c[i]
            BY <3>11, <5>1
          <6> QED BY <3>14, <3>15, <6>1
        <5>2. CASE v \notin lost
          BY <1>2, <1>4, <5>2 DEF Nexts
        <5> QED BY <5>1, <5>2
      <4> QED BY <1>5, <4>1, Zenon DEF Nexts
    <3>17. g[c[p]] = None
      <4>1. w \in ToSet(kept)
        BY <3>1, <3>4
      <4> QED BY <1>4, <1>6, <3>1, <4>1
    <3>18. \A v \in Widgets : g[v] = d.loose[v] \/ \E i \in p .. Len(c) : v = c[i]
      <4> TAKE v \in Widgets
      <4>1. p \in p .. Len(c) /\ \A i \in p + 1 .. Len(c) : i \in p .. Len(c)
        BY <3>3
      <4>2. CASE v \in lost
        BY <3>11, <4>1, <4>2
      <4>3. CASE v \notin lost /\ v = w
        BY <3>1, <4>1, <4>3
      <4>4. CASE v \notin lost /\ v # w
        BY <1>4, <4>4
      <4> QED BY <4>2, <4>3, <4>4
    <3>19. \A i \in p + 1 .. Len(c) - 1 : g[c[i]] = c[i + 1]
      <4> TAKE i \in p + 1 .. Len(c) - 1
      <4>1. PICK n \in Nat : n = Len(c)
        BY <3>3
      <4>2. i \in p + 1 .. n /\ i # n
        BY <4>1
      <4> QED BY <3>15, <4>1, <4>2
    <3>20. p < Len(c) => g[c[Len(c)]] = None
      <4>1. p < Len(c) => Len(c) \in p + 1 .. Len(c)
        BY <3>3
      <4> QED BY <3>15, <4>1
    <3>21. NoCycle(g)
      BY <1>1, <1>2, <3>3, <3>16, <3>17, <3>18, <3>19, <3>20, CutOff
    <3> QED BY <3>4, <3>6, <3>16, <3>21
  <2> QED BY <2>1, <2>2
<1>8. w \notin Linked(d) => kept = d.chain
  OBVIOUS
<1> HIDE DEF kept, lost, g, e
<1>9. e = [d EXCEPT !.chain = kept, !.loose = g, !.up = u, !.fault = d.fault]
  BY <1>1, <1>3 DEF Displays
<1> HIDE DEF u
<1>10. /\ e \in Displays /\ e.chain = kept /\ e.loose = g /\ e.up = u /\ e.fault = d.fault
       /\ SameHead(d, e) /\ SameLines(d, e)
  <2>1. d \in Displays /\ kept \in Seq(Widgets) /\ g \in Nexts /\ u \in SUBSET Widgets
        /\ d.fault \in Faults
    BY <1>1, <1>2, <1>5, <1>7
  <2> QED BY <1>9, <2>1 DEF Displays, Nexts, Faults, SameHead, SameLines
<1>11. Linked(e) = ToSet(kept)
  BY <1>10 DEF Linked
<1>12. \A v \in Linked(e) : e.loose[v] = None
  BY <1>1, <1>2, <1>4, <1>6, <1>7, <1>10, <1>11
<1>13. Tree(e)
  BY <1>7, <1>10, <1>12 DEF Tree
<1>14. ASSUME Simple(d), w \notin Linked(d) PROVE Simple(e) /\ Linked(e) = Linked(d)
  <2>1. Linked(e) = Linked(d)
    BY <1>8, <1>11, <1>14 DEF Linked
  <2>2. lost = {}
    BY <1>6, <1>11, <2>1
  <2>3. \A v \in Widgets : g[v] = None
    BY <1>4, <1>14, <2>2 DEF Simple
  <2>4. Linked(e) \subseteq u
    BY <1>14, <2>1 DEF Simple, u
  <2> QED BY <1>10, <2>1, <2>3, <2>4 DEF Simple
<1> QED BY <1>10, <1>13, <1>14 DEF Good, e

-----------------------------------------------------------------------------
(* Folds. *)

\* What holds of the first element and goes from each to the next holds of all.
LEMMA Folded ==
    ASSUME NEW n \in Nat, NEW f, NEW D, f[0] \in D[0],
           \A k \in 1 .. n : f[k - 1] \in D[k - 1] => f[k] \in D[k]
    PROVE  \A k \in 0 .. n : f[k] \in D[k]
<1> DEFINE T == {k \in 0 .. n : f[k] \notin D[k]}
<1> SUFFICES ASSUME T # {} PROVE FALSE
  OBVIOUS
<1>1. PICK k \in T : \A j \in T : k <= j
  <2>1. T \subseteq Nat
    OBVIOUS
  <2> QED BY <2>1, LeastNumber
<1>2. k # 0 /\ k \in 0 .. n
  BY <1>1
<1>3. k \in 1 .. n /\ k - 1 \in 0 .. n /\ ~(k <= k - 1)
  BY <1>2
<1>4. k - 1 \notin T
  BY <1>1, <1>3
<1>5. f[k - 1] \in D[k - 1]
  BY <1>3, <1>4
<1> QED BY <1>1, <1>3, <1>5

\* f[k] is what k steps by G make of a, and stays within the sets of D.
IsFold(f, n, a, G, D) ==
    /\ f = [k \in 0 .. n |-> IF k = 0 THEN a ELSE G[k][f[k - 1]]]
    /\ \A k \in 0 .. n : f[k] \in D[k]

LEMMA FoldExists ==
    ASSUME NEW n \in Nat, NEW a, NEW G, NEW D, a \in D[0],
           \A k \in 1 .. n : \A x \in D[k - 1] : G[k][x] \in D[k]
    PROVE  \E f : IsFold(f, n, a, G, D)
<1> DEFINE Upto(m, f) == IsFold(f, m, a, G, D)
           T == {m \in 0 .. n : ~ \E f : Upto(m, f)}
<1> SUFFICES ASSUME T # {} PROVE FALSE
  <2>1. n \in 0 .. n
    OBVIOUS
  <2>2. T = {} => \E f : Upto(n, f)
    BY <2>1, Zenon
  <2> QED BY <2>2
<1>1. PICK m \in T : \A j \in T : m <= j
  <2>1. T \subseteq Nat
    OBVIOUS
  <2> QED BY <2>1, LeastNumber
<1>2. m \in 0 .. n /\ ~ \E f : Upto(m, f)
  BY <1>1, Zenon
<1>3. CASE m = 0
  <2> DEFINE f == [k \in 0 .. 0 |-> a]
  <2>1. \A k \in 0 .. 0 : k = 0
    OBVIOUS
  <2>2. \A k \in 0 .. 0 : f[k] = a /\ a \in D[k]
    BY <2>1
  <2>3. f = [k \in 0 .. 0 |-> IF k = 0 THEN a ELSE G[k][f[k - 1]]]
    BY <2>1
  <2>4. Upto(0, f)
    BY <2>2, <2>3 DEF IsFold
  <2> QED BY <1>2, <1>3, <2>4
<1>4. CASE m # 0
  <2>1. m \in 1 .. n /\ m - 1 \in 0 .. n /\ ~(m <= m - 1)
    BY <1>2, <1>4
  <2>2. m - 1 \notin T
    BY <1>1, <2>1
  <2>3. \E g : Upto(m - 1, g)
    BY <2>1, <2>2, Zenon
  <2>4. PICK g : Upto(m - 1, g)
    BY <2>3, Zenon
  <2> DEFINE f == [k \in 0 .. m |-> IF k = m THEN G[m][g[m - 1]] ELSE g[k]]
  <2>5. \A k \in 0 .. m : k = m \/ k \in 0 .. m - 1
    BY <2>1
  <2>6. m \in 0 .. m /\ m - 1 \in 0 .. m /\ m - 1 # m /\ m - 1 \in 0 .. m - 1
    BY <2>1
  <2>7. \A k \in 0 .. m - 1 : k \in 0 .. m /\ k # m
    BY <2>1
  <2>8. f[m] = G[m][g[m - 1]] /\ \A k \in 0 .. m - 1 : f[k] = g[k]
    BY <2>6, <2>7
  <2>9. \A k \in 0 .. m - 1 : g[k] = IF k = 0 THEN a ELSE G[k][g[k - 1]]
    BY <2>4, Zenon DEF IsFold
  <2>10. f = [k \in 0 .. m |-> f[k]]
    OBVIOUS
  <2> HIDE DEF f
  <2>11. ASSUME NEW k \in 0 .. m PROVE f[k] = IF k = 0 THEN a ELSE G[k][f[k - 1]]
    <3>1. CASE k = m
      <4>1. f[m - 1] = g[m - 1]
        BY <2>6, <2>8
      <4> QED BY <1>4, <2>8, <3>1, <4>1
    <3>2. CASE k \in 0 .. m - 1 /\ k = 0
      BY <2>8, <2>9, <3>2
    <3>3. CASE k \in 0 .. m - 1 /\ k # 0
      <4>1. k - 1 \in 0 .. m - 1
        BY <2>1, <3>3
      <4>2. f[k] = G[k][g[k - 1]] /\ f[k - 1] = g[k - 1]
        BY <2>8, <2>9, <3>3, <4>1
      <4> QED BY <3>3, <4>2
    <3> QED BY <2>5, <3>1, <3>2, <3>3
  <2>12. f = [k \in 0 .. m |-> IF k = 0 THEN a ELSE G[k][f[k - 1]]]
    BY <2>10, <2>11, Zenon
  <2>13. ASSUME NEW k \in 0 .. m PROVE f[k] \in D[k]
    <3>1. CASE k = m
      <4>1. g[m - 1] \in D[m - 1]
        BY <2>4, <2>6, Zenon DEF IsFold
      <4>2. G[m][g[m - 1]] \in D[m]
        BY <2>1, <4>1
      <4> QED BY <2>8, <3>1, <4>2
    <3>2. CASE k \in 0 .. m - 1
      BY <2>4, <2>8, <3>2, Zenon DEF IsFold
    <3> QED BY <2>5, <3>1, <3>2
  <2> QED BY <1>2, <2>12, <2>13, Zenon DEF IsFold
<1> QED BY <1>3, <1>4

-----------------------------------------------------------------------------
(* Lines that are removed. *)

Live(d) ==
    \A l \in Lines :
        /\ Label(l) \in Linked(d) \/ Value(l) \in Linked(d) => l \in d.drawn
        /\ Value(l) \in Linked(d) => HasValue(Type(d, l))

LEMMA WidgetsDiffer ==
    /\ \A l \in Lines : Label(l) \in Widgets /\ Value(l) \in Widgets
    /\ {Menu, Save, Up, Down, Title} \subseteq Widgets
    /\ \A l, m \in Lines : (Label(l) = Label(m) => l = m) /\ (Value(l) = Value(m) => l = m)
                            /\ Label(l) # Value(m)
    /\ \A l \in Lines : {Label(l), Value(l)} \cap {Menu, Save, Up, Down, Title} = {}
    /\ Menu # Save /\ Menu # Title /\ Save # Title
    /\ {Menu, Save, Title} \cap {Up, Down} = {}
BY DEF Widgets, Menu, Save, Up, Down, Title, Label, Value

LEMMA LineDeleted ==
    ASSUME NEW d, Good(d), NEW l \in Lines
    PROVE  LET e == DeleteLine(d, l)
           IN /\ Good(e) /\ SameHead(d, e)
              /\ e.tag = [d.tag EXCEPT ![l] = Free]
              /\ e.drawn = d.drawn \ {l} /\ e.pool = <<l>> \o d.pool
              /\ e.click = [d.click EXCEPT ![l] = Free]
              /\ Simple(d) /\ Live(d) => Simple(e) /\ Live(e) /\ e.fault = d.fault
<1> DEFINE drawn  == l \in d.drawn
           valued == l \in d.drawn /\ HasValue(Type(d, l))
           a == IF drawn THEN WidgetRemove(d, Label(l)) ELSE d
           b == IF valued THEN WidgetRemove(a, Value(l)) ELSE a
           e == DeleteLine(d, l)
           A == {Label(l), Value(l)}
           f == [v \in Widgets |-> IF v \in A THEN None ELSE b.loose[v]]
<1>0. A \subseteq Widgets
  BY WidgetsDiffer
<1>1. /\ Good(a) /\ SameHead(d, a) /\ SameLines(d, a)
      /\ Simple(d) => /\ Simple(a) /\ a.fault = d.fault
                      /\ Linked(a) = IF drawn THEN Linked(d) \ {Label(l)} ELSE Linked(d)
  <2>1. CASE drawn
    BY <1>0, <2>1, WidgetRemoved
  <2>2. CASE ~drawn
    BY <2>2 DEF SameHead, SameLines
  <2> QED BY <2>1, <2>2
<1> HIDE DEF a
<1>2. /\ Good(b) /\ SameHead(a, b) /\ SameLines(a, b)
      /\ Simple(a) => /\ Simple(b) /\ b.fault = a.fault
                      /\ Linked(b) = IF valued THEN Linked(a) \ {Value(l)} ELSE Linked(a)
  <2>1. CASE valued
    BY <1>0, <1>1, <2>1, WidgetRemoved
  <2>2. CASE ~valued
    BY <1>1, <2>2 DEF SameHead, SameLines
  <2> QED BY <2>1, <2>2
<1>3. e = [b EXCEPT !.tag[l] = Free, !.drawn = b.drawn \ {l}, !.pool = <<l>> \o b.pool,
                    !.row[l] = 0, !.click[l] = Free, !.loose[Label(l)] = None,
                    !.loose[Value(l)] = None, !.up = b.up \ A]
  BY DEF DeleteLine, a
<1> HIDE DEF b, e
<1>4. b \in Displays /\ Tree(b)
  BY <1>2 DEF Good
<1>5. b.loose \in Nexts
  BY <1>4, TreeFields
<1>6. f \in Nexts /\ NoCycle(f)
  BY <1>4, <1>5, Cleared DEF Tree
<1>7. f = [[b.loose EXCEPT ![Label(l)] = None] EXCEPT ![Value(l)] = None]
  BY <1>0, <1>5 DEF Nexts
<1>8. \A v \in Widgets : f[v] = IF v \in A THEN None ELSE b.loose[v]
  OBVIOUS
<1> HIDE DEF f, A
<1>9. /\ e.chain = b.chain /\ e.loose = f /\ e.up = b.up \ A /\ e.fault = b.fault
      /\ e.tag = [b.tag EXCEPT ![l] = Free]
      /\ e.drawn = b.drawn \ {l} /\ e.pool = <<l>> \o b.pool
      /\ e.click = [b.click EXCEPT ![l] = Free]
      /\ SameHead(b, e)
  BY <1>3, <1>4, <1>7 DEF Displays, SameHead
<1>10. e \in Displays
  <2>1. /\ e.tag \in [Lines -> DOMAIN Tag \cup {Free}]
        /\ e.pool \in Seq(Lines) /\ e.drawn \in SUBSET Lines
    BY <1>4, <1>9 DEF Displays
  <2>2. /\ e.row = [b.row EXCEPT ![l] = 0] /\ e.click = [b.click EXCEPT ![l] = Free]
    BY <1>3, <1>4 DEF Displays
  <2>3. /\ e.row \in [Lines -> 0 .. DISPLAY_LINES_PER_VIEW]
        /\ e.click \in [Lines -> {Free, "vOpenEditorAction", "vCheckboxAction", "vHyperlinkAction"}]
    BY <1>4, <2>2, DisplayAssumption DEF Displays
  <2>4. e.up \in SUBSET Widgets
    BY <1>4, <1>9, TreeFields
  <2> QED BY <1>3, <1>4, <1>6, <1>9, <2>1, <2>3, <2>4 DEF Displays, Nexts, SameHead
<1>11. Linked(e) = Linked(b)
  BY <1>9 DEF Linked
<1>12. Tree(e)
  <2>1. \A v \in Linked(e) : e.loose[v] = None
    <3> TAKE v \in Linked(e)
    <3>1. v \in Widgets
      BY <1>10, TreeFields
    <3> QED BY <1>4, <1>8, <1>9, <1>11, <3>1 DEF Tree
  <2> QED BY <1>4, <1>6, <1>9, <2>1 DEF Tree
<1>13. /\ SameHead(d, e) /\ e.tag = [d.tag EXCEPT ![l] = Free]
       /\ e.drawn = d.drawn \ {l} /\ e.pool = <<l>> \o d.pool
       /\ e.click = [d.click EXCEPT ![l] = Free]
  BY <1>1, <1>2, <1>9 DEF SameHead, SameLines
<1>14. ASSUME Simple(d), Live(d) PROVE Simple(e) /\ Live(e) /\ e.fault = d.fault
  <2>1. Simple(b) /\ b.fault = d.fault
    BY <1>1, <1>2, <1>14
  <2>2. /\ Linked(b) \subseteq Linked(d) /\ Label(l) \notin Linked(b) /\ Value(l) \notin Linked(b)
    BY <1>1, <1>2, <1>14, WidgetsDiffer DEF Live
  <2>3. Simple(e)
    <3>1. \A v \in Widgets : e.loose[v] = None
      BY <1>8, <1>9, <2>1 DEF Simple
    <3>2. Linked(e) \subseteq e.up
      BY <1>9, <1>11, <2>1, <2>2 DEF Simple, A
    <3> QED BY <3>1, <3>2 DEF Simple
  <2>4. Live(e)
    <3> SUFFICES ASSUME NEW m \in Lines
                 PROVE  /\ Label(m) \in Linked(e) \/ Value(m) \in Linked(e) => m \in e.drawn
                        /\ Value(m) \in Linked(e) => HasValue(Type(e, m))
      BY DEF Live
    <3>1. CASE m = l
      BY <1>11, <2>2, <3>1
    <3>2. CASE m # l
      <4>1. e.tag[m] = d.tag[m]
        BY <1>13, <3>2, <1>10 DEF Good, Displays
      <4>2. Type(e, m) = Type(d, m)
        BY <4>1 DEF Type
      <4> QED BY <1>11, <1>13, <1>14, <2>2, <3>2, <4>2 DEF Live
    <3> QED BY <3>1, <3>2
  <2> QED BY <1>9, <2>1, <2>3, <2>4
<1> QED BY <1>10, <1>12, <1>13, <1>14 DEF Good, e

\* The list is of the lines in use, and the pool of the others.
Listed(d) ==
    /\ d.displayEntities => d.entities # <<>> /\ DupFree(d.entities)
    /\ \A l \in Lines : d.tag[l] # Free <=> d.displayEntities /\ l \in ToSet(d.entities)
    /\ DupFree(d.pool) /\ \A l \in ToSet(d.pool) : d.tag[l] = Free
    /\ \A l \in d.drawn : d.tag[l] # Free
    /\ \A l \in Lines : d.tag[l] # Free => Tag[d.tag[l]].type \notin {"Titel", "SubmitInputField"}
    /\ Clicks(d)

\* The displays after the first k lines were deleted.
Deleted(d, k) ==
    { e \in Displays :
        /\ Good(e) /\ SameHead(d, e)
        /\ \A l \in Lines : e.tag[l] = IF \E j \in 1 .. k : d.entities[j] = l THEN Free ELSE d.tag[l]
        /\ DupFree(e.pool) /\ \A l \in ToSet(e.pool) : e.tag[l] = Free
        /\ e.drawn \subseteq d.drawn /\ \A l \in e.drawn : e.tag[l] # Free
        /\ Clicks(e)
        /\ Simple(d) /\ Live(d) => Simple(e) /\ Live(e) /\ e.fault = d.fault }

LEMMA PoolGrows ==
    ASSUME NEW p \in Seq(Lines), DupFree(p), NEW l \in Lines, l \notin ToSet(p)
    PROVE  DupFree(<<l>> \o p) /\ ToSet(<<l>> \o p) = {l} \cup ToSet(p)
<1> DEFINE c == <<l>>
<1>1. c \in Seq(Lines) /\ DOMAIN c = {1} /\ ToSet(c) = {l}
  BY DEF ToSet
<1>2. DupFree(c)
  BY <1>1 DEF DupFree
<1> HIDE DEF c
<1>3. ToSet(p) \cap ToSet(c) = {}
  BY <1>1
<1>4. DupFree(c \o p) /\ ToSet(c \o p) = ToSet(c) \cup ToSet(p)
  BY <1>1, <1>2, <1>3, Joined
<1> QED BY <1>1, <1>4 DEF c

LEMMA DeletedMore ==
    ASSUME NEW d, Good(d), Listed(d), d.displayEntities,
           NEW k \in 1 .. Len(d.entities), NEW x \in Deleted(d, k - 1)
    PROVE  DeleteLine(x, d.entities[k]) \in Deleted(d, k)
<1> DEFINE l == d.entities[k]
           e == DeleteLine(x, l)
<1>1. /\ d \in Displays /\ d.entities \in Seq(Lines) /\ l \in Lines
      /\ DOMAIN d.entities = 1 .. Len(d.entities) /\ Len(d.entities) \in Nat
  BY DEF Good, Displays
<1>2. /\ Good(x) /\ SameHead(d, x)
      /\ \A m \in Lines : x.tag[m] = IF \E j \in 1 .. k - 1 : d.entities[j] = m THEN Free ELSE d.tag[m]
      /\ DupFree(x.pool) /\ \A m \in ToSet(x.pool) : x.tag[m] = Free
      /\ x.drawn \subseteq d.drawn /\ \A m \in x.drawn : x.tag[m] # Free
      /\ Clicks(x)
      /\ Simple(d) /\ Live(d) => Simple(x) /\ Live(x) /\ x.fault = d.fault
  BY DEF Deleted
<1> HIDE DEF l
<1>3. /\ Good(e) /\ SameHead(x, e)
      /\ e.tag = [x.tag EXCEPT ![l] = Free]
      /\ e.drawn = x.drawn \ {l} /\ e.pool = <<l>> \o x.pool
      /\ e.click = [x.click EXCEPT ![l] = Free]
      /\ Simple(x) /\ Live(x) => Simple(e) /\ Live(e) /\ e.fault = x.fault
  BY <1>1, <1>2, LineDeleted
<1> HIDE DEF e
<1>4. /\ e \in Displays /\ x \in Displays /\ x.pool \in Seq(Lines) /\ x.tag \in [Lines -> DOMAIN Tag \cup {Free}]
      /\ e.drawn \subseteq Lines
  BY <1>2, <1>3 DEF Good, Displays
<1>5. SameHead(d, e)
  BY <1>2, <1>3 DEF SameHead
<1>6. \A m \in Lines : e.tag[m] = IF m = l THEN Free ELSE x.tag[m]
  BY <1>1, <1>3, <1>4
<1>7. \A m \in Lines : e.tag[m] = IF \E j \in 1 .. k : d.entities[j] = m THEN Free ELSE d.tag[m]
  <2>1. /\ \A j \in 1 .. k : j = k \/ j \in 1 .. k - 1
        /\ \A j \in 1 .. k - 1 : j \in 1 .. k
        /\ k \in 1 .. k
    BY <1>1
  <2>2. \A m \in Lines : (\E j \in 1 .. k : d.entities[j] = m) <=> m = l \/ \E j \in 1 .. k - 1 : d.entities[j] = m
    BY <2>1 DEF l
  <2> QED BY <1>2, <1>6, <2>2
<1>8. l \notin ToSet(x.pool)
  <2>1. \A i, j \in 1 .. Len(d.entities) : d.entities[i] = d.entities[j] => i = j
    BY <1>1, Zenon DEF Listed, DupFree
  <2>2. \A j \in 1 .. k - 1 : j \in 1 .. Len(d.entities) /\ j # k
    BY <1>1
  <2>3. x.tag[l] = d.tag[l]
    BY <1>1, <1>2, <2>1, <2>2 DEF l
  <2>4. l \in ToSet(d.entities)
    BY <1>1, Zenon DEF ToSet, l
  <2>5. d.tag[l] # Free
    BY <1>1, <2>4 DEF Listed
  <2> QED BY <1>2, <2>3, <2>5
<1>9. DupFree(e.pool) /\ ToSet(e.pool) = {l} \cup ToSet(x.pool)
  BY <1>1, <1>2, <1>3, <1>4, <1>8, PoolGrows
<1>10. \A m \in ToSet(e.pool) : e.tag[m] = Free
  <2>1. ToSet(x.pool) \subseteq Lines
    BY <1>4 DEF ToSet
  <2> QED BY <1>1, <1>2, <1>6, <1>9, <2>1
<1>11. e.drawn \subseteq d.drawn /\ \A m \in e.drawn : e.tag[m] # Free
  BY <1>2, <1>3, <1>4, <1>6
<1>12. Simple(d) /\ Live(d) => Simple(e) /\ Live(e) /\ e.fault = d.fault
  BY <1>2, <1>3
<1>13. Clicks(e)
  <2> SUFFICES ASSUME NEW m \in Lines, e.click[m] = "vHyperlinkAction"
               PROVE  Type(e, m) = "Hyperlink"
    BY DEF Clicks
  <2>1. DOMAIN x.click = Lines
    BY <1>4 DEF Displays
  <2>2. m # l /\ x.click[m] = "vHyperlinkAction"
    BY <1>1, <1>3, <2>1 DEF Free
  <2> QED BY <1>2, <1>6, <2>2 DEF Clicks, Type
<1> QED BY <1>3, <1>4, <1>5, <1>7, <1>9, <1>10, <1>11, <1>12, <1>13 DEF Deleted, e, l

LEMMA LinesDeleted ==
    ASSUME NEW d, Good(d), Listed(d), d.displayEntities
    PROVE  DeleteLines(d) \in Deleted(d, Len(d.entities))
<1> DEFINE n == Len(d.entities)
           G == [k \in 1 .. n |-> [x \in Displays |-> DeleteLine(x, d.entities[k])]]
           D == [k \in 0 .. n |-> Deleted(d, k)]
           Fold(f) == f = [k \in 0 .. n |-> IF k = 0 THEN d ELSE DeleteLine(f[k - 1], d.entities[k])]
           left == CHOOSE f : Fold(f)
<1>1. n \in Nat /\ d \in Displays
  BY DEF Good, Displays
<1>2. /\ \A k \in 0 .. n : D[k] = Deleted(d, k)
      /\ \A k \in 0 .. n : D[k] \subseteq Displays
  BY DEF Deleted
<1>3. /\ \A k \in 1 .. n : k \in 0 .. n /\ k - 1 \in 0 .. n /\ k # 0
      /\ 0 \in 0 .. n /\ n \in 0 .. n
  BY <1>1
<1>4. \A k \in 1 .. n : \A x \in Displays : G[k][x] = DeleteLine(x, d.entities[k])
  OBVIOUS
<1>5. DeleteLines(d) = left[n]
  BY DEF DeleteLines
<1> HIDE DEF G, D, left
<1>6. d \in D[0]
  <2>1. d \in Deleted(d, 0)
    <3>1. \A m \in Lines : ~ \E j \in 1 .. 0 : d.entities[j] = m
      OBVIOUS
    <3>2. SameHead(d, d)
      BY DEF SameHead
    <3>3. /\ DupFree(d.pool) /\ \A m \in ToSet(d.pool) : d.tag[m] = Free
          /\ \A m \in d.drawn : d.tag[m] # Free
      BY DEF Listed
    <3>4. Clicks(d)
      BY DEF Listed
    <3> QED BY <1>1, <3>1, <3>2, <3>3, <3>4 DEF Deleted
  <2> QED BY <1>2, <1>3, <2>1
<1>7. \A k \in 1 .. n : \A x \in D[k - 1] : DeleteLine(x, d.entities[k]) \in D[k]
  BY <1>2, <1>3, DeletedMore
<1>8. \A k \in 1 .. n : \A x \in D[k - 1] : G[k][x] \in D[k]
  BY <1>2, <1>3, <1>4, <1>7
<1> HIDE DEF n
<1>8a. n \in Nat
  BY <1>1
<1>8b. \E f : IsFold(f, n, d, G, D)
  BY <1>8a, <1>6, <1>8, FoldExists, Zenon
<1>9. PICK f : IsFold(f, n, d, G, D)
  BY <1>8b, Zenon
<1>10. Fold(f)
  <2>1. \A k \in 0 .. n : k = 0 \/ k \in 1 .. n
    BY <1>1
  <2>2. \A k \in 0 .. n : IF k = 0 THEN G[k][f[k - 1]] = G[k][f[k - 1]]
                          ELSE G[k][f[k - 1]] = DeleteLine(f[k - 1], d.entities[k])
    BY <1>2, <1>3, <1>4, <1>9, <2>1 DEF IsFold
  <2> QED BY <1>9, <2>2 DEF IsFold
<1>11. Fold(left)
  BY <1>10, Zenon DEF left
<1>12. left[0] = d /\ \A k \in 1 .. n : left[k] = DeleteLine(left[k - 1], d.entities[k])
  BY <1>3, <1>11
<1>13. \A k \in 0 .. n : left[k] \in D[k]
  BY <1>1, <1>6, <1>7, <1>12, Folded
<1> QED BY <1>2, <1>3, <1>5, <1>13 DEF n

\* An empty display, with what of it stays.
LEMMA DisplayCleared ==
    ASSUME NEW d, Good(d), Listed(d)
    PROVE  LET e == ClearDisplay(d)
           IN /\ Good(e) /\ Listed(e)
              /\ ~e.displayEntities /\ ~e.save /\ e.drawn = {}
              /\ e.initialized = d.initialized
              /\ Simple(d) /\ Live(d) => Simple(e) /\ Live(e) /\ e.fault = d.fault
<1> DEFINE a == IF d.displayEntities THEN DeleteLines(d) ELSE d
           e == ClearDisplay(d)
<1>1. d \in Displays /\ d.entities \in Seq(Lines) /\ DOMAIN d.entities = 1 .. Len(d.entities)
      /\ d.displayEntities \in BOOLEAN /\ d.drawn \subseteq Lines
  BY DEF Good, Displays
<1>2. /\ Good(a) /\ SameHead(d, a) /\ \A l \in Lines : a.tag[l] = Free
      /\ DupFree(a.pool) /\ a.drawn = {} /\ Clicks(a)
      /\ Simple(d) /\ Live(d) => Simple(a) /\ Live(a) /\ a.fault = d.fault
  <2>1. CASE d.displayEntities
    <3>1. a \in Deleted(d, Len(d.entities))
      BY <2>1, LinesDeleted
    <3> HIDE DEF a
    <3>2. /\ Good(a) /\ SameHead(d, a)
          /\ \A l \in Lines : a.tag[l] = IF \E j \in 1 .. Len(d.entities) : d.entities[j] = l
                                         THEN Free ELSE d.tag[l]
          /\ DupFree(a.pool) /\ a.drawn \subseteq d.drawn /\ \A l \in a.drawn : a.tag[l] # Free
          /\ Clicks(a)
          /\ Simple(d) /\ Live(d) => Simple(a) /\ Live(a) /\ a.fault = d.fault
      BY <3>1 DEF Deleted
    <3>3. \A l \in Lines : l \in ToSet(d.entities) => \E j \in 1 .. Len(d.entities) : d.entities[j] = l
      BY <1>1, Zenon DEF ToSet
    <3>4. \A l \in Lines : l \notin ToSet(d.entities) => d.tag[l] = Free
      BY Zenon DEF Listed
    <3>5. \A l \in Lines : a.tag[l] = Free
      BY <3>2, <3>3, <3>4
    <3> QED BY <1>1, <3>2, <3>5
  <2>2. CASE ~d.displayEntities
    <3>1. a = d
      BY <2>2
    <3>2. \A l \in Lines : d.tag[l] = Free
      BY <2>2 DEF Listed
    <3>3. d.drawn = {}
      BY <1>1, <3>2 DEF Listed
    <3> HIDE DEF a
    <3> QED BY <3>1, <3>2, <3>3 DEF Listed, SameHead
  <2> QED BY <2>1, <2>2
<1>3. e = [a EXCEPT !.displayEntities = FALSE, !.save = FALSE, !.offset = 0]
  BY DEF ClearDisplay
<1> HIDE DEF a, e
<1>4. a \in Displays /\ Tree(a) /\ a.pool \in Seq(Lines)
  BY <1>2 DEF Good, Displays
<1>5. /\ e \in Displays /\ e.displayEntities = FALSE /\ e.save = FALSE
      /\ e.initialized = a.initialized /\ SameLines(a, e)
      /\ e.chain = a.chain /\ e.loose = a.loose /\ e.up = a.up /\ e.fault = a.fault
  <2>1. 0 \in 0 .. MAX_OFFSET
    BY DisplayAssumption
  <2>2. e \in Displays
    BY <1>3, <1>4, <2>1 DEF Displays
  <2>3. /\ e.displayEntities = FALSE /\ e.save = FALSE
        /\ e.initialized = a.initialized
        /\ e.chain = a.chain /\ e.loose = a.loose /\ e.up = a.up /\ e.fault = a.fault
    BY <1>3, <1>4 DEF Displays
  <2>4. SameLines(a, e)
    BY <1>3, <1>4 DEF Displays, SameLines
  <2> QED BY <2>2, <2>3, <2>4
<1>6. Linked(e) = Linked(a)
  BY <1>5 DEF Linked
<1>7. Tree(e) /\ (Simple(a) => Simple(e))
  BY <1>4, <1>5, <1>6 DEF Tree, Simple
<1>8. Live(a) => Live(e)
  BY <1>5, <1>6 DEF Live, Type, SameLines
<1>9. Listed(e)
  <2>1. ToSet(a.pool) \subseteq Lines
    BY <1>4 DEF ToSet
  <2>2. Clicks(e)
    BY <1>2, <1>5 DEF Clicks, SameLines, Type
  <2> QED BY <1>2, <1>5, <2>1, <2>2 DEF Listed, SameLines
<1> QED BY <1>2, <1>5, <1>7, <1>8, <1>9 DEF Good, SameHead, SameLines, e

LEMMA DisplayInitialised ==
    ASSUME NEW d, Good(d), Listed(d), d.initialized \/ ~d.displayEntities
    PROVE  LET e == InitDisplay(d)
           IN /\ Good(e) /\ Listed(e) /\ e.initialized
              /\ SameLines(d, e) /\ e.fault = d.fault
              /\ e.displayEntities = d.displayEntities
              /\ Simple(d) /\ Live(d) => Simple(e) /\ Live(e)
<1> DEFINE e == InitDisplay(d)
<1>1. d \in Displays /\ Tree(d)
  BY DEF Good
<1>2. CASE d.initialized
  <2>1. e = d
    BY <1>2 DEF InitDisplay
  <2> HIDE DEF e
  <2> QED BY <1>2, <2>1 DEF SameLines, e
<1>3. CASE ~d.initialized
  <2> DEFINE a == [d EXCEPT !.initialized = TRUE, !.menue = TRUE, !.save = FALSE,
                            !.entities = <<>>, !.displayEntities = FALSE]
  <2>0. /\ a \in Displays /\ a.initialized /\ SameLines(d, a) /\ a.fault = d.fault
        /\ a.displayEntities = FALSE /\ a.loose = d.loose
    <3>1. <<>> \in Seq(Lines)
      OBVIOUS
    <3>2. a \in Displays
      BY <1>1, <3>1 DEF Displays
    <3>3. SameLines(d, a)
      BY <1>1 DEF Displays, SameLines
    <3> QED BY <1>1, <3>2, <3>3 DEF Displays
  <2>1. e = [a EXCEPT !.chain = <<>>, !.up = {}]
    BY <1>3 DEF InitDisplay, InitTree
  <2> HIDE DEF a, e
  <2>2. /\ e \in Displays /\ e.initialized /\ SameLines(d, e) /\ e.fault = d.fault
        /\ e.displayEntities = FALSE /\ d.displayEntities = FALSE
        /\ e.chain = <<>> /\ e.loose = d.loose /\ e.up = {}
    <3>0. <<>> \in Seq(Widgets) /\ {} \in SUBSET Widgets
      OBVIOUS
    <3>1. e \in Displays
      BY <2>0, <2>1, <3>0 DEF Displays
    <3>2. SameLines(a, e)
      BY <2>0, <2>1 DEF Displays, SameLines
    <3>3. /\ e.initialized /\ e.fault = d.fault /\ e.displayEntities = FALSE
          /\ e.chain = <<>> /\ e.loose = d.loose /\ e.up = {}
      BY <2>0, <2>1 DEF Displays
    <3>4. d.displayEntities = FALSE
      BY <1>1, <1>3 DEF Displays
    <3> QED BY <2>0, <3>1, <3>2, <3>3, <3>4 DEF SameLines
  <2>3. Linked(e) = {}
    BY <2>2 DEF Linked, ToSet
  <2>4. Tree(e)
    BY <1>1, <2>2, <2>3 DEF Tree, DupFree
  <2>5. Simple(d) => Simple(e)
    BY <2>2, <2>3 DEF Simple
  <2>6. Live(e)
    BY <2>3 DEF Live
  <2>7. Listed(e)
    <3>1. Clicks(e)
      BY <2>2 DEF Listed, Clicks, SameLines, Type
    <3> QED BY <2>2, <3>1 DEF Listed, SameLines
  <2> QED BY <2>2, <2>4, <2>5, <2>6, <2>7 DEF Good, e
<1> QED BY <1>2, <1>3

-----------------------------------------------------------------------------
(* Lines that are drawn. *)

LEMMA LiveKept ==
    ASSUME NEW d, NEW e, Live(d), SameLines(d, e),
           Linked(e) \subseteq Linked(d) \cup {Menu, Save, Up, Down, Title}
    PROVE  Live(e)
BY WidgetsDiffer DEF Live, SameLines, Type

\* The value's widget of a line, whatever its type.
LEMMA ValueDrawn ==
    ASSUME NEW d, NEW l \in Lines, NEW row, HasValue(Type(d, l)),
           d.tag[l] # Free => Tag[d.tag[l]].type \notin {"Titel", "SubmitInputField"},
           d \in Displays
    PROVE  \E action \in {"vOpenEditorAction", "vCheckboxAction", "vHyperlinkAction"} :
               /\ OnDisplay(d, l, row) = NewValueWidget(d, l, row, action)
               /\ action = "vHyperlinkAction" => Type(d, l) = "Hyperlink"
<1>1. Type(d, l) \in {"IntegerInputField", "FloatInputField", "TimeInputField",
                      "CheckboxInputField", "Hyperlink"}
  <2>1. d.tag[l] \in DOMAIN Tag \cup {Free}
    BY DEF Displays
  <2>2. d.tag[l] # Free
    BY DEF HasValue, Type
  <2>3. Type(d, l) = Tag[d.tag[l]].type /\ Type(d, l) \in TagTypes
    BY <2>1, <2>2, DisplayAssumption DEF Type
  <2>4. Type(d, l) # "Group"
    BY DEF HasValue
  <2> QED BY <2>2, <2>3, <2>4 DEF TagTypes
<1>2. CASE Type(d, l) = "IntegerInputField"
  BY <1>2 DEF OnDisplay, IntegerOnDisplay
<1>3. CASE Type(d, l) = "FloatInputField"
  BY <1>3 DEF OnDisplay, FloatOnDisplay
<1>4. CASE Type(d, l) = "TimeInputField"
  BY <1>4 DEF OnDisplay, TimeOnDisplay
<1>5. CASE Type(d, l) = "CheckboxInputField"
  BY <1>5 DEF OnDisplay, CheckboxOnDisplay
<1>6. CASE Type(d, l) = "Hyperlink"
  BY <1>6 DEF OnDisplay, HyperlinkOnDisplay
<1> QED BY <1>1, <1>2, <1>3, <1>4, <1>5, <1>6

LEMMA LabelDrawn ==
    ASSUME NEW d, Good(d), NEW l \in Lines
    PROVE  LET e == WidgetAdd(LabelWidget(d, l), Label(l))
           IN /\ Good(e) /\ SameHead(d, e) /\ e.tag = d.tag /\ e.pool = d.pool
              /\ e.drawn = d.drawn \cup {l} /\ e.click = d.click
              /\ Simple(d) /\ Live(d) /\ l \notin d.drawn =>
                     /\ Simple(e) /\ Live(e) /\ e.fault = d.fault
                     /\ Linked(e) = Linked(d) \cup {Label(l)}
<1> DEFINE a == Reset(d, Label(l))
           b == LabelWidget(d, l)
           e == WidgetAdd(b, Label(l))
<1>0. Label(l) \in Widgets
  BY WidgetsDiffer
<1>1. /\ Good(a) /\ SameHead(d, a) /\ SameLines(d, a) /\ a.fault = d.fault
      /\ Simple(d) /\ Label(l) \notin Linked(d) => Simple(a) /\ Linked(a) = Linked(d)
  BY <1>0, ResetOf
<1>2. b = [a EXCEPT !.drawn = a.drawn \cup {l}]
  BY DEF LabelWidget
<1> HIDE DEF a, b
<1>3. a \in Displays /\ Tree(a)
  BY <1>1 DEF Good
<1>4. a.drawn \cup {l} \in SUBSET Lines
  BY <1>3 DEF Displays
<1>5. /\ b \in Displays /\ b.drawn = a.drawn \cup {l} /\ b.tag = a.tag /\ b.pool = a.pool
      /\ b.click = a.click
      /\ b.chain = a.chain /\ b.loose = a.loose /\ b.up = a.up /\ b.fault = a.fault
  <2>1. b \in Displays
    BY <1>2, <1>3, <1>4 DEF Displays
  <2> QED BY <1>2, <1>3, <2>1 DEF Displays
<1>6. SameHead(a, b)
  BY <1>2, <1>3 DEF Displays, SameHead
<1>7. Linked(b) = Linked(a)
  BY <1>5 DEF Linked
<1>8. Good(b) /\ (Simple(a) => Simple(b))
  BY <1>3, <1>5, <1>7 DEF Good, Tree, Simple
<1>9. /\ Good(e) /\ SameHead(b, e) /\ SameLines(b, e)
      /\ Simple(b) => Simple(e) /\ Linked(e) = Linked(b) \cup {Label(l)} /\ e.fault = b.fault
  BY <1>0, <1>8, WidgetAdded
<1> HIDE DEF e
<1>10. /\ SameHead(d, e) /\ e.tag = d.tag /\ e.pool = d.pool /\ e.drawn = d.drawn \cup {l}
       /\ e.click = d.click
  BY <1>1, <1>5, <1>6, <1>9 DEF SameHead, SameLines
<1>11. ASSUME Simple(d), Live(d), l \notin d.drawn
       PROVE  /\ Simple(e) /\ Live(e) /\ e.fault = d.fault
              /\ Linked(e) = Linked(d) \cup {Label(l)}
  <2>1. Label(l) \notin Linked(d)
    BY <1>11 DEF Live
  <2>2. Simple(e) /\ e.fault = d.fault /\ Linked(e) = Linked(d) \cup {Label(l)}
    BY <1>1, <1>5, <1>7, <1>8, <1>9, <1>11, <2>1
  <2>3. Live(e)
    <3> SUFFICES ASSUME NEW m \in Lines
                 PROVE  /\ Label(m) \in Linked(e) \/ Value(m) \in Linked(e) => m \in e.drawn
                        /\ Value(m) \in Linked(e) => HasValue(Type(e, m))
      BY DEF Live
    <3>1. Type(e, m) = Type(d, m)
      BY <1>10 DEF Type
    <3>2. Value(m) \in Linked(e) => Value(m) \in Linked(d)
      BY <2>2, WidgetsDiffer
    <3>3. Label(m) \in Linked(e) => m = l \/ Label(m) \in Linked(d)
      BY <2>2, WidgetsDiffer
    <3> QED BY <1>10, <1>11, <3>1, <3>2, <3>3 DEF Live
  <2> QED BY <2>2, <2>3
<1> QED BY <1>9, <1>10, <1>11 DEF e, b

LEMMA ValueAdded ==
    ASSUME NEW d, Good(d), NEW l \in Lines, NEW row \in 0 .. DISPLAY_LINES_PER_VIEW,
           HasValue(Type(d, l)),
           d.tag[l] # Free => Tag[d.tag[l]].type \notin {"Titel", "SubmitInputField"}
    PROVE  LET e == WidgetAdd(OnDisplay(d, l, row), Value(l))
           IN /\ Good(e) /\ SameHead(d, e) /\ e.tag = d.tag /\ e.pool = d.pool
              /\ e.drawn = d.drawn /\ ClicksKept(d, e)
              /\ Simple(d) /\ Live(d) /\ Value(l) \notin Linked(d) /\ l \in d.drawn =>
                     /\ Simple(e) /\ Live(e) /\ e.fault = d.fault
                     /\ Linked(e) = Linked(d) \cup {Value(l)}
<1> DEFINE a == Reset(d, Value(l))
           b == OnDisplay(d, l, row)
           e == WidgetAdd(b, Value(l))
<1>0. Value(l) \in Widgets
  BY WidgetsDiffer
<1>1. /\ Good(a) /\ SameHead(d, a) /\ SameLines(d, a) /\ a.fault = d.fault
      /\ Simple(d) /\ Value(l) \notin Linked(d) => Simple(a) /\ Linked(a) = Linked(d)
  BY <1>0, ResetOf
<1>2. PICK action \in {"vOpenEditorAction", "vCheckboxAction", "vHyperlinkAction"} :
          /\ OnDisplay(d, l, row) = NewValueWidget(d, l, row, action)
          /\ action = "vHyperlinkAction" => Type(d, l) = "Hyperlink"
  BY ValueDrawn DEF Good
<1>3. b = [a EXCEPT !.row[l] = row, !.click[l] = action]
  BY <1>2 DEF NewValueWidget
<1> HIDE DEF a, b
<1>4. a \in Displays /\ Tree(a)
  BY <1>1 DEF Good
<1>5. /\ b.tag = a.tag /\ b.pool = a.pool /\ b.drawn = a.drawn
      /\ b.chain = a.chain /\ b.loose = a.loose /\ b.up = a.up /\ b.fault = a.fault
      /\ b.row = [a.row EXCEPT ![l] = row] /\ b.click = [a.click EXCEPT ![l] = action]
  BY <1>3, <1>4 DEF Displays
<1>6. SameHead(a, b)
  BY <1>3, <1>4 DEF Displays, SameHead
<1>7. b \in Displays
  <2>1. /\ b.row \in [Lines -> 0 .. DISPLAY_LINES_PER_VIEW]
        /\ b.click \in [Lines -> {Free, "vOpenEditorAction", "vCheckboxAction", "vHyperlinkAction"}]
    BY <1>4, <1>5 DEF Displays
  <2> QED BY <1>3, <1>4, <2>1 DEF Displays
<1>8. Linked(b) = Linked(a)
  BY <1>5 DEF Linked
<1>9. Good(b) /\ (Simple(a) => Simple(b))
  BY <1>4, <1>5, <1>7, <1>8 DEF Good, Tree, Simple
<1>10. /\ Good(e) /\ SameHead(b, e) /\ SameLines(b, e)
       /\ Simple(b) => Simple(e) /\ Linked(e) = Linked(b) \cup {Value(l)} /\ e.fault = b.fault
  BY <1>0, <1>9, WidgetAdded
<1> HIDE DEF e
<1>11. /\ SameHead(d, e) /\ e.tag = d.tag /\ e.pool = d.pool /\ e.drawn = d.drawn
       /\ e.click = [d.click EXCEPT ![l] = action]
  BY <1>1, <1>5, <1>6, <1>10 DEF SameHead, SameLines
<1>13. ClicksKept(d, e)
  <2>1. DOMAIN d.click = Lines
    BY DEF Good, Displays
  <2> QED BY <1>2, <1>11, <2>1 DEF ClicksKept
<1>12. ASSUME Simple(d), Live(d), Value(l) \notin Linked(d), l \in d.drawn
       PROVE  /\ Simple(e) /\ Live(e) /\ e.fault = d.fault
              /\ Linked(e) = Linked(d) \cup {Value(l)}
  <2>1. Simple(e) /\ e.fault = d.fault /\ Linked(e) = Linked(d) \cup {Value(l)}
    BY <1>1, <1>5, <1>8, <1>9, <1>10, <1>12
  <2>2. Live(e)
    <3> SUFFICES ASSUME NEW m \in Lines
                 PROVE  /\ Label(m) \in Linked(e) \/ Value(m) \in Linked(e) => m \in e.drawn
                        /\ Value(m) \in Linked(e) => HasValue(Type(e, m))
      BY DEF Live
    <3>1. Type(e, m) = Type(d, m)
      BY <1>11 DEF Type
    <3>2. Value(m) \in Linked(e) => m = l \/ Value(m) \in Linked(d)
      BY <2>1, WidgetsDiffer
    <3>3. Label(m) \in Linked(e) => Label(m) \in Linked(d)
      BY <2>1, WidgetsDiffer
    <3> QED BY <1>11, <1>12, <3>1, <3>2, <3>3 DEF Live
  <2> QED BY <2>1, <2>2
<1> QED BY <1>10, <1>11, <1>12, <1>13 DEF e, b

LEMMA LineDrawn ==
    ASSUME NEW d, Good(d), NEW line, line.id \in Lines,
           line.row \in 0 .. DISPLAY_LINES_PER_VIEW,
           d.tag[line.id] # Free => Tag[d.tag[line.id]].type \notin {"Titel", "SubmitInputField"}
    PROVE  LET e == DrawLine(d, line)
               l == line.id
           IN /\ Good(e) /\ SameHead(d, e) /\ e.tag = d.tag /\ e.pool = d.pool
              /\ e.drawn = IF d.tag[l] = Free THEN d.drawn ELSE d.drawn \cup {l}
              /\ ClicksKept(d, e)
              /\ Simple(d) /\ Live(d) /\ d.tag[l] # Free /\ l \notin d.drawn =>
                     /\ Simple(e) /\ Live(e) /\ e.fault = d.fault
                     /\ Linked(e) \subseteq Linked(d) \cup {Label(l), Value(l)}
                     /\ Linked(d) \subseteq Linked(e)
<1> DEFINE l == line.id
           a == WidgetAdd(LabelWidget(d, l), Label(l))
           e == DrawLine(d, line)
<1>1. CASE d.tag[l] = Free
  <2>1. e = Fault(d, "freed")
    BY <1>1 DEF DrawLine
  <2> QED BY <1>1, <2>1, Faulted DEF Faults, SameLines, ClicksKept
<1>2. CASE d.tag[l] # Free
  <2>1. /\ Good(a) /\ SameHead(d, a) /\ a.tag = d.tag /\ a.pool = d.pool
        /\ a.drawn = d.drawn \cup {l} /\ a.click = d.click
        /\ Simple(d) /\ Live(d) /\ l \notin d.drawn =>
               /\ Simple(a) /\ Live(a) /\ a.fault = d.fault
               /\ Linked(a) = Linked(d) \cup {Label(l)}
    BY LabelDrawn
  <2>2. e = IF HasValue(Type(d, l)) THEN WidgetAdd(OnDisplay(a, l, line.row), Value(l)) ELSE a
    BY <1>2 DEF DrawLine
  <2> HIDE DEF a, e
  <2>3. Type(a, l) = Type(d, l)
    BY <2>1 DEF Type
  <2>4. CASE ~HasValue(Type(d, l))
    <3>1. e = a
      BY <2>2, <2>4
    <3> QED BY <1>2, <2>1, <3>1 DEF e, ClicksKept
  <2>5. CASE HasValue(Type(d, l))
    <3>1. e = WidgetAdd(OnDisplay(a, l, line.row), Value(l))
      BY <2>2, <2>5
    <3>2. /\ Good(e) /\ SameHead(a, e) /\ e.tag = a.tag /\ e.pool = a.pool
          /\ e.drawn = a.drawn /\ ClicksKept(a, e)
          /\ Simple(a) /\ Live(a) /\ Value(l) \notin Linked(a) /\ l \in a.drawn =>
                 /\ Simple(e) /\ Live(e) /\ e.fault = a.fault
                 /\ Linked(e) = Linked(a) \cup {Value(l)}
      BY <2>1, <2>3, <2>5, <3>1, ValueAdded
    <3>3. SameHead(d, e)
      BY <2>1, <3>2 DEF SameHead
    <3>4. Live(d) /\ l \notin d.drawn /\ Linked(a) = Linked(d) \cup {Label(l)} => Value(l) \notin Linked(a)
      BY WidgetsDiffer DEF Live
    <3>5. ClicksKept(d, e)
      BY <2>1, <3>2 DEF ClicksKept, Type
    <3> QED BY <1>2, <2>1, <3>2, <3>3, <3>4, <3>5 DEF e
  <2> QED BY <2>4, <2>5
<1> QED BY <1>1, <1>2

LEMMA MinOfTwo ==
    ASSUME NEW a \in Int, NEW b \in Int
    PROVE  /\ Min({a, b}) \in {a, b} /\ Min({a, b}) <= a /\ Min({a, b}) <= b
<1>1. \E x \in {a, b} : \A y \in {a, b} : x <= y
  <2>1. CASE a <= b
    BY <2>1
  <2>2. CASE ~(a <= b)
    BY <2>2
  <2> QED BY <2>1, <2>2
<1>2. Min({a, b}) \in {a, b} /\ \A y \in {a, b} : Min({a, b}) <= y
  BY <1>1, Zenon DEF Min
<1> QED BY <1>2

\* The lines in view are part of the list.
LEMMA ViewOf ==
    ASSUME NEW d \in Displays, d.entities # <<>>
    PROVE  /\ Skipped(d) \in Nat
           /\ \E n \in Nat :
                 /\ Len(InView(d)) = n /\ n <= DISPLAY_LINES_PER_VIEW
                 /\ DOMAIN InView(d) = 1 .. n
                 /\ \A k \in 1 .. n :
                       /\ Skipped(d) + k \in 1 .. Len(d.entities)
                       /\ InView(d)[k].id = d.entities[Skipped(d) + k]
                       /\ InView(d)[k].id \in Lines
                       /\ InView(d)[k].row = k - 1
<1> DEFINE s == Skipped(d)
           n == Min({DISPLAY_LINES_PER_VIEW, Len(d.entities) - s})
           v == InView(d)
<1>1. /\ d.entities \in Seq(Lines) /\ Len(d.entities) \in Nat \ {0} /\ d.offset \in Nat
      /\ DISPLAY_LINES_PER_VIEW \in Nat \ {0}
  <2>1. d.entities \in Seq(Lines) /\ d.offset \in 0 .. MAX_OFFSET
    BY DEF Displays
  <2>2. Len(d.entities) # 0
    BY <2>1
  <2> QED BY <2>1, <2>2, DisplayAssumption
<1>2. s \in {d.offset, Len(d.entities) - 1} /\ s <= Len(d.entities) - 1
  <2>1. d.offset \in Int /\ Len(d.entities) - 1 \in Int
    BY <1>1
  <2>2. s = Min({d.offset, Len(d.entities) - 1})
    BY DEF Skipped
  <2> QED BY <2>1, <2>2, MinOfTwo, Zenon
<1>3. s \in Nat /\ s <= Len(d.entities) - 1
  BY <1>1, <1>2
<1>4. v = [k \in 1 .. n |-> [id |-> d.entities[s + k], row |-> k - 1]]
  BY DEF InView
<1> HIDE DEF s, v
<1>5. /\ n \in {DISPLAY_LINES_PER_VIEW, Len(d.entities) - s}
      /\ n <= DISPLAY_LINES_PER_VIEW /\ n <= Len(d.entities) - s
  <2>1. DISPLAY_LINES_PER_VIEW \in Int /\ Len(d.entities) - s \in Int
    BY <1>1, <1>3
  <2> QED BY <2>1, MinOfTwo, Zenon
<1> HIDE DEF n
<1>6. n \in Nat
  BY <1>1, <1>3, <1>5
<1>7. DOMAIN v = 1 .. n /\ \A k \in 1 .. n : v[k] = [id |-> d.entities[s + k], row |-> k - 1]
  BY <1>4
<1>8. Len(v) = n
  BY <1>4, <1>6
<1>9. \A k \in 1 .. n : s + k \in 1 .. Len(d.entities)
  BY <1>1, <1>3, <1>5, <1>6
<1>10. ASSUME NEW k \in 1 .. n
       PROVE  /\ v[k].id = d.entities[s + k] /\ v[k].id \in Lines /\ v[k].row = k - 1
  <2>1. v[k].id = d.entities[s + k] /\ v[k].row = k - 1
    BY <1>7
  <2>2. d.entities[s + k] \in Lines
    BY <1>1, <1>9
  <2> QED BY <2>1, <2>2
<1> QED BY <1>3, <1>5, <1>6, <1>7, <1>8, <1>9, <1>10 DEF s, v

\* The displays after the first k lines in view were drawn.
Drawn(d, k) ==
    { e \in Displays :
        /\ Good(e) /\ SameHead(d, e) /\ e.tag = d.tag /\ e.pool = d.pool
        /\ \A l \in e.drawn : d.tag[l] # Free
        /\ ClicksKept(d, e)
        /\ Simple(d) /\ Live(d) /\ d.drawn = {} =>
              /\ Simple(e) /\ Live(e) /\ e.fault = d.fault
              /\ \A l \in e.drawn : \E j \in 1 .. k : l = InView(d)[j].id
              /\ Linked(e) \cap {Menu, Save} = Linked(d) \cap {Menu, Save} }

LEMMA DrawnMore ==
    ASSUME NEW d, Good(d), Listed(d), d.displayEntities,
           NEW k \in 1 .. Len(InView(d)), NEW x \in Drawn(d, k - 1)
    PROVE  DrawLine(x, InView(d)[k]) \in Drawn(d, k)
<1> DEFINE line == InView(d)[k]
           l == line.id
           e == DrawLine(x, line)
<1>0. d \in Displays /\ d.entities # <<>> /\ DupFree(d.entities)
      /\ d.entities \in Seq(Lines) /\ DOMAIN d.entities = 1 .. Len(d.entities)
  BY DEF Good, Displays, Listed
<1>1. PICK n \in Nat :
          /\ Len(InView(d)) = n /\ n <= DISPLAY_LINES_PER_VIEW
          /\ DOMAIN InView(d) = 1 .. n
          /\ \A j \in 1 .. n :
                /\ Skipped(d) + j \in 1 .. Len(d.entities)
                /\ InView(d)[j].id = d.entities[Skipped(d) + j]
                /\ InView(d)[j].id \in Lines
                /\ InView(d)[j].row = j - 1
  BY <1>0, ViewOf, Zenon
<1>2. k \in 1 .. n /\ l \in Lines /\ line.row = k - 1
  BY <1>1
<1>3. line.row \in 0 .. DISPLAY_LINES_PER_VIEW
  <2>1. DISPLAY_LINES_PER_VIEW \in Nat
    BY DisplayAssumption
  <2>2. k - 1 \in 0 .. DISPLAY_LINES_PER_VIEW
    BY <1>1, <1>2, <2>1
  <2> QED BY <1>2, <2>2
<1>4. d.tag[l] # Free
  <2>1. l \in ToSet(d.entities)
    BY <1>0, <1>1, <1>2, Zenon DEF ToSet
  <2> QED BY <1>2, <2>1 DEF Listed
<1>5. d.tag[l] # Free => Tag[d.tag[l]].type \notin {"Titel", "SubmitInputField"}
  BY <1>2 DEF Listed
<1>6. \A j \in 1 .. k - 1 : l # InView(d)[j].id
  <2> SUFFICES ASSUME NEW j \in 1 .. k - 1, l = InView(d)[j].id PROVE FALSE
    OBVIOUS
  <2>1. j \in 1 .. n /\ j # k
    BY <1>1, <1>2
  <2>2. d.entities[Skipped(d) + j] = d.entities[Skipped(d) + k]
    BY <1>1, <1>2, <2>1
  <2>3. Skipped(d) + j = Skipped(d) + k
    BY <1>0, <1>1, <1>2, <2>1, <2>2, Zenon DEF DupFree
  <2>4. Skipped(d) \in Nat
    BY <1>0, ViewOf
  <2> QED BY <2>1, <2>3, <2>4
<1> HIDE DEF l, line
<1>7. /\ Good(x) /\ SameHead(d, x) /\ x.tag = d.tag /\ x.pool = d.pool
      /\ \A m \in x.drawn : d.tag[m] # Free
      /\ ClicksKept(d, x)
      /\ Simple(d) /\ Live(d) /\ d.drawn = {} =>
            /\ Simple(x) /\ Live(x) /\ x.fault = d.fault
            /\ \A m \in x.drawn : \E j \in 1 .. k - 1 : m = InView(d)[j].id
            /\ Linked(x) \cap {Menu, Save} = Linked(d) \cap {Menu, Save}
  BY DEF Drawn
<1>8. line.id = l /\ x.tag[l] # Free
      /\ (x.tag[l] # Free => Tag[x.tag[l]].type \notin {"Titel", "SubmitInputField"})
  BY <1>4, <1>5, <1>7 DEF l
<1>9. /\ Good(e) /\ SameHead(x, e) /\ e.tag = x.tag /\ e.pool = x.pool
      /\ e.drawn = x.drawn \cup {l} /\ ClicksKept(x, e)
      /\ Simple(x) /\ Live(x) /\ l \notin x.drawn =>
             /\ Simple(e) /\ Live(e) /\ e.fault = x.fault
             /\ Linked(e) \subseteq Linked(x) \cup {Label(l), Value(l)}
             /\ Linked(x) \subseteq Linked(e)
  <2>1. /\ Good(e) /\ SameHead(x, e) /\ e.tag = x.tag /\ e.pool = x.pool
        /\ e.drawn = IF x.tag[l] = Free THEN x.drawn ELSE x.drawn \cup {l}
        /\ ClicksKept(x, e)
        /\ Simple(x) /\ Live(x) /\ x.tag[l] # Free /\ l \notin x.drawn =>
               /\ Simple(e) /\ Live(e) /\ e.fault = x.fault
               /\ Linked(e) \subseteq Linked(x) \cup {Label(l), Value(l)}
               /\ Linked(x) \subseteq Linked(e)
    <3>1. /\ Good(x) /\ line.id \in Lines /\ line.row \in 0 .. DISPLAY_LINES_PER_VIEW
          /\ x.tag[line.id] # Free => Tag[x.tag[line.id]].type \notin {"Titel", "SubmitInputField"}
      BY <1>2, <1>3, <1>7, <1>8
    <3> USE DEF l
    <3> QED BY <3>1, LineDrawn
  <2> QED BY <1>8, <2>1
<1> HIDE DEF e
<1>10. SameHead(d, e) /\ e.tag = d.tag /\ e.pool = d.pool /\ e \in Displays
  BY <1>7, <1>9 DEF SameHead, Good
<1>11. \A m \in e.drawn : d.tag[m] # Free
  BY <1>4, <1>7, <1>9
<1>12. ASSUME Simple(d), Live(d), d.drawn = {}
       PROVE  /\ Simple(e) /\ Live(e) /\ e.fault = d.fault
              /\ \A m \in e.drawn : \E j \in 1 .. k : m = InView(d)[j].id
              /\ Linked(e) \cap {Menu, Save} = Linked(d) \cap {Menu, Save}
  <2>1. l \notin x.drawn
    BY <1>6, <1>7, <1>12
  <2>2. /\ Simple(e) /\ Live(e) /\ e.fault = d.fault
        /\ Linked(e) \subseteq Linked(x) \cup {Label(l), Value(l)}
        /\ Linked(x) \subseteq Linked(e)
    BY <1>7, <1>9, <1>12, <2>1
  <2>3. \A m \in e.drawn : \E j \in 1 .. k : m = InView(d)[j].id
    <3>1. k \in 1 .. k /\ \A j \in 1 .. k - 1 : j \in 1 .. k
      BY <1>1, <1>2
    <3>2. l = InView(d)[k].id
      BY DEF l, line
    <3> QED BY <1>7, <1>9, <1>12, <3>1, <3>2
  <2>4. Linked(e) \cap {Menu, Save} = Linked(d) \cap {Menu, Save}
    <3>1. {Menu, Save} \cap {Label(l), Value(l)} = {}
      BY <1>2, WidgetsDiffer
    <3> QED BY <1>7, <1>12, <2>2, <3>1
  <2> QED BY <2>2, <2>3, <2>4
<1>13. ClicksKept(d, e)
  BY <1>7, <1>9 DEF ClicksKept, Type
<1> QED BY <1>9, <1>10, <1>11, <1>12, <1>13 DEF Drawn, e, line

LEMMA LinesDrawn ==
    ASSUME NEW d, Good(d), Listed(d), d.displayEntities
    PROVE  DrawLines(d) \in Drawn(d, Len(InView(d)))
<1> DEFINE n == Len(InView(d))
           G == [k \in 1 .. n |-> [x \in Displays |-> DrawLine(x, InView(d)[k])]]
           D == [k \in 0 .. n |-> Drawn(d, k)]
           Fold(f) == f = [k \in 0 .. n |-> IF k = 0 THEN d ELSE DrawLine(f[k - 1], InView(d)[k])]
           drawn == CHOOSE f : Fold(f)
<1>1. n \in Nat /\ d \in Displays
  <2>1. d \in Displays /\ d.entities # <<>>
    BY DEF Good, Listed
  <2> QED BY <2>1, ViewOf
<1>2. /\ \A k \in 0 .. n : D[k] = Drawn(d, k)
      /\ \A k \in 0 .. n : D[k] \subseteq Displays
  BY DEF Drawn
<1>3. /\ \A k \in 1 .. n : k \in 0 .. n /\ k - 1 \in 0 .. n /\ k # 0
      /\ 0 \in 0 .. n /\ n \in 0 .. n
  BY <1>1
<1>4. \A k \in 1 .. n : \A x \in Displays : G[k][x] = DrawLine(x, InView(d)[k])
  OBVIOUS
<1>5. DrawLines(d) = drawn[n]
  BY DEF DrawLines
<1> HIDE DEF G, D, drawn
<1>6. d \in D[0]
  <2>1. d \in Drawn(d, 0)
    <3>1. SameHead(d, d)
      BY DEF SameHead
    <3>2. \A l \in d.drawn : d.tag[l] # Free
      BY DEF Listed
    <3> QED BY <1>1, <3>1, <3>2 DEF Drawn, ClicksKept
  <2> QED BY <1>2, <1>3, <2>1
<1>7. \A k \in 1 .. n : \A x \in D[k - 1] : DrawLine(x, InView(d)[k]) \in D[k]
  BY <1>2, <1>3, DrawnMore
<1>8. \A k \in 1 .. n : \A x \in D[k - 1] : G[k][x] \in D[k]
  BY <1>2, <1>3, <1>4, <1>7
<1> HIDE DEF n
<1>9. n \in Nat
  BY <1>1
<1>10. \E f : IsFold(f, n, d, G, D)
  BY <1>6, <1>8, <1>9, FoldExists, Zenon
<1>11. PICK f : IsFold(f, n, d, G, D)
  BY <1>10, Zenon
<1>12. Fold(f)
  <2>1. \A k \in 0 .. n : k = 0 \/ k \in 1 .. n
    BY <1>1
  <2>2. \A k \in 0 .. n : IF k = 0 THEN G[k][f[k - 1]] = G[k][f[k - 1]]
                          ELSE G[k][f[k - 1]] = DrawLine(f[k - 1], InView(d)[k])
    BY <1>2, <1>3, <1>4, <1>11, <2>1 DEF IsFold
  <2> QED BY <1>11, <2>2 DEF IsFold
<1>13. Fold(drawn)
  BY <1>12, Zenon DEF drawn
<1>14. drawn[0] = d /\ \A k \in 1 .. n : drawn[k] = DrawLine(drawn[k - 1], InView(d)[k])
  BY <1>3, <1>13
<1>15. \A k \in 0 .. n : drawn[k] \in D[k]
  BY <1>1, <1>6, <1>7, <1>14, Folded
<1> QED BY <1>2, <1>3, <1>5, <1>15 DEF n

LEMMA ButtonDrawn ==
    ASSUME NEW d, Good(d), NEW on, NEW w \in Widgets
    PROVE  LET e == DrawButton(d, on, w)
           IN /\ Good(e) /\ SameHead(d, e) /\ SameLines(d, e)
              /\ Simple(d) => /\ Simple(e) /\ e.fault = d.fault
                              /\ on => Linked(e) = Linked(d) \cup {w}
                              /\ ~on => Linked(e) = Linked(d) \ {w}
<1>1. CASE on
  BY <1>1, WidgetAdded DEF DrawButton
<1>2. CASE ~on
  BY <1>2, WidgetRemoved DEF DrawButton
<1> QED BY <1>1, <1>2

\* What Listed says is not about widgets.
LEMMA ListedKept ==
    ASSUME NEW d, NEW e, Listed(d), SameHead(d, e), e.tag = d.tag, e.pool = d.pool,
           \A l \in e.drawn : d.tag[l] # Free,
           ClicksKept(d, e)
    PROVE  Listed(e)
<1>1. Clicks(e)
  BY DEF Listed, Clicks, ClicksKept, Type
<1> QED BY <1>1 DEF Listed, SameHead

LEMMA ListedSame ==
    ASSUME NEW d, NEW e, Listed(d), SameHead(d, e), SameLines(d, e)
    PROVE  Listed(e)
<1>1. Clicks(e)
  BY DEF Listed, Clicks, SameLines, Type
<1> QED BY <1>1 DEF Listed, SameHead, SameLines

LEMMA ElementsDrawn ==
    ASSUME NEW d, Good(d), Listed(d)
    PROVE  LET e == DrawElements(d)
           IN /\ Good(e) /\ SameHead(d, e) /\ Listed(e) /\ e.tag = d.tag
              /\ Simple(d) /\ Live(d) /\ d.drawn = {} =>
                    /\ Simple(e) /\ Live(e) /\ e.fault = d.fault
                    /\ ~d.menue => Menu \notin Linked(e)
                    /\ Save \in Linked(e) <=> d.save
<1> DEFINE a == DrawButton(d, d.menue, Menu)
           b == DrawButton(a, d.save, Save)
           h == WidgetAdd(b, Title)
           m == DrawLines(h)
           u == DrawButton(m, d.offset > 0, Up)
           v == DrawButton(u, Skipped(d) + DISPLAY_LINES_PER_VIEW < Len(d.entities), Down)
           e == DrawElements(d)
           Quiet == Simple(d) /\ Live(d) /\ d.drawn = {}
           Apart(x) == (~d.menue => Menu \notin Linked(x)) /\ (Save \in Linked(x) <=> d.save)
<1>0. /\ {Menu, Save, Up, Down, Title} \subseteq Widgets
      /\ Menu # Save /\ Menu # Title /\ Save # Title /\ {Menu, Save, Title} \cap {Up, Down} = {}
  BY WidgetsDiffer
<1>1. e = IF d.displayEntities THEN v ELSE h
  BY DEF DrawElements
<1>2. /\ Good(a) /\ SameHead(d, a) /\ SameLines(d, a)
      /\ Simple(d) => /\ Simple(a) /\ a.fault = d.fault
                      /\ d.menue => Linked(a) = Linked(d) \cup {Menu}
                      /\ ~d.menue => Linked(a) = Linked(d) \ {Menu}
  BY <1>0, ButtonDrawn
<1> HIDE DEF a
<1>3. /\ Good(b) /\ SameHead(a, b) /\ SameLines(a, b)
      /\ Simple(a) => /\ Simple(b) /\ b.fault = a.fault
                      /\ d.save => Linked(b) = Linked(a) \cup {Save}
                      /\ ~d.save => Linked(b) = Linked(a) \ {Save}
  BY <1>0, <1>2, ButtonDrawn
<1> HIDE DEF b
<1>4. /\ Good(h) /\ SameHead(b, h) /\ SameLines(b, h)
      /\ Simple(b) => Simple(h) /\ Linked(h) = Linked(b) \cup {Title} /\ h.fault = b.fault
  BY <1>0, <1>3, WidgetAdded
<1> HIDE DEF h
<1>5. SameHead(d, h) /\ SameLines(d, h)
  BY <1>2, <1>3, <1>4 DEF SameHead, SameLines
<1>6. Listed(h)
  BY <1>5, ListedSame
<1>7. Quiet => Simple(h) /\ Live(h) /\ h.fault = d.fault /\ Apart(h) /\ h.drawn = {}
  <2> SUFFICES ASSUME Quiet PROVE Simple(h) /\ Live(h) /\ h.fault = d.fault /\ Apart(h) /\ h.drawn = {}
    OBVIOUS
  <2>1. Simple(h) /\ h.fault = d.fault
    BY <1>2, <1>3, <1>4
  <2>2. Linked(h) \subseteq Linked(d) \cup {Menu, Save, Up, Down, Title}
    BY <1>2, <1>3, <1>4
  <2>3. Live(h)
    BY <1>5, <2>2, LiveKept
  <2>4. ~d.menue => Menu \notin Linked(h)
    BY <1>0, <1>2, <1>3, <1>4
  <2>5. Save \in Linked(h) <=> d.save
    BY <1>0, <1>2, <1>3, <1>4
  <2> QED BY <1>5, <2>1, <2>3, <2>4, <2>5 DEF SameLines
<1>8. CASE ~d.displayEntities
  <2>1. e = h
    BY <1>1, <1>8
  <2> QED BY <1>4, <1>5, <1>6, <1>7, <2>1 DEF e, SameLines
<1>9. CASE d.displayEntities
  <2>1. h.displayEntities
    BY <1>5, <1>9 DEF SameHead
  <2>2. m \in Drawn(h, Len(InView(h)))
    BY <1>4, <1>6, <2>1, LinesDrawn
  <2> HIDE DEF m
  <2>3. /\ Good(m) /\ SameHead(h, m) /\ m.tag = h.tag /\ m.pool = h.pool
        /\ \A l \in m.drawn : h.tag[l] # Free
        /\ ClicksKept(h, m)
        /\ Simple(h) /\ Live(h) /\ h.drawn = {} =>
              /\ Simple(m) /\ Live(m) /\ m.fault = h.fault
              /\ Linked(m) \cap {Menu, Save} = Linked(h) \cap {Menu, Save}
    BY <2>2 DEF Drawn
  <2>4. /\ Good(u) /\ SameHead(m, u) /\ SameLines(m, u)
        /\ Simple(m) => /\ Simple(u) /\ u.fault = m.fault
                        /\ Linked(u) \in {Linked(m) \cup {Up}, Linked(m) \ {Up}}
    BY <1>0, <2>3, ButtonDrawn
  <2> HIDE DEF u
  <2>5. /\ Good(v) /\ SameHead(u, v) /\ SameLines(u, v)
        /\ Simple(u) => /\ Simple(v) /\ v.fault = u.fault
                        /\ Linked(v) \in {Linked(u) \cup {Down}, Linked(u) \ {Down}}
    BY <1>0, <2>4, ButtonDrawn
  <2> HIDE DEF v
  <2>6. e = v
    BY <1>1, <1>9
  <2> HIDE DEF e
  <2>7. SameHead(d, e) /\ e.tag = d.tag /\ e.pool = d.pool /\ e.drawn = m.drawn
    BY <1>5, <2>3, <2>4, <2>5, <2>6 DEF SameHead, SameLines
  <2>8. Listed(e)
    <3>1. \A l \in e.drawn : d.tag[l] # Free
      BY <1>5, <2>3, <2>7 DEF SameLines
    <3>2. ClicksKept(d, e)
      BY <1>5, <2>3, <2>4, <2>5, <2>6 DEF ClicksKept, SameLines, Type
    <3> QED BY <2>7, <3>1, <3>2, ListedKept
  <2>9. ASSUME Quiet PROVE Simple(e) /\ Live(e) /\ e.fault = d.fault /\ Apart(e)
    <3>1. /\ Simple(m) /\ Live(m) /\ m.fault = d.fault
          /\ Linked(m) \cap {Menu, Save} = Linked(h) \cap {Menu, Save}
      BY <1>7, <2>3, <2>9
    <3>2. /\ Simple(e) /\ e.fault = d.fault /\ Linked(e) \subseteq Linked(m) \cup {Up, Down}
          /\ Linked(m) \ {Up, Down} \subseteq Linked(e)
      BY <2>4, <2>5, <2>6, <3>1
    <3>3. SameLines(m, e)
      BY <2>4, <2>5, <2>6 DEF SameLines
    <3>4. Live(e)
      <4>1. Linked(e) \subseteq Linked(m) \cup {Menu, Save, Up, Down, Title}
        BY <3>2
      <4> QED BY <3>1, <3>3, <4>1, LiveKept
    <3>5. Apart(e)
      BY <1>0, <1>7, <2>9, <3>1, <3>2
    <3> QED BY <3>2, <3>4, <3>5
  <2> QED BY <2>5, <2>6, <2>7, <2>8, <2>9 DEF e
<1> QED BY <1>8, <1>9

-----------------------------------------------------------------------------
(* Lines that are received. *)

Tokens == DOMAIN Tag \cup {"$", "text"}

\* Elements of T were appended to s.
Grown(s, T, u) ==
    /\ Len(s) <= Len(u) /\ \A i \in 1 .. Len(s) : u[i] = s[i]
    /\ ToSet(u) \subseteq ToSet(s) \cup T

LEMMA GrownMore ==
    ASSUME NEW W, NEW r \in Seq(W), NEW s \in Seq(W), NEW u \in Seq(W), NEW T,
           Grown(r, T, s), Grown(s, T, u)
    PROVE  Grown(r, T, u)
<1>1. Len(r) \in Nat /\ Len(s) \in Nat /\ Len(u) \in Nat /\ Len(r) <= Len(s) /\ Len(s) <= Len(u)
  BY DEF Grown
<1>2. Len(r) <= Len(u) /\ \A i \in 1 .. Len(r) : i \in 1 .. Len(s)
  BY <1>1
<1>3. \A i \in 1 .. Len(r) : u[i] = r[i]
  BY <1>2 DEF Grown
<1> QED BY <1>2, <1>3 DEF Grown

LEMMA GrownByOne ==
    ASSUME NEW W, NEW s \in Seq(W), NEW T, NEW t \in W, t \in T
    PROVE  Grown(s, T, Append(s, t)) /\ Grown(s, T, s)
<1> DEFINE u == Append(s, t)
<1>1. /\ Len(s) \in Nat /\ Len(u) = Len(s) + 1 /\ DOMAIN u = 1 .. Len(s) + 1
      /\ DOMAIN s = 1 .. Len(s)
      /\ \A i \in 1 .. Len(s) : u[i] = s[i]
      /\ \A i \in 1 .. Len(s) + 1 : i \in 1 .. Len(s) \/ u[i] = t
  OBVIOUS
<1> HIDE DEF u
<1>2. ToSet(u) \subseteq ToSet(s) \cup T
  BY <1>1 DEF ToSet
<1>3. Len(s) <= Len(u) /\ Len(s) <= Len(s)
  BY <1>1
<1> QED BY <1>1, <1>2, <1>3 DEF Grown, u

\* What the list shows are tags.
LEMMA ShownTags ==
    ASSUME NEW d, Good(d), Listed(d)
    PROVE  /\ Shown(d) \in Seq(DOMAIN Tag)
           /\ \A k \in DOMAIN d.entities : d.displayEntities => d.tag[d.entities[k]] # Free
<1>1. d.entities \in Seq(Lines) /\ d.tag \in [Lines -> DOMAIN Tag \cup {Free}]
  BY DEF Good, Displays
<1>2. CASE d.displayEntities
  <2>1. ASSUME NEW k \in DOMAIN d.entities
        PROVE  d.tag[d.entities[k]] \in DOMAIN Tag /\ d.tag[d.entities[k]] # Free
    <3>1. d.entities[k] \in Lines /\ d.entities[k] \in ToSet(d.entities)
      BY <1>1 DEF ToSet
    <3>2. d.tag[d.entities[k]] # Free
      BY <1>2, <3>1 DEF Listed
    <3> QED BY <1>1, <3>1, <3>2
  <2>2. Shown(d) = [k \in 1 .. Len(d.entities) |-> d.tag[d.entities[k]]]
    BY <1>1, <1>2 DEF Shown
  <2>3. DOMAIN d.entities = 1 .. Len(d.entities) /\ Len(d.entities) \in Nat
    BY <1>1
  <2> QED BY <2>1, <2>2, <2>3
<1>3. CASE ~d.displayEntities
  BY <1>3 DEF Shown
<1> QED BY <1>2, <1>3

\* The list of two displays with the same lines.
LEMMA ShownKept ==
    ASSUME NEW d, NEW e, e.tag = d.tag, e.entities = d.entities,
           e.displayEntities = d.displayEntities
    PROVE  Shown(e) = Shown(d)
BY DEF Shown

\* A display after some tags of T were loaded into it.
Filled(d, T, e) ==
    /\ Good(e) /\ Listed(e)
    /\ e.chain = d.chain /\ e.loose = d.loose /\ e.up = d.up
    /\ e.drawn = d.drawn /\ e.initialized = d.initialized
    /\ e.fault \in {d.fault, "memory"} /\ (e.fault = "none" => d.fault = "none")
    /\ d.displayEntities => e.displayEntities
    /\ e.save => d.save \/ \E t \in T : Tag[t].type = "SubmitInputField"
    /\ d.save => e.save
    /\ e.title = d.title \/ \E t \in T : Tag[t].type = "Titel" /\ e.title = t
    /\ e.fault = "none" => Grown(Shown(d), T, Shown(e))

LEMMA FilledSame ==
    ASSUME NEW d, Good(d), Listed(d), NEW T PROVE Filled(d, T, d)
<1>1. Shown(d) \in Seq(DOMAIN Tag)
  BY ShownTags
<1>2. Grown(Shown(d), T, Shown(d))
  <2>1. Len(Shown(d)) <= Len(Shown(d))
    BY <1>1
  <2> QED BY <2>1 DEF Grown
<1> QED BY <1>2 DEF Filled

LEMMA FilledMore ==
    ASSUME NEW d, Good(d), Listed(d), NEW T, NEW a, NEW e, Filled(d, T, a), Filled(a, T, e)
    PROVE  Filled(d, T, e)
<1>1. e.fault \in {d.fault, "memory"} /\ (e.fault = "none" => d.fault = "none")
  BY DEF Filled
<1>2. e.save => d.save \/ \E t \in T : Tag[t].type = "SubmitInputField"
  BY DEF Filled
<1>3. d.save => e.save
  BY DEF Filled
<1>4. e.title = d.title \/ \E t \in T : Tag[t].type = "Titel" /\ e.title = t
  <2>1. CASE e.title = a.title
    BY <2>1 DEF Filled
  <2>2. CASE e.title # a.title
    BY <2>2 DEF Filled
  <2> QED BY <2>1, <2>2
<1>5. ASSUME e.fault = "none" PROVE Grown(Shown(d), T, Shown(e))
  <2>1. Good(a) /\ Listed(a) /\ Good(e) /\ Listed(e) /\ a.fault = "none"
    BY <1>5 DEF Filled
  <2>2. /\ Shown(d) \in Seq(DOMAIN Tag) /\ Shown(a) \in Seq(DOMAIN Tag)
        /\ Shown(e) \in Seq(DOMAIN Tag)
    BY <2>1, ShownTags
  <2>3. Grown(Shown(d), T, Shown(a)) /\ Grown(Shown(a), T, Shown(e))
    BY <1>5, <2>1 DEF Filled
  <2> QED BY <2>2, <2>3, GrownMore
<1> QED BY <1>1, <1>2, <1>3, <1>4, <1>5 DEF Filled

LEMMA TagNotFree ==
    \A t \in DOMAIN Tag : t # Free /\ t # "$" /\ t # "text" /\ Tag[t].type \in TagTypes
<1>1. {"$", "text", "free"} \cap DOMAIN Tag = {}
  BY DisplayAssumption
<1>2. \A t \in DOMAIN Tag : Tag[t].type \in TagTypes
  BY DisplayAssumption
<1> QED BY <1>1, <1>2 DEF Free

LEMMA EntityCreated ==
    ASSUME NEW d, Good(d), Listed(d), NEW t \in DOMAIN Tag, NEW T, t \in T,
           Tag[t].type \notin {"Titel", "SubmitInputField"}
    PROVE  LET e == CreateNewEntity(d, t)
           IN /\ Filled(d, T, e) /\ e.title = d.title /\ e.save = d.save
              /\ e.fault = "none" => e.displayEntities /\ Shown(e) = Append(Shown(d), t)
<1> DEFINE e == CreateNewEntity(d, t)
<1>1. d \in Displays /\ Tree(d)
  BY DEF Good
<1>2. /\ d.pool \in Seq(Lines) /\ d.entities \in Seq(Lines) /\ d.displayEntities \in BOOLEAN
      /\ d.tag \in [Lines -> DOMAIN Tag \cup {Free}] /\ d.drawn \subseteq Lines
  BY <1>1 DEF Displays
<1>3. CASE d.pool = <<>>
  <2>1. e = Fault(d, "memory")
    BY <1>3 DEF CreateNewEntity
  <2> HIDE DEF e
  <2>2. /\ Good(e) /\ SameHead(d, e) /\ SameLines(d, e)
        /\ e.chain = d.chain /\ e.loose = d.loose /\ e.up = d.up
        /\ e.fault = IF d.fault = "none" THEN "memory" ELSE d.fault
    BY <2>1, Faulted DEF Faults
  <2>3. Listed(e)
    BY <2>2, ListedSame
  <2>4. e.fault # "none" /\ e.title = d.title /\ e.save = d.save
    BY <2>2 DEF SameHead
  <2> QED BY <2>2, <2>3, <2>4 DEF Filled, SameHead, SameLines, e
<1>4. CASE d.pool # <<>>
  <2> DEFINE l == Head(d.pool)
             p == Tail(d.pool)
             s == IF d.displayEntities THEN Append(d.entities, l) ELSE <<l>>
             f == [d.tag EXCEPT ![l] = t]
             a == [d EXCEPT !.tag = f, !.pool = p]
  <2>1. l \in Lines /\ p \in Seq(Lines) /\ l = d.pool[1] /\ 1 \in DOMAIN d.pool
    BY <1>2, <1>4
  <2>2. a = [d EXCEPT !.tag[l] = t, !.pool = Tail(d.pool)]
    BY <1>1 DEF Displays
  <2>3. e = [a EXCEPT !.entities = s, !.displayEntities = TRUE]
    <3>1. e = InsertIntoList(a, l)
      BY <1>4, <2>2 DEF CreateNewEntity
    <3>2. a.displayEntities = d.displayEntities /\ a.entities = d.entities
      BY <1>1 DEF Displays
    <3> HIDE DEF a, e, l
    <3> QED BY <3>1, <3>2 DEF InsertIntoList
  <2>4. f \in [Lines -> DOMAIN Tag \cup {Free}] /\ \A m \in Lines : f[m] = IF m = l THEN t ELSE d.tag[m]
    BY <1>2, <2>1
  <2>5. s \in Seq(Lines)
    BY <1>2, <2>1
  <2>6. l \in ToSet(d.pool)
    BY <2>1, Zenon DEF ToSet
  <2>7. d.tag[l] = Free
    BY <2>6 DEF Listed
  <2>8. s # <<>> /\ DupFree(s) /\ \A m \in Lines : m \in ToSet(s) <=> m = l \/ (d.displayEntities /\ m \in ToSet(d.entities))
    <3>1. CASE d.displayEntities
      <4> DEFINE c == d.entities
                 o == <<l>>
      <4>1. s = c \o o
        BY <1>2, <2>1, <3>1
      <4>2. c \in Seq(Lines) /\ DupFree(c) /\ o \in Seq(Lines) /\ ToSet(o) = {l}
        BY <1>2, <2>1, <3>1 DEF Listed, ToSet
      <4>3. DupFree(o)
        BY DEF DupFree
      <4>4. l \notin ToSet(c)
        BY <2>1, <2>7, <3>1 DEF Listed
      <4>5. c \o o # <<>>
        <5>1. Len(c \o o) = Len(c) + 1 /\ Len(c) \in Nat
          BY <4>2
        <5> QED BY <5>1
      <4> HIDE DEF c, o, s
      <4>6. DupFree(c \o o) /\ ToSet(c \o o) = ToSet(c) \cup ToSet(o)
        BY <4>2, <4>3, <4>4, Joined
      <4> QED BY <3>1, <4>1, <4>2, <4>5, <4>6 DEF c
    <3>2. CASE ~d.displayEntities
      <4>1. s = <<l>>
        BY <3>2
      <4>2. s # <<>> /\ DupFree(s) /\ ToSet(s) = {l}
        BY <4>1 DEF DupFree, ToSet
      <4> QED BY <3>2, <4>2
    <3> QED BY <3>1, <3>2
  <2>9. DupFree(p) /\ ToSet(p) \subseteq ToSet(d.pool) /\ l \notin ToSet(p)
    <3> DEFINE c == d.pool
    <3>1. /\ DOMAIN c = 1 .. Len(c) /\ DOMAIN p = 1 .. Len(c) - 1 /\ Len(c) \in Nat
          /\ \A i \in 1 .. Len(c) - 1 : p[i] = c[i + 1]
      BY <1>2, <1>4
    <3>2. \A i, j \in 1 .. Len(c) : c[i] = c[j] => i = j
      BY <3>1, Zenon DEF Listed, DupFree
    <3>3. \A i \in 1 .. Len(c) - 1 : i + 1 \in 1 .. Len(c) /\ i + 1 # 1
      BY <3>1
    <3>4. \A i, j \in 1 .. Len(c) - 1 : i + 1 = j + 1 => i = j
      BY <3>1
    <3>5. l = c[1] /\ 1 \in 1 .. Len(c)
      BY <1>2, <1>4
    <3> HIDE DEF c, p, l
    <3>6. DupFree(p)
      BY <3>1, <3>2, <3>3, <3>4 DEF DupFree
    <3>7. ToSet(p) \subseteq ToSet(c)
      BY <3>1, <3>3 DEF ToSet
    <3>8. l \notin ToSet(p)
      BY <3>1, <3>2, <3>3, <3>5 DEF ToSet
    <3> QED BY <3>6, <3>7, <3>8 DEF c
  <2> HIDE DEF f, p, s, l, e
  <2>10. /\ a \in Displays /\ a.chain = d.chain /\ a.loose = d.loose /\ a.up = d.up
         /\ a.drawn = d.drawn /\ a.initialized = d.initialized /\ a.fault = d.fault
         /\ a.tag = f /\ a.pool = p /\ a.save = d.save /\ a.click = d.click
         /\ a.title = d.title
    <3>1. a \in Displays
      BY <1>1, <2>1, <2>4 DEF Displays
    <3> QED BY <1>1, <3>1 DEF Displays
  <2> HIDE DEF a
  <2>11. /\ e \in Displays /\ e.chain = d.chain /\ e.loose = d.loose /\ e.up = d.up
         /\ e.drawn = d.drawn /\ e.initialized = d.initialized /\ e.fault = d.fault
         /\ e.tag = f /\ e.pool = p /\ e.save = d.save /\ e.click = d.click
         /\ e.entities = s /\ e.displayEntities = TRUE /\ e.title = d.title
    <3>1. e \in Displays
      BY <2>3, <2>5, <2>10 DEF Displays
    <3> QED BY <2>3, <2>10, <3>1 DEF Displays
  <2>12. Tree(e)
    BY <1>1, <2>11 DEF Tree, Linked
  <2>13. t # Free
    BY TagNotFree
  <2>14. Listed(e)
    <3>1. \A m \in Lines : e.tag[m] # Free <=> e.displayEntities /\ m \in ToSet(e.entities)
      BY <2>4, <2>8, <2>11, <2>13 DEF Listed
    <3>2. \A m \in ToSet(e.pool) : e.tag[m] = Free
      <4>1. ToSet(d.pool) \subseteq Lines
        BY <1>2 DEF ToSet
      <4>2. \A m \in ToSet(d.pool) : d.tag[m] = Free
        BY DEF Listed
      <4> QED BY <2>4, <2>9, <2>11, <4>1, <4>2
    <3>3. \A m \in e.drawn : e.tag[m] # Free
      BY <1>2, <2>4, <2>11, <2>13 DEF Listed
    <3>4. \A m \in Lines : e.tag[m] # Free => Tag[e.tag[m]].type \notin {"Titel", "SubmitInputField"}
      BY <2>4, <2>11 DEF Listed
    <3>5. Clicks(e)
      <4> SUFFICES ASSUME NEW m \in Lines, e.click[m] = "vHyperlinkAction"
                   PROVE  Type(e, m) = "Hyperlink"
        BY DEF Clicks
      <4>1. Type(d, m) = "Hyperlink"
        BY <2>11 DEF Listed, Clicks
      <4>2. m # l
        BY <2>7, <4>1 DEF Type, Free
      <4>3. e.tag[m] = d.tag[m]
        BY <2>4, <2>11, <4>2
      <4> QED BY <4>1, <4>3 DEF Type
    <3> QED BY <2>8, <2>9, <2>11, <3>1, <3>2, <3>3, <3>4, <3>5 DEF Listed
  <2>15. Shown(e) = Append(Shown(d), t)
    <3>1. DOMAIN d.entities = 1 .. Len(d.entities) /\ Len(d.entities) \in Nat
      BY <1>2
    <3>2. Shown(e) = [k \in DOMAIN s |-> f[s[k]]]
      BY <2>11 DEF Shown
    <3>3. CASE d.displayEntities
      <4>1. Shown(d) = [k \in 1 .. Len(d.entities) |-> d.tag[d.entities[k]]]
        BY <3>1, <3>3 DEF Shown
      <4> DEFINE n == Len(d.entities)
      <4>2. Shown(d) \in Seq(DOMAIN Tag) /\ Len(Shown(d)) = n
        BY <3>1, <4>1, ShownTags
      <4>3. /\ DOMAIN s = 1 .. n + 1 /\ s[n + 1] = l
            /\ \A k \in 1 .. n : s[k] = d.entities[k]
        BY <1>2, <2>1, <3>3 DEF s
      <4>4. ASSUME NEW k \in 1 .. n PROVE f[s[k]] = Shown(d)[k]
        <5>1. d.tag[d.entities[k]] # Free
          BY <3>1, <3>3, ShownTags
        <5>2. d.entities[k] \in Lines /\ d.entities[k] # l
          BY <1>2, <2>7, <5>1
        <5> QED BY <2>4, <4>1, <4>3, <5>2
      <4>5. f[s[n + 1]] = t
        BY <2>1, <2>4, <4>3
      <4> DEFINE u == Append(Shown(d), t)
      <4>6. /\ u \in Seq(DOMAIN Tag) /\ Len(u) = n + 1 /\ u[n + 1] = t
            /\ \A k \in 1 .. n : u[k] = Shown(d)[k]
        BY <4>2
      <4>7. Shown(e) \in Seq(DOMAIN Tag) /\ Len(Shown(e)) = n + 1
        <5>1. Shown(e) \in Seq(DOMAIN Tag)
          BY <2>11, <2>12, <2>14, ShownTags DEF Good
        <5>2. DOMAIN Shown(e) = 1 .. n + 1 /\ n + 1 \in Nat
          BY <3>1, <3>2, <4>3
        <5> QED BY <5>1, <5>2
      <4> HIDE DEF u, n
      <4>8. ASSUME NEW k \in 1 .. n + 1 PROVE Shown(e)[k] = u[k]
        <5>1. Shown(e)[k] = f[s[k]]
          BY <3>2, <4>3
        <5>2. k \in 1 .. n \/ k = n + 1
          BY <3>1 DEF n
        <5> QED BY <4>4, <4>5, <4>6, <5>1, <5>2
      <4>9. Shown(e) = u
        BY <4>6, <4>7, <4>8, SeqEqual
      <4> QED BY <4>9 DEF u
    <3>4. CASE ~d.displayEntities
      <4>1. s = <<l>> /\ Shown(d) = <<>>
        BY <3>4 DEF s, Shown
      <4>2. f[l] = t
        BY <2>1, <2>4
      <4>3. Shown(e) = <<t>>
        BY <3>2, <4>1, <4>2
      <4> QED BY <4>1, <4>3
    <3> QED BY <3>3, <3>4
  <2>16. Grown(Shown(d), T, Shown(e))
    BY <2>15, ShownTags, GrownByOne
  <2> QED BY <2>11, <2>12, <2>14, <2>15, <2>16 DEF Filled, Good, e
<1> QED BY <1>3, <1>4

\* What one tag does to the display.
Loaded(d, t, e) ==
    /\ e.title = IF Tag[t].type = "Titel" THEN t ELSE d.title
    /\ e.save <=> d.save \/ Stores(t)
    /\ e.fault = "none" =>
          /\ d.fault = "none"
          /\ IsLine(t) => e.displayEntities /\ Shown(e) = Append(Shown(d), t)
          /\ ~IsLine(t) => Shown(e) = Shown(d)

LEMMA ParameterParsed ==
    ASSUME NEW d, Good(d), Listed(d), NEW buffer \in Seq(Tokens), NEW T,
           ToSet(buffer) \cap DOMAIN Tag \subseteq T
    PROVE  LET e == ParseParameter(d, buffer)
           IN /\ Filled(d, T, e)
              /\ \A t \in DOMAIN Tag : buffer = <<t>> => Loaded(d, t, e)
<1> DEFINE e == ParseParameter(d, buffer)
           t == Head(buffer)
<1>1. d \in Displays /\ Tree(d)
  BY DEF Good
<1>2. CASE buffer = <<>> \/ t \notin DOMAIN Tag
  <2>1. e = d
    BY <1>2 DEF ParseParameter
  <2>2. \A u \in DOMAIN Tag : buffer # <<u>>
    BY <1>2
  <2> HIDE DEF e
  <2> QED BY <2>1, <2>2, FilledSame DEF e
<1>3. CASE buffer # <<>> /\ t \in DOMAIN Tag
  <2>1. t \in T
    <3>1. t = buffer[1] /\ 1 \in DOMAIN buffer
      BY <1>3
    <3>2. t \in ToSet(buffer)
      BY <3>1, Zenon DEF ToSet
    <3> QED BY <1>3, <3>2
  <2>2. \A u \in DOMAIN Tag : buffer = <<u>> => u = t
    OBVIOUS
  <2>3. e = CASE Tag[t].type = "Titel"            -> TitleOnLoad(d, t)
              [] Tag[t].type = "SubmitInputField" -> SubmitButtonOnLoad(d)
              [] Tag[t].type = "Hyperlink"        -> HyperlinkOnLoad(d, t)
              [] Tag[t].type = "Group"            -> GroupOnLoad(d, t)
              [] OTHER                            -> InputOnLoad(d, t)
    BY <1>3 DEF ParseParameter
  <2> SUFFICES Filled(d, T, e) /\ Loaded(d, t, e)
    BY <2>2
  <2> HIDE DEF t, e
  <2>4. ASSUME NEW a, a \in Displays, a.chain = d.chain, a.loose = d.loose, a.up = d.up,
               a.initialized = d.initialized, a.fault = d.fault, a.entities = d.entities,
               a.displayEntities = d.displayEntities, SameLines(d, a), a = e,
               ~IsLine(t), a.title = IF Tag[t].type = "Titel" THEN t ELSE d.title,
               a.save <=> d.save \/ Stores(t)
        PROVE  Filled(d, T, e) /\ Loaded(d, t, e)
    <3>1. Tree(a)
      BY <1>1, <2>4 DEF Tree, Linked
    <3>2. Listed(a)
      <4>1. Clicks(a)
        BY <2>4 DEF Listed, Clicks, SameLines, Type
      <4> QED BY <2>4, <4>1 DEF Listed, SameLines
    <3>3. Shown(a) = Shown(d)
      BY <2>4, ShownKept DEF SameLines
    <3>4. Grown(Shown(d), T, Shown(a))
      BY <3>3, FilledSame DEF Filled, Grown
    <3>5. Loaded(d, t, a)
      BY <2>4, <3>3 DEF Loaded
    <3>6. a.title = d.title \/ \E u \in T : Tag[u].type = "Titel" /\ a.title = u
      BY <2>1, <2>4
    <3>7. (a.save => d.save \/ \E u \in T : Tag[u].type = "SubmitInputField") /\ (d.save => a.save)
      BY <2>1, <2>4 DEF Stores
    <3> QED BY <2>4, <3>1, <3>2, <3>4, <3>5, <3>6, <3>7 DEF Filled, Good, SameLines
  <2>5. CASE Tag[t].type = "Titel"
    <3>1. e = [d EXCEPT !.title = t]
      BY <2>3, <2>5 DEF TitleOnLoad
    <3>2. e \in Displays
      BY <1>1, <1>3, <3>1 DEF Displays
    <3>3. /\ e.chain = d.chain /\ e.loose = d.loose /\ e.up = d.up
          /\ e.initialized = d.initialized /\ e.fault = d.fault /\ e.entities = d.entities
          /\ e.displayEntities = d.displayEntities /\ SameLines(d, e) /\ e.save = d.save
          /\ e.title = t
      BY <1>1, <3>1 DEF Displays, SameLines
    <3> QED BY <2>4, <2>5, <3>2, <3>3 DEF IsLine, Stores
  <2>6. CASE Tag[t].type = "SubmitInputField"
    <3>1. e = [d EXCEPT !.save = TRUE]
      BY <2>3, <2>6 DEF SubmitButtonOnLoad
    <3>2. e \in Displays
      BY <1>1, <3>1 DEF Displays
    <3>3. /\ e.chain = d.chain /\ e.loose = d.loose /\ e.up = d.up
          /\ e.initialized = d.initialized /\ e.fault = d.fault /\ e.entities = d.entities
          /\ e.displayEntities = d.displayEntities /\ SameLines(d, e) /\ e.save = TRUE
          /\ e.title = d.title
      BY <1>1, <3>1 DEF Displays, SameLines
    <3> QED BY <2>4, <2>6, <3>2, <3>3 DEF IsLine, Stores
  <2>7. CASE Tag[t].type = "Hyperlink" /\ Tag[t].value = DEFAULT_MENU_PAGE
    <3>1. e = [d EXCEPT !.menue = TRUE]
      BY <2>3, <2>7 DEF HyperlinkOnLoad
    <3>2. e \in Displays
      BY <1>1, <3>1 DEF Displays
    <3>3. /\ e.chain = d.chain /\ e.loose = d.loose /\ e.up = d.up
          /\ e.initialized = d.initialized /\ e.fault = d.fault /\ e.entities = d.entities
          /\ e.displayEntities = d.displayEntities /\ SameLines(d, e) /\ e.save = d.save
          /\ e.title = d.title
      BY <1>1, <3>1 DEF Displays, SameLines
    <3> QED BY <2>4, <2>7, <3>2, <3>3 DEF IsLine, Stores
  <2>8. CASE /\ Tag[t].type \notin {"Titel", "SubmitInputField"}
             /\ ~(Tag[t].type = "Hyperlink" /\ Tag[t].value = DEFAULT_MENU_PAGE)
    <3>1. e = CreateNewEntity(d, t)
      BY <2>3, <2>8 DEF HyperlinkOnLoad, GroupOnLoad, InputOnLoad
    <3>2. /\ Filled(d, T, e) /\ e.title = d.title /\ e.save = d.save
          /\ e.fault = "none" => e.displayEntities /\ Shown(e) = Append(Shown(d), t)
      BY <1>3, <2>1, <2>8, <3>1, EntityCreated
    <3>3. IsLine(t) /\ ~Stores(t) /\ Tag[t].type # "Titel"
      BY <2>8 DEF IsLine, Stores
    <3>4. e.fault = "none" => d.fault = "none"
      BY <3>2 DEF Filled
    <3> QED BY <3>2, <3>3, <3>4 DEF Loaded
  <2> QED BY <2>5, <2>6, <2>7, <2>8
<1> QED BY <1>2, <1>3

\* The tokens of a page: three for each tag.
LEMMA TextTokens ==
    ASSUME NEW tags \in Seq(DOMAIN Tag)
    PROVE  LET text == Text(tags)
               N == Len(tags)
           IN /\ N \in Nat /\ Len(text) = 3 * N + 1
              /\ \A i \in 1 .. 3 * N + 1 :
                    /\ i % 3 = 2 => /\ (i + 1) \div 3 \in 1 .. N /\ 3 * ((i + 1) \div 3) = i + 1
                                    /\ text[i] = tags[(i + 1) \div 3]
                                    /\ text[i] \in ToSet(tags)
                    /\ i % 3 # 2 => text[i] = IF i = 3 * N + 1 THEN "text" ELSE "$"
<1> DEFINE text == Text(tags)
           N == Len(tags)
<1>1. N \in Nat /\ DOMAIN tags = 1 .. N
  OBVIOUS
<1>2. text = [k \in 1 .. 3 * N + 1 |->
                 IF k > 3 * N THEN "text"
                 ELSE IF k % 3 = 2 THEN tags[(k + 1) \div 3]
                 ELSE "$"]
  BY DEF Text
<1> HIDE DEF text, N
<1>3. Len(text) = 3 * N + 1
  BY <1>1, <1>2
<1>4. ASSUME NEW i \in 1 .. 3 * N + 1, i % 3 = 2
      PROVE  /\ (i + 1) \div 3 \in 1 .. N /\ 3 * ((i + 1) \div 3) = i + 1
             /\ text[i] = tags[(i + 1) \div 3] /\ text[i] \in ToSet(tags)
  <2>1. i <= 3 * N /\ (i + 1) \div 3 \in 1 .. N /\ 3 * ((i + 1) \div 3) = i + 1
    BY <1>1, <1>4
  <2>2. ~(i > 3 * N)
    BY <1>1, <2>1
  <2>3. text[i] = tags[(i + 1) \div 3]
    BY <1>2, <1>4, <2>2
  <2>4. text[i] \in ToSet(tags)
    BY <1>1, <2>1, <2>3, Zenon DEF ToSet
  <2> QED BY <2>1, <2>3, <2>4
<1>5. ASSUME NEW i \in 1 .. 3 * N + 1, i % 3 # 2
      PROVE  text[i] = IF i = 3 * N + 1 THEN "text" ELSE "$"
  <2>1. i > 3 * N <=> i = 3 * N + 1
    BY <1>1
  <2> QED BY <1>2, <1>5, <2>1
<1> QED BY <1>1, <1>3, <1>4, <1>5 DEF text, N

\* What the parser may be like behind some tokens of a page of tags.
Parsed(d, tags) ==
    { p \in [d : Displays, output : BOOLEAN, buffer : Seq(Tokens)] :
        /\ Filled(d, ToSet(tags), p.d)
        /\ ToSet(p.buffer) \cap DOMAIN Tag \subseteq ToSet(tags) }

\* The state of the parser behind the first i tokens, each read once.
FirstPass(output, buffer, tags, i) ==
    /\ output <=> (i % 3 # 0 /\ i <= 3 * Len(tags))
    /\ i % 3 = 1 /\ output => buffer = <<>>
    /\ i % 3 = 2 => buffer = <<tags[(i + 1) \div 3]>>
    /\ Len(buffer) <= 1

\* A tag that makes a line is among the first i tokens.
LineIn(tags, i) == \E k \in DOMAIN tags : 3 * k <= i /\ IsLine(tags[k])

Shows(d, tags, i) == d.fault = "none" /\ LineIn(tags, i) => d.displayEntities

\* The list is that of the first i tokens, each read once.
Whole(d, tags, i) ==
    d.fault = "none" => Shown(d) = LinesOf(tags)[i \div 3] /\ HeadFits(d, tags, i)

LEMMA LinesAre ==
    ASSUME NEW tags \in Seq(DOMAIN Tag)
    PROVE  /\ LinesOf(tags)[0] = <<>>
           /\ \A n \in 1 .. Len(tags) :
                 LinesOf(tags)[n] = IF IsLine(tags[n]) THEN Append(LinesOf(tags)[n - 1], tags[n])
                                    ELSE LinesOf(tags)[n - 1]
           /\ \A n \in 0 .. Len(tags) :
                 LinesOf(tags)[n] \in Seq(DOMAIN Tag) /\ ToSet(LinesOf(tags)[n]) \subseteq ToSet(tags)
<1> DEFINE N == Len(tags)
           S == {s \in Seq(DOMAIN Tag) : ToSet(s) \subseteq ToSet(tags)}
           More(s, n) == IF IsLine(tags[n]) THEN Append(s, tags[n]) ELSE s
           G == [n \in 1 .. N |-> [s \in S |-> More(s, n)]]
           D == [n \in 0 .. N |-> S]
           a == <<>>
           Fold(f) == f = [n \in 0 .. N |-> IF n = 0 THEN a ELSE More(f[n - 1], n)]
           lines == CHOOSE f : Fold(f)
<1>1. LinesOf(tags) = lines
  BY DEF LinesOf
<1>2. N \in Nat /\ DOMAIN tags = 1 .. N
  OBVIOUS
<1>3. a \in S
  <2>1. <<>> \in Seq(DOMAIN Tag) /\ ToSet(<<>>) = {}
    BY DEF ToSet
  <2> QED BY <2>1
<1>4. ASSUME NEW n \in 1 .. N, NEW s \in S PROVE More(s, n) \in S
  <2>1. tags[n] \in DOMAIN Tag /\ tags[n] \in ToSet(tags)
    BY <1>2 DEF ToSet
  <2>2. Append(s, tags[n]) \in Seq(DOMAIN Tag)
    BY <2>1
  <2>3. ToSet(Append(s, tags[n])) \subseteq ToSet(s) \cup ToSet(tags)
    BY <2>1, GrownByOne DEF Grown
  <2> QED BY <2>2, <2>3
<1>5. /\ \A n \in 1 .. N : n \in 0 .. N /\ n - 1 \in 0 .. N /\ n # 0
      /\ \A n \in 0 .. N : n = 0 \/ n \in 1 .. N
      /\ 0 \in 0 .. N
  BY <1>2
<1>6. \A n \in 1 .. N : \A s \in S : G[n][s] = More(s, n)
  OBVIOUS
<1>7. \A n \in 0 .. N : D[n] = S
  OBVIOUS
<1> HIDE DEF S, G, D, More, N, lines, a
<1>8. a \in D[0] /\ \A n \in 1 .. N : \A s \in D[n - 1] : s \in S /\ G[n][s] \in D[n]
  BY <1>3, <1>4, <1>5, <1>6, <1>7
<1>9. \E f : IsFold(f, N, a, G, D)
  BY <1>2, <1>8, FoldExists, Zenon
<1>10. PICK f : IsFold(f, N, a, G, D)
  BY <1>9, Zenon
<1>11. Fold(f)
  <2>1. \A n \in 0 .. N : IF n = 0 THEN G[n][f[n - 1]] = G[n][f[n - 1]]
                          ELSE G[n][f[n - 1]] = More(f[n - 1], n)
    BY <1>5, <1>6, <1>8, <1>10 DEF IsFold
  <2> QED BY <1>10, <2>1 DEF IsFold
<1>12. Fold(lines)
  BY <1>11, Zenon DEF lines
<1>13. lines[0] = a /\ \A n \in 1 .. N : lines[n] = More(lines[n - 1], n)
  BY <1>5, <1>12
<1>14. \A n \in 1 .. N : lines[n - 1] \in D[n - 1] => lines[n] \in D[n]
  BY <1>4, <1>5, <1>7, <1>13
<1>15. \A n \in 0 .. N : lines[n] \in D[n]
  <2>1. lines[0] \in D[0]
    BY <1>8, <1>13
  <2> QED BY <1>2, <1>14, <2>1, Folded
<1>16. \A n \in 0 .. N : lines[n] \in S
  BY <1>7, <1>15
<1> QED BY <1>1, <1>13, <1>16 DEF S, More, N, a

\* What one more tag of a page makes of what is shown of it.
LEMMA TagReceived ==
    ASSUME NEW tags \in Seq(DOMAIN Tag), NEW k \in 1 .. Len(tags), NEW i \in Nat, i = 3 * k,
           NEW d, NEW e, Whole(d, tags, i - 1), Loaded(d, tags[k], e)
    PROVE  Whole(e, tags, i)
<1> DEFINE t == tags[k]
<1> SUFFICES ASSUME e.fault = "none"
             PROVE  Shown(e) = LinesOf(tags)[i \div 3] /\ HeadFits(e, tags, i)
  BY DEF Whole
<1>1. (i - 1) \div 3 = k - 1 /\ i \div 3 = k
  OBVIOUS
<1>2. d.fault = "none"
  BY DEF Loaded
<1>3. Shown(d) = LinesOf(tags)[k - 1] /\ HeadFits(d, tags, i - 1)
  BY <1>1, <1>2 DEF Whole
<1>4. Shown(e) = LinesOf(tags)[k]
  <2>1. LinesOf(tags)[k] = IF IsLine(t) THEN Append(LinesOf(tags)[k - 1], t) ELSE LinesOf(tags)[k - 1]
    BY LinesAre
  <2> QED BY <1>3, <2>1 DEF Loaded
<1>5. DOMAIN tags = 1 .. Len(tags) /\ t \in ToSet(tags)
  BY DEF ToSet
<1>6. ASSUME NEW j \in DOMAIN tags, 3 * j <= i PROVE j = k \/ 3 * j <= i - 1
  BY <1>5, <1>6
<1>7. ASSUME NEW j \in DOMAIN tags, 3 * j <= i, OnlyTitle(tags[j], tags) PROVE e.title = tags[j]
  <2>1. Tag[t].type = "Titel" => t = tags[j]
    BY <1>5, <1>7 DEF OnlyTitle
  <2>2. CASE j = k
    <3>1. Tag[t].type = "Titel"
      BY <1>5, <1>7, <2>2 DEF OnlyTitle
    <3> QED BY <2>2, <3>1 DEF Loaded
  <2>3. CASE 3 * j <= i - 1
    <3>1. d.title = tags[j]
      BY <1>3, <1>7, <2>3 DEF HeadFits
    <3> QED BY <2>1, <3>1 DEF Loaded
  <2> QED BY <1>6, <1>7, <2>2, <2>3
<1>8. ASSUME NEW j \in DOMAIN tags, 3 * j <= i, Stores(tags[j]) PROVE e.save
  <2>1. CASE j = k
    BY <1>8, <2>1 DEF Loaded
  <2>2. CASE 3 * j <= i - 1
    <3>1. d.save
      BY <1>3, <1>8, <2>2 DEF HeadFits
    <3> QED BY <3>1 DEF Loaded
  <2> QED BY <1>6, <1>8, <2>1, <2>2
<1>9. e.save => \E u \in ToSet(tags) : Stores(u)
  BY <1>3, <1>5 DEF Loaded, HeadFits
<1>10. HeadFits(e, tags, i)
  BY <1>7, <1>8, <1>9 DEF HeadFits
<1> QED BY <1>1, <1>4, <1>10

LEMMA TokenAdded ==
    ASSUME NEW b \in Seq(Tokens), NEW token \in Tokens, NEW T,
           ToSet(b) \cap DOMAIN Tag \subseteq T, token \in DOMAIN Tag => token \in T
    PROVE  Append(b, token) \in Seq(Tokens) /\ ToSet(Append(b, token)) \cap DOMAIN Tag \subseteq T
<1> DEFINE c == Append(b, token)
<1>1. /\ c \in Seq(Tokens) /\ DOMAIN c = 1 .. Len(b) + 1 /\ Len(b) \in Nat
      /\ DOMAIN b = 1 .. Len(b)
      /\ \A i \in 1 .. Len(b) + 1 : (i \in 1 .. Len(b) /\ c[i] = b[i]) \/ c[i] = token
  OBVIOUS
<1> HIDE DEF c
<1>2. ToSet(c) \subseteq ToSet(b) \cup {token}
  <2> SUFFICES ASSUME NEW i \in 1 .. Len(b) + 1 PROVE c[i] \in ToSet(b) \cup {token}
    BY <1>1, Zenon DEF ToSet
  <2>1. i \in 1 .. Len(b) => b[i] \in ToSet(b)
    BY <1>1, Zenon DEF ToSet
  <2> QED BY <1>1, <2>1
<1> QED BY <1>1, <1>2 DEF c

LEMMA TokenParsed ==
    ASSUME NEW d, Good(d), Listed(d), NEW tags \in Seq(DOMAIN Tag), NEW p \in Parsed(d, tags),
           NEW token \in Tokens, token \in DOMAIN Tag => token \in ToSet(tags)
    PROVE  ParseToken(p, token) \in Parsed(d, tags)
<1> DEFINE q == ParseToken(p, token)
           T == ToSet(tags)
<1>1. /\ p \in [d : Displays, output : BOOLEAN, buffer : Seq(Tokens)]
      /\ Filled(d, T, p.d) /\ ToSet(p.buffer) \cap DOMAIN Tag \subseteq T
  BY DEF Parsed
<1>2. Good(p.d) /\ Listed(p.d)
  BY <1>1 DEF Filled
<1> HIDE DEF T
<1>3. CASE Len(p.buffer) < HTTPC_BUFFER_LEN /\ token = "$" /\ p.output
  <2> DEFINE e == ParseParameter(p.d, p.buffer)
  <2>1. q = [p EXCEPT !.output = FALSE, !.d = e]
    <3>1. HTTPC_BUFFER_LEN \in Nat /\ Len(p.buffer) \in Nat
      BY <1>1, DisplayAssumption
    <3>2. ~(Len(p.buffer) >= HTTPC_BUFFER_LEN)
      BY <1>3, <3>1
    <3> QED BY <1>3, <3>2 DEF ParseToken
  <2>2. Filled(p.d, T, e)
    BY <1>1, <1>2, ParameterParsed
  <2> HIDE DEF e, q
  <2>3. Filled(d, T, e) /\ e \in Displays
    <3>1. Filled(d, T, e)
      BY <1>1, <2>2, FilledMore
    <3> QED BY <3>1 DEF Filled, Good
  <2>4. /\ q \in [d : Displays, output : BOOLEAN, buffer : Seq(Tokens)]
        /\ q.d = e /\ q.buffer = p.buffer
    BY <1>1, <2>1, <2>3
  <2> QED BY <1>1, <2>3, <2>4 DEF Parsed, T, q
<1>4. CASE Len(p.buffer) < HTTPC_BUFFER_LEN /\ token = "$" /\ ~p.output
  <2>1. q = [p EXCEPT !.output = TRUE, !.buffer = <<>>]
    <3>1. HTTPC_BUFFER_LEN \in Nat /\ Len(p.buffer) \in Nat
      BY <1>1, DisplayAssumption
    <3>2. ~(Len(p.buffer) >= HTTPC_BUFFER_LEN)
      BY <1>4, <3>1
    <3> QED BY <1>4, <3>2 DEF ParseToken
  <2> HIDE DEF q
  <2>2. /\ q \in [d : Displays, output : BOOLEAN, buffer : Seq(Tokens)]
        /\ q.d = p.d /\ q.buffer = <<>>
    <3>1. <<>> \in Seq(Tokens)
      OBVIOUS
    <3> QED BY <1>1, <2>1, <3>1
  <2>3. ToSet(q.buffer) = {}
    BY <2>2 DEF ToSet
  <2> QED BY <1>1, <2>2, <2>3 DEF Parsed, T, q
<1>5. CASE Len(p.buffer) < HTTPC_BUFFER_LEN /\ token # "$" /\ p.output
  <2>1. q = [p EXCEPT !.buffer = Append(p.buffer, token)]
    <3>1. HTTPC_BUFFER_LEN \in Nat /\ Len(p.buffer) \in Nat
      BY <1>1, DisplayAssumption
    <3>2. ~(Len(p.buffer) >= HTTPC_BUFFER_LEN)
      BY <1>5, <3>1
    <3> QED BY <1>5, <3>2 DEF ParseToken
  <2>2. /\ Append(p.buffer, token) \in Seq(Tokens)
        /\ ToSet(Append(p.buffer, token)) \cap DOMAIN Tag \subseteq T
    <3>1. p.buffer \in Seq(Tokens) /\ (token \in DOMAIN Tag => token \in T)
      BY <1>1 DEF T
    <3> QED BY <1>1, <3>1, TokenAdded
  <2> HIDE DEF q
  <2>3. /\ q \in [d : Displays, output : BOOLEAN, buffer : Seq(Tokens)]
        /\ q.d = p.d /\ q.buffer = Append(p.buffer, token)
    BY <1>1, <2>1, <2>2
  <2> QED BY <1>1, <2>2, <2>3 DEF Parsed, T, q
<1>6. CASE Len(p.buffer) >= HTTPC_BUFFER_LEN \/ (token # "$" /\ ~p.output)
  <2>1. q = p
    BY <1>6 DEF ParseToken
  <2> QED BY <2>1
<1>7. Len(p.buffer) < HTTPC_BUFFER_LEN \/ Len(p.buffer) >= HTTPC_BUFFER_LEN
  <2>1. HTTPC_BUFFER_LEN \in Nat /\ Len(p.buffer) \in Nat
    BY <1>1, DisplayAssumption
  <2> QED BY <2>1
<1> QED BY <1>3, <1>4, <1>5, <1>6, <1>7

\* One more of the first i tokens.
LEMMA FirstParsed ==
    ASSUME NEW d, NEW tags \in Seq(DOMAIN Tag), NEW p \in Parsed(d, tags),
           NEW i \in 1 .. 3 * Len(tags) + 1,
           FirstPass(p.output, p.buffer, tags, i - 1)
    PROVE  LET q == ParseToken(p, Text(tags)[i])
           IN /\ FirstPass(q.output, q.buffer, tags, i)
              /\ Shows(p.d, tags, i - 1) => Shows(q.d, tags, i)
              /\ Whole(p.d, tags, i - 1) => Whole(q.d, tags, i)
<1> DEFINE token == Text(tags)[i]
           q == ParseToken(p, token)
           N == Len(tags)
<1>1. /\ p \in [d : Displays, output : BOOLEAN, buffer : Seq(Tokens)]
      /\ Good(p.d) /\ Listed(p.d) /\ ToSet(p.buffer) \cap DOMAIN Tag \subseteq ToSet(tags)
  BY DEF Parsed, Filled
<1>2. N \in Nat /\ i \in Nat \ {0} /\ i <= 3 * N + 1 /\ DOMAIN tags = 1 .. N
  OBVIOUS
<1>3. /\ i % 3 = 2 => /\ (i + 1) \div 3 \in 1 .. N /\ 3 * ((i + 1) \div 3) = i + 1
                      /\ token = tags[(i + 1) \div 3]
      /\ i % 3 # 2 => token = IF i = 3 * N + 1 THEN "text" ELSE "$"
  BY TextTokens
<1>4. /\ p.output <=> ((i - 1) % 3 # 0 /\ i - 1 <= 3 * N)
      /\ (i - 1) % 3 = 1 /\ p.output => p.buffer = <<>>
      /\ (i - 1) % 3 = 2 => p.buffer = <<tags[((i - 1) + 1) \div 3]>>
      /\ Len(p.buffer) <= 1
  BY DEF FirstPass
<1>5. ~(Len(p.buffer) >= HTTPC_BUFFER_LEN)
  <2>1. HTTPC_BUFFER_LEN \in Nat \ {0, 1} /\ Len(p.buffer) \in Nat
    BY <1>1, DisplayAssumption
  <2> QED BY <1>4, <2>1
<1>6. i % 3 # 0 => \A k \in 1 .. N : 3 * k <= i <=> 3 * k <= i - 1
  BY <1>2
<1>7. i % 3 # 0 => (LineIn(tags, i) => LineIn(tags, i - 1))
  BY <1>2, <1>6 DEF LineIn
<1>12. ASSUME i % 3 # 0, Whole(p.d, tags, i - 1) PROVE Whole(p.d, tags, i)
  <2>1. (i - 1) \div 3 = i \div 3
    BY <1>12, <1>2
  <2>2. HeadFits(p.d, tags, i - 1) => HeadFits(p.d, tags, i)
    BY <1>12, <1>2, <1>6 DEF HeadFits
  <2> QED BY <1>12, <2>1, <2>2 DEF Whole
<1> HIDE DEF token, N
<1>8. CASE i % 3 = 1 /\ i <= 3 * N
  <2>1. (i - 1) % 3 = 0 /\ i # 3 * N + 1 /\ i % 3 # 2 /\ i % 3 # 0
    BY <1>2, <1>8
  <2>2. token = "$" /\ ~p.output
    BY <1>3, <1>4, <2>1
  <2>3. q = [p EXCEPT !.output = TRUE, !.buffer = <<>>]
    BY <1>5, <2>2 DEF ParseToken
  <2> HIDE DEF q
  <2>4. q.output = TRUE /\ q.buffer = <<>> /\ q.d = p.d
    BY <1>1, <2>3
  <2>5. FirstPass(q.output, q.buffer, tags, i)
    BY <1>8, <2>1, <2>4 DEF FirstPass, N
  <2> QED BY <1>12, <1>7, <2>1, <2>4, <2>5 DEF Shows, q, token
<1>9. CASE i = 3 * N + 1
  <2>1. i % 3 = 1 /\ (i - 1) % 3 = 0 /\ ~(i <= 3 * N)
    BY <1>2, <1>9
  <2>2. token = "text" /\ ~p.output
    BY <1>3, <1>4, <1>9, <2>1
  <2>3. q = p
    BY <1>5, <2>2 DEF ParseToken
  <2> HIDE DEF q
  <2>5. FirstPass(q.output, q.buffer, tags, i)
    BY <1>4, <2>1, <2>2, <2>3 DEF FirstPass, N
  <2>6. i % 3 # 0
    BY <2>1
  <2> QED BY <1>12, <1>7, <2>3, <2>5, <2>6 DEF Shows, q, token
<1>10. CASE i % 3 = 2
  <2>1. (i - 1) % 3 = 1 /\ i - 1 <= 3 * N /\ i <= 3 * N
    BY <1>2, <1>10
  <2>2. p.output /\ p.buffer = <<>> /\ token = tags[(i + 1) \div 3] /\ (i + 1) \div 3 \in 1 .. N
    BY <1>3, <1>4, <1>10, <2>1
  <2>3. token # "$"
    <3>1. token \in DOMAIN Tag
      BY <2>2 DEF N
    <3> QED BY <3>1, TagNotFree
  <2>4. q = [p EXCEPT !.buffer = Append(p.buffer, token)]
    BY <1>5, <2>2, <2>3 DEF ParseToken
  <2> HIDE DEF q
  <2>5. q.output = p.output /\ q.buffer = <<token>> /\ q.d = p.d
    <3>1. Append(<<>>, token) = <<token>>
      OBVIOUS
    <3>2. q.output = p.output /\ q.buffer = Append(p.buffer, token) /\ q.d = p.d
      BY <1>1, <2>4
    <3> QED BY <2>2, <3>1, <3>2
  <2>6. FirstPass(q.output, q.buffer, tags, i)
    <3>1. Len(q.buffer) = 1
      BY <2>5
    <3> QED BY <1>10, <2>1, <2>2, <2>5, <3>1 DEF FirstPass, N
  <2>7. i % 3 # 0
    BY <1>10
  <2> QED BY <1>12, <1>7, <2>5, <2>6, <2>7 DEF Shows, q, token
<1>11. CASE i % 3 = 0
  <2> DEFINE e == ParseParameter(p.d, p.buffer)
             k == i \div 3
             t == tags[k]
  <2>1. (i - 1) % 3 = 2 /\ i - 1 <= 3 * N /\ i <= 3 * N /\ i # 3 * N + 1
        /\ k \in 1 .. N /\ 3 * k = i /\ (i - 1) + 1 = i
    BY <1>2, <1>11
  <2>2. p.output /\ p.buffer = <<t>> /\ token = "$"
    BY <1>3, <1>4, <1>11, <2>1
  <2>3. q = [p EXCEPT !.output = FALSE, !.d = e]
    BY <1>5, <2>2 DEF ParseToken
  <2>4. t \in DOMAIN Tag
    BY <2>1 DEF N
  <2>5. /\ Filled(p.d, ToSet(tags), e)
        /\ p.buffer = <<t>> => Loaded(p.d, t, e)
    BY <1>1, <2>4, ParameterParsed
  <2> HIDE DEF q, e
  <2>6. q.output = FALSE /\ q.buffer = p.buffer /\ q.d = e
    BY <1>1, <2>3
  <2>7. FirstPass(q.output, q.buffer, tags, i)
    BY <1>4, <1>11, <2>1, <2>6 DEF FirstPass, N
  <2>8. ASSUME Shows(p.d, tags, i - 1) PROVE Shows(e, tags, i)
    <3> SUFFICES ASSUME e.fault = "none", NEW j \in 1 .. N, 3 * j <= i, IsLine(tags[j])
                 PROVE  e.displayEntities
      BY <1>2 DEF Shows, LineIn, N
    <3>1. CASE j = k
      BY <2>2, <2>5, <3>1 DEF Loaded
    <3>2. CASE j # k
      <4>1. 3 * j <= i - 1
        BY <1>2, <2>1, <3>2
      <4>2. LineIn(tags, i - 1)
        BY <1>2, <4>1 DEF LineIn, N
      <4>3. p.d.fault = "none" /\ (p.d.displayEntities => e.displayEntities)
        BY <2>5 DEF Filled
      <4> QED BY <2>8, <4>2, <4>3 DEF Shows
    <3> QED BY <3>1, <3>2
  <2>9. ASSUME Whole(p.d, tags, i - 1) PROVE Whole(e, tags, i)
    <3>1. i = 3 * k /\ k \in 1 .. Len(tags) /\ i \in Nat
      BY <1>2, <2>1 DEF N
    <3> HIDE DEF k
    <3> QED BY <2>2, <2>5, <2>9, <3>1, TagReceived
  <2> QED BY <2>6, <2>7, <2>8, <2>9 DEF q, token
<1> QED
  <2>1. i % 3 \in {0, 1, 2} /\ (i <= 3 * N \/ i = 3 * N + 1)
    BY <1>2
  <2> QED BY <1>8, <1>9, <1>10, <1>11, <2>1

\* Some tokens of a page, whether for the first time or once more.
LEMMA TextParsed ==
    ASSUME NEW t, NEW tags \in Seq(DOMAIN Tag), NEW first \in Nat, NEW n \in Nat,
           first + n <= 3 * Len(tags) + 1, Good(display), Listed(display),
           load[t].output \in BOOLEAN, load[t].buffer \in Seq(Tokens),
           ToSet(load[t].buffer) \cap DOMAIN Tag \subseteq ToSet(tags)
    PROVE  LET p == Parse(t, Text(tags), first, n)
           IN /\ p \in Parsed(display, tags)
              /\ FirstPass(load[t].output, load[t].buffer, tags, first) =>
                    /\ FirstPass(p.output, p.buffer, tags, first + n)
                    /\ Shows(display, tags, first) => Shows(p.d, tags, first + n)
                    /\ Whole(display, tags, first) => Whole(p.d, tags, first + n)
<1> DEFINE text == Text(tags)
           d == display
           P == Parsed(d, tags)
           a == [d |-> d, output |-> load[t].output, buffer |-> load[t].buffer]
           Begun == FirstPass(load[t].output, load[t].buffer, tags, first)
           Upto(p, k) == Begun => /\ FirstPass(p.output, p.buffer, tags, first + k)
                                  /\ Shows(d, tags, first) => Shows(p.d, tags, first + k)
                                  /\ Whole(d, tags, first) => Whole(p.d, tags, first + k)
           G == [k \in 1 .. n |-> [x \in P |-> ParseToken(x, text[first + k])]]
           D == [k \in 0 .. n |-> {p \in P : Upto(p, k)}]
           Fold(f) == f = [k \in 0 .. n |-> IF k = 0 THEN a ELSE ParseToken(f[k - 1], text[first + k])]
           parsed == CHOOSE f : Fold(f)
<1>1. Parse(t, text, first, n) = parsed[n]
  BY DEF Parse
<1>2. a \in P
  <2>1. d \in Displays
    BY DEF Good
  <2>2. Filled(d, ToSet(tags), d)
    BY FilledSame
  <2>3. /\ a \in [d : Displays, output : BOOLEAN, buffer : Seq(Tokens)]
        /\ a.d = d /\ a.buffer = load[t].buffer
    BY <2>1
  <2> QED BY <2>2, <2>3 DEF Parsed
<1>3. Upto(a, 0)
  <2>1. first + 0 = first
    OBVIOUS
  <2>2. a.d = d /\ a.output = load[t].output /\ a.buffer = load[t].buffer
    OBVIOUS
  <2> QED BY <2>1, <2>2
<1>4. /\ \A k \in 1 .. n : k \in 0 .. n /\ k - 1 \in 0 .. n /\ k # 0
      /\ 0 \in 0 .. n /\ n \in 0 .. n
  OBVIOUS
<1>5. \A k \in 1 .. n : \A x \in P : G[k][x] = ParseToken(x, text[first + k])
  OBVIOUS
<1>6. \A k \in 1 .. n : /\ first + k \in 1 .. 3 * Len(tags) + 1
                        /\ (first + k) - 1 = first + (k - 1)
  OBVIOUS
<1>7. \A i \in 1 .. 3 * Len(tags) + 1 :
          text[i] \in Tokens /\ (text[i] \in DOMAIN Tag => text[i] \in ToSet(tags))
  <2> TAKE i \in 1 .. 3 * Len(tags) + 1
  <2>1. CASE i % 3 = 2
    <3>1. text[i] \in ToSet(tags)
      BY <2>1, TextTokens
    <3>2. ToSet(tags) \subseteq DOMAIN Tag
      BY DEF ToSet
    <3> QED BY <3>1, <3>2 DEF Tokens
  <2>2. CASE i % 3 # 2
    <3>1. text[i] \in {"text", "$"}
      BY <2>2, TextTokens
    <3> QED BY <3>1, TagNotFree DEF Tokens
  <2> QED BY <2>1, <2>2
<1>8. ASSUME NEW k \in 1 .. n, NEW x \in P, Upto(x, k - 1)
      PROVE  ParseToken(x, text[first + k]) \in P /\ Upto(ParseToken(x, text[first + k]), k)
  <2>1. PICK i \in 1 .. 3 * Len(tags) + 1 : i = first + k
    BY <1>6
  <2>2. i - 1 = first + (k - 1)
    BY <1>6, <2>1
  <2>3. ParseToken(x, text[i]) \in P
    BY <1>7, TokenParsed
  <2>4. ASSUME Begun
        PROVE  /\ FirstPass(ParseToken(x, text[i]).output, ParseToken(x, text[i]).buffer, tags, i)
               /\ Shows(d, tags, first) => Shows(ParseToken(x, text[i]).d, tags, i)
               /\ Whole(d, tags, first) => Whole(ParseToken(x, text[i]).d, tags, i)
    <3>1. /\ FirstPass(x.output, x.buffer, tags, i - 1)
          /\ Shows(d, tags, first) => Shows(x.d, tags, i - 1)
          /\ Whole(d, tags, first) => Whole(x.d, tags, i - 1)
      BY <1>8, <2>2, <2>4
    <3> QED BY <3>1, FirstParsed
  <2> QED BY <2>1, <2>3, <2>4
<1> HIDE DEF G, parsed, P, Upto, a, text
<1>9. \A k \in 0 .. n : D[k] = {p \in P : Upto(p, k)}
  OBVIOUS
<1> HIDE DEF D
<1>10. a \in D[0]
  BY <1>2, <1>3, <1>4, <1>9
<1>11. \A k \in 1 .. n : \A x \in D[k - 1] : x \in P /\ ParseToken(x, text[first + k]) \in D[k]
  BY <1>4, <1>8, <1>9
<1>12. \A k \in 1 .. n : \A x \in D[k - 1] : G[k][x] \in D[k]
  BY <1>5, <1>11
<1>13. \E f : IsFold(f, n, a, G, D)
  BY <1>10, <1>12, FoldExists, Zenon
<1>14. PICK f : IsFold(f, n, a, G, D)
  BY <1>13, Zenon
<1>15. Fold(f)
  <2>1. \A k \in 0 .. n : k = 0 \/ k \in 1 .. n
    OBVIOUS
  <2>2. \A k \in 0 .. n : IF k = 0 THEN G[k][f[k - 1]] = G[k][f[k - 1]]
                          ELSE G[k][f[k - 1]] = ParseToken(f[k - 1], text[first + k])
    BY <1>4, <1>5, <1>11, <1>14, <2>1 DEF IsFold
  <2> QED BY <1>14, <2>2 DEF IsFold
<1>16. Fold(parsed)
  BY <1>15, Zenon DEF parsed
<1>17. parsed[0] = a /\ \A k \in 1 .. n : parsed[k] = ParseToken(parsed[k - 1], text[first + k])
  BY <1>4, <1>16
<1>18. \A k \in 0 .. n : parsed[k] \in D[k]
  BY <1>10, <1>11, <1>17, Folded
<1>19. parsed[n] \in P /\ Upto(parsed[n], n)
  BY <1>4, <1>9, <1>18
<1> QED BY <1>1, <1>19 DEF P, Upto, text

-----------------------------------------------------------------------------
(* The children of the root. *)

Screens == {"page", "editor"}

Tops == {<<>>, <<"page">>, <<"editor">>, <<"page", "editor">>, <<"editor", "page">>}

LEMMA TopsAre == \A s : s \in Tops <=> s \in Seq(Screens) /\ DupFree(s)
<1>1. \A s \in Tops : s \in Seq(Screens) /\ DupFree(s)
  <2> TAKE s \in Tops
  <2>1. s \in Seq(Screens) /\ Len(s) \in {0, 1, 2} /\ (Len(s) = 2 => s[1] # s[2])
    <3>0. "page" \in Screens /\ "editor" \in Screens
      BY DEF Screens
    <3>1. <<>> \in Seq(Screens) /\ Len(<<>>) = 0
      OBVIOUS
    <3>2. <<"page">> \in Seq(Screens) /\ Len(<<"page">>) = 1
      BY <3>0
    <3>3. <<"editor">> \in Seq(Screens) /\ Len(<<"editor">>) = 1
      BY <3>0
    <3>4. <<"page", "editor">> \in Seq(Screens) /\ <<"page", "editor">>[1] = "page"
          /\ <<"page", "editor">>[2] = "editor" /\ Len(<<"page", "editor">>) = 2
      BY <3>0
    <3>5. <<"editor", "page">> \in Seq(Screens) /\ <<"editor", "page">>[1] = "editor"
          /\ <<"editor", "page">>[2] = "page" /\ Len(<<"editor", "page">>) = 2
      BY <3>0
    <3>6. \/ s = <<>> \/ s = <<"page">> \/ s = <<"editor">>
          \/ s = <<"page", "editor">> \/ s = <<"editor", "page">>
      BY DEF Tops
    <3>7. CASE s = <<>>
      BY <3>1, <3>7
    <3>8. CASE s = <<"page">>
      BY <3>2, <3>8
    <3>9. CASE s = <<"editor">>
      BY <3>3, <3>9
    <3>10. CASE s = <<"page", "editor">>
      BY <3>4, <3>10
    <3>11. CASE s = <<"editor", "page">>
      BY <3>5, <3>11
    <3> QED BY <3>6, <3>7, <3>8, <3>9, <3>10, <3>11
  <2>2. \A i, j \in 1 .. Len(s) : s[i] = s[j] => i = j
    BY <2>1
  <2>3. DOMAIN s = 1 .. Len(s)
    BY <2>1
  <2> QED BY <2>1, <2>2, <2>3 DEF DupFree
<1>2. ASSUME NEW s \in Seq(Screens), DupFree(s) PROVE s \in Tops
  <2>1. PICK n \in Nat : n = Len(s)
    OBVIOUS
  <2>2. DOMAIN s = 1 .. n /\ \A i \in 1 .. n : s[i] \in Screens
    BY <2>1
  <2>3. \A i, j \in 1 .. n : s[i] = s[j] => i = j
    BY <1>2, <2>2 DEF DupFree
  <2>4. n \in {0, 1, 2}
    <3> SUFFICES ASSUME n > 2 PROVE FALSE
      OBVIOUS
    <3>1. 1 \in 1 .. n /\ 2 \in 1 .. n /\ 3 \in 1 .. n
      OBVIOUS
    <3>2. s[1] # s[2] /\ s[1] # s[3] /\ s[2] # s[3]
      BY <2>3, <3>1
    <3> QED BY <2>2, <3>1, <3>2 DEF Screens
  <2>5. CASE n = 0
    <3>1. <<>> \in Seq(Screens) /\ Len(<<>>) = 0
      OBVIOUS
    <3>2. \A i \in 1 .. Len(s) : s[i] = <<>>[i]
      BY <2>1, <2>5
    <3>3. s = <<>>
      BY <2>1, <2>5, <3>1, <3>2, SeqEqual
    <3> QED BY <3>3 DEF Tops
  <2>6. CASE n = 1
    <3>1. s = << s[1] >> /\ s[1] \in Screens
      BY <2>1, <2>2, <2>6
    <3> QED BY <3>1 DEF Tops, Screens
  <2>7. CASE n = 2
    <3>1. s = << s[1], s[2] >> /\ s[1] \in Screens /\ s[2] \in Screens /\ s[1] # s[2]
      BY <2>1, <2>2, <2>3, <2>7
    <3> QED BY <3>1 DEF Tops, Screens
  <2> QED BY <2>4, <2>5, <2>6, <2>7
<1> QED BY <1>1, <1>2

LEMMA Topped ==
    ASSUME NEW s \in Tops, NEW x \in Screens, x \notin ToSet(s)
    PROVE  Append(s, x) \in Tops /\ ToSet(Append(s, x)) = ToSet(s) \cup {x}
<1>1. s \in Seq(Screens) /\ DupFree(s)
  BY TopsAre
<1>2. << x >> \in Seq(Screens) /\ DupFree(<< x >>) /\ ToSet(<< x >>) = {x}
  <2>1. << x >> \in Seq(Screens) /\ DOMAIN << x >> = 1 .. 1 /\ << x >>[1] = x
    OBVIOUS
  <2>2. \A i \in 1 .. 1 : i = 1
    OBVIOUS
  <2>3. 1 \in 1 .. 1
    OBVIOUS
  <2> QED BY <2>1, <2>2, <2>3 DEF DupFree, ToSet
<1>3. Append(s, x) = s \o << x >>
  BY <1>1
<1>4. ToSet(<< x >>) \cap ToSet(s) = {}
  BY <1>2
<1>5. s \o << x >> \in Seq(Screens) /\ DupFree(s \o << x >>)
      /\ ToSet(s \o << x >>) = ToSet(s) \cup {x}
  <2>1. PICK one \in Seq(Screens) : one = << x >>
    BY <1>2
  <2>2. DupFree(one) /\ ToSet(one) = {x} /\ ToSet(one) \cap ToSet(s) = {}
    BY <1>2, <1>4, <2>1
  <2>3. s \o one \in Seq(Screens) /\ DupFree(s \o one) /\ ToSet(s \o one) = ToSet(s) \cup ToSet(one)
    BY <1>1, <2>2, Joined
  <2> QED BY <2>1, <2>2, <2>3
<1> QED BY <1>3, <1>5, TopsAre

LEMMA Untopped ==
    ASSUME NEW s \in Tops, NEW x
    PROVE  Without(s, x) \in Tops /\ ToSet(Without(s, x)) = ToSet(s) \ {x}
<1>1. s \in Seq(Screens) /\ DupFree(s)
  BY TopsAre
<1>2. /\ Without(s, x) \in Seq(Screens) /\ DupFree(Without(s, x))
      /\ ToSet(Without(s, x)) = ToSet(s) \ {x}
  BY <1>1, WithoutOne
<1> QED BY <1>2, TopsAre

LEMMA RootedTop ==
    ASSUME top \in Tops
    PROVE  Rooted \in Tops /\ ToSet(Rooted) = ToSet(top) \cup {"page"}
<1>1. CASE "page" \in ToSet(top)
  BY <1>1 DEF Rooted
<1>2. CASE "page" \notin ToSet(top)
  <2>1. "page" \in Screens
    BY DEF Screens
  <2> QED BY <1>2, <2>1, Topped DEF Rooted
<1> QED BY <1>1, <1>2

\* Of what opens the editor: the page goes, if it was alone.
LEMMA EditorOpened ==
    ASSUME top \in Tops, NEW leaves \in BOOLEAN
    PROVE  LET cut == IF "editor" \in ToSet(top) THEN SubSeq(top, 1, Place(top, "editor")) ELSE top
               off == IF leaves THEN cut ELSE Without(cut, "page")
               new == IF "editor" \in ToSet(off) THEN off ELSE Append(off, "editor")
           IN /\ new \in Tops
              /\ ToSet(top) = {"page"} /\ ~leaves => new = <<"editor">>
<1> DEFINE cut == IF "editor" \in ToSet(top) THEN SubSeq(top, 1, Place(top, "editor")) ELSE top
           off == IF leaves THEN cut ELSE Without(cut, "page")
           new == IF "editor" \in ToSet(off) THEN off ELSE Append(off, "editor")
<1>1. cut \in Tops /\ ("editor" \notin ToSet(top) => cut = top)
  <2>1. CASE "editor" \in ToSet(top)
    <3>1. top \in Seq(Screens) /\ DupFree(top)
      BY TopsAre
    <3>2. Place(top, "editor") \in 1 .. Len(top)
      BY <2>1, <3>1, PlaceOf
    <3>3. cut \in Seq(Screens) /\ DupFree(cut)
      BY <2>1, <3>1, <3>2, Kept
    <3> QED BY <2>1, <3>3, TopsAre
  <2>2. CASE "editor" \notin ToSet(top)
    BY <2>2
  <2> QED BY <2>1, <2>2
<1> HIDE DEF cut
<1>2. off \in Tops /\ (~leaves => ToSet(off) = ToSet(cut) \ {"page"})
  BY <1>1, Untopped
<1> HIDE DEF off
<1>3. new \in Tops /\ ToSet(new) = ToSet(off) \cup {"editor"}
  <2>1. CASE "editor" \in ToSet(off)
    BY <1>2, <2>1
  <2>2. CASE "editor" \notin ToSet(off)
    <3>1. "editor" \in Screens
      BY DEF Screens
    <3> QED BY <1>2, <2>2, <3>1, Topped
  <2> QED BY <2>1, <2>2
<1> HIDE DEF new
<1>4. ASSUME ToSet(top) = {"page"}, ~leaves PROVE new = <<"editor">>
  <2>1. ToSet(off) = {}
    BY <1>1, <1>2, <1>4
  <2>2. ToSet(new) = {"editor"}
    BY <1>3, <2>1
  <2>3. \A i \in DOMAIN new : new[i] = "editor"
    BY <2>2, Zenon DEF ToSet
  <2>4. Len(new) = 0 => ToSet(new) = {}
    BY <1>3 DEF Tops, ToSet
  <2> QED BY <1>3, <2>2, <2>3, <2>4 DEF Tops
<1> QED BY <1>3, <1>4 DEF new, off, cut

-----------------------------------------------------------------------------
(* The inductive invariant. *)

\* A task that is on its way through vLoadWebPage.
Under(m) == m.pc \in {"connect", "recv", "close"}

\* What was received of a page that is being loaded is what the server rendered
\* of it; each token of it was parsed once.
LoadFits(t, m) ==
    /\ m.pc = "boot" => t = "graphic"
    /\ m.why = "store" => m.page = DEFAULT_SET_PAGE
    /\ m.pc = "connect" =>
          m.tags = <<>> /\ m.pos = 0 /\ m.last = 0 /\ ~m.output /\ m.buffer = <<>>
    /\ m.pc = "recv" =>
          /\ m.tags \in Pages[m.page] /\ m.pos <= 3 * Len(m.tags) + 1 /\ m.last <= m.pos
          /\ ToSet(m.buffer) \cap DOMAIN Tag \subseteq ToSet(m.tags)
          /\ FirstPass(m.output, m.buffer, m.tags, m.pos)

\* As long as the tasks do not overlap and no page button is pressed: one page
\* is loaded at a time, into a display without widgets of lines, and the editor
\* is alone on the screen, with a line in use.
QuietFits(d, ld, tp, akt, g) ==
    /\ Simple(d) /\ Live(d) /\ d.fault \notin {"walk", "ring", "freed"}
    /\ d.fault = "stale" => ~LineIn(g.tags, g.pos)
    /\ ~(Under(ld["graphic"]) /\ Under(ld["lwip"]))
    /\ \A t \in Tasks : Under(ld[t]) =>
          /\ d.drawn = {} /\ (ld[t].why = "store" => ~d.save)
          /\ Shows(d, ld[t].tags, ld[t].pos)
    /\ (\A t \in Tasks : ~Under(ld[t])) => Shows(d, g.tags, g.pos)
    /\ "editor" \in ToSet(tp) =>
          /\ tp = <<"editor">> /\ \A t \in Tasks : ld[t].pc = "idle"
          /\ akt \in Lines /\ d.tag[akt] # Free

\* What TypeOK says of everything but the display.
RestTypes ==
    /\ top \in Tops
    /\ aktElement \in Lines \cup {0}
    /\ keys \subseteq {"increase1", "decrease1", "increase2", "decrease2", "submit"}
    /\ load \in [Tasks -> LoadStates]
    /\ loads \in [Tasks -> Nat]
    /\ got \in [tags : Seq(DOMAIN Tag), pos : Nat, why : {"none", "menu", "store", "link", "boot"}]
    /\ paint \in BOOLEAN /\ paged \in BOOLEAN /\ overlap \in BOOLEAN

\* What holds of the display, whatever the tasks do.
Sound(d) == Good(d) /\ Listed(d) /\ (d.initialized \/ ~d.displayEntities)

WhileQuiet(q, p, d, ld, tp, akt, g) == ~q /\ ~p => QuietFits(d, ld, tp, akt, g)

IInv ==
    /\ Sound(display) /\ RestTypes
    /\ \A t \in Tasks : LoadFits(t, load[t])
    /\ \A t \in Tasks : Under(load[t]) => display.initialized
    /\ WhileQuiet(overlap, paged, display, load, top, aktElement, got)

LEMMA TypesOf ==
    ASSUME RestTypes
    PROVE  /\ \A t \in Tasks : load[t] \in LoadStates
           /\ DOMAIN load = Tasks
BY DEF RestTypes

LEMMA IdleState == Idle \in LoadStates /\ Idle.pc = "idle" /\ Idle.why = "none"
<1>1. <<>> \in Seq(DOMAIN Tag) /\ <<>> \in Seq(DOMAIN Tag \cup {"$", "text"})
  OBVIOUS
<1>2. DEFAULT_MENU_PAGE \in DOMAIN Pages
  BY DisplayAssumption
<1> QED BY <1>1, <1>2 DEF Idle, LoadStates

\* A page is about to be loaded, by a task that was idle.
LEMMA LoadStarted ==
    ASSUME IInv, NEW t \in Tasks, load[t].pc = "idle",
           NEW why \in {"menu", "store", "link", "boot"}, NEW page \in DOMAIN Pages,
           why = "store" => page = DEFAULT_SET_PAGE,
           NEW d, Sound(d), StartLoad(t, why, page, d),
           ~overlap' /\ ~paged =>
               /\ Simple(d) /\ Live(d) /\ d.fault \notin {"walk", "ring", "freed"}
               /\ d.fault = "stale" => ~LineIn(got.tags, got.pos)
               /\ "editor" \notin ToSet(top)
    PROVE  IInv'
<1> DEFINE i == InitDisplay(d)
           e == ClearDisplay(i)
           m == [Idle EXCEPT !.pc = "connect", !.why = why, !.page = page]
<1>1. /\ display' = e /\ top' = Rooted /\ load' = [load EXCEPT ![t] = m]
      /\ loads[t] < MAX_LOADS[t] /\ loads' = [loads EXCEPT ![t] = @ + 1]
      /\ paint' = paint /\ aktElement' = aktElement /\ keys' = keys /\ got' = got
      /\ paged' = paged
  BY DEF StartLoad
<1>2. overlap' = (overlap \/ (t = "lwip" /\ (Busy("graphic") \/ "editor" \in ToSet(top)))
                         \/ (t = "graphic" /\ Busy("lwip")))
  BY DEF StartLoad, NoteOverlap
<1>3. RestTypes /\ \A u \in Tasks : LoadFits(u, load[u])
  BY DEF IInv
<1>4. /\ m \in LoadStates /\ m.pc = "connect" /\ m.why = why /\ m.page = page
      /\ m.tags = <<>> /\ m.pos = 0 /\ m.last = 0 /\ ~m.output /\ m.buffer = <<>>
  <2>1. <<>> \in Seq(DOMAIN Tag) /\ <<>> \in Seq(DOMAIN Tag \cup {"$", "text"})
    OBVIOUS
  <2>2. /\ Idle.tags = <<>> /\ Idle.pos = 0 /\ Idle.last = 0 /\ ~Idle.output /\ Idle.buffer = <<>>
    BY DEF Idle
  <2>3. m \in LoadStates
    BY IdleState DEF LoadStates
  <2> QED BY <2>2, <2>3, IdleState DEF LoadStates
<1> HIDE DEF m
<1>5. /\ load' \in [Tasks -> LoadStates] /\ load'[t] = m
      /\ \A u \in Tasks \ {t} : load'[u] = load[u]
  BY <1>1, <1>3, <1>4 DEF RestTypes
<1>6. /\ Good(i) /\ Listed(i) /\ i.initialized /\ i.fault = d.fault
      /\ Simple(d) /\ Live(d) => Simple(i) /\ Live(i)
  BY DisplayInitialised DEF Sound
<1> HIDE DEF i
<1>7. /\ Good(e) /\ Listed(e) /\ ~e.displayEntities /\ ~e.save /\ e.drawn = {}
      /\ e.initialized = i.initialized
      /\ Simple(i) /\ Live(i) => Simple(e) /\ Live(e) /\ e.fault = i.fault
  BY <1>6, DisplayCleared
<1> HIDE DEF e
<1>8. Sound(display') /\ display'.initialized
  BY <1>1, <1>6, <1>7 DEF Sound
<1>9. RestTypes'
  <2>1. top' \in Tops
    BY <1>1, <1>3, RootedTop DEF RestTypes
  <2>2. loads' \in [Tasks -> Nat]
    BY <1>1, <1>3 DEF RestTypes
  <2>3. overlap' \in BOOLEAN
    BY <1>2, <1>3 DEF RestTypes
  <2> QED BY <1>1, <1>3, <1>5, <2>1, <2>2, <2>3 DEF RestTypes
<1>10. \A u \in Tasks : LoadFits(u, load'[u])
  <2>1. LoadFits(t, m)
    BY <1>4 DEF LoadFits
  <2> QED BY <1>3, <1>5, <2>1
<1>11. ASSUME ~overlap', ~paged' PROVE QuietFits(display', load', top', aktElement', got')
  <2>1. ~overlap /\ ~overlap' /\ ~paged
        /\ (t = "lwip" => load["graphic"].pc = "idle") /\ (t = "graphic" => load["lwip"].pc = "idle")
    BY <1>1, <1>2, <1>11 DEF Busy
  <2>2. \A u \in Tasks \ {t} : load'[u].pc = "idle"
    BY <1>5, <2>1 DEF Tasks
  <2>3. \A u \in Tasks : Under(load'[u]) => u = t
    BY <2>2 DEF Under
  <2>4. Simple(e) /\ Live(e) /\ e.fault = d.fault
    BY <1>6, <1>7, <2>1
  <2>5. e.fault \notin {"walk", "ring", "freed"} /\ (e.fault = "stale" => ~LineIn(got.tags, got.pos))
    BY <2>1, <2>4
  <2>6. ~(Under(load'["graphic"]) /\ Under(load'["lwip"]))
    BY <2>3 DEF Tasks
  <2>7. Shows(e, m.tags, m.pos)
    BY <1>4 DEF Shows, LineIn
  <2>8. Under(load'[t])
    BY <1>4, <1>5 DEF Under
  <2>9. "editor" \notin ToSet(top')
    BY <1>1, <1>3, <2>1, RootedTop DEF RestTypes
  <2> QED BY <1>1, <1>5, <1>7, <2>3, <2>4, <2>5, <2>6, <2>7, <2>8, <2>9 DEF QuietFits
<1> QED BY <1>8, <1>9, <1>10, <1>11 DEF IInv, WhileQuiet

\* A task goes on loading its page.
LEMMA LoadMoved ==
    ASSUME IInv, NEW t \in Tasks, display.fault = "none", Under(load[t]),
           NEW m \in LoadStates, LoadFits(t, m), Under(m), m.why = load[t].why,
           load' = [load EXCEPT ![t] = m], Sound(display'),
           display'.initialized = display.initialized,
           UNCHANGED <<top, paint, aktElement, keys, got, paged, overlap, loads>>,
           ~overlap /\ ~paged =>
               /\ Simple(display') /\ Live(display') /\ display'.drawn = {}
               /\ display'.fault \notin {"walk", "ring", "freed", "stale"}
               /\ m.why = "store" => ~display'.save
               /\ Shows(display', m.tags, m.pos)
    PROVE  IInv'
<1>1. RestTypes /\ \A u \in Tasks : LoadFits(u, load[u])
  BY DEF IInv
<1>2. /\ load' \in [Tasks -> LoadStates] /\ load'[t] = m
      /\ \A u \in Tasks \ {t} : load'[u] = load[u]
  BY <1>1 DEF RestTypes
<1>3. RestTypes'
  BY <1>1, <1>2 DEF RestTypes
<1>4. \A u \in Tasks : LoadFits(u, load'[u])
  BY <1>1, <1>2
<1>5. ASSUME ~overlap, ~paged PROVE QuietFits(display', load', top, aktElement, got)
  <2>1. QuietFits(display, load, top, aktElement, got)
    BY <1>5 DEF IInv, WhileQuiet
  <2>2. \A u \in Tasks : Under(load'[u]) => Under(load[u])
    BY <1>2
  <2>3. ~(Under(load'["graphic"]) /\ Under(load'["lwip"]))
    BY <2>1, <2>2 DEF QuietFits, Tasks
  <2>4. \A u \in Tasks : Under(load[u]) => u = t
    BY <2>1 DEF QuietFits, Tasks
  <2>5. "editor" \notin ToSet(top)
    BY <2>1 DEF QuietFits, Under
  <2> QED BY <1>2, <1>5, <2>2, <2>3, <2>4, <2>5 DEF QuietFits
<1>6. \A u \in Tasks : Under(load'[u]) => display'.initialized
  BY <1>2 DEF IInv
<1> QED BY <1>3, <1>4, <1>5, <1>6 DEF IInv, WhileQuiet

LEMMA FilledFits ==
    ASSUME NEW d, NEW T, NEW e, Filled(d, T, e), Simple(d), Live(d), d.drawn = {}
    PROVE  Simple(e) /\ Live(e)
<1>1. e.chain = d.chain /\ e.loose = d.loose /\ e.up = d.up /\ Linked(e) = Linked(d)
  BY DEF Filled, Linked
<1> QED BY <1>1 DEF Simple, Live

\* What is known of a page that arrives.
LEMMA Receiving ==
    ASSUME IInv, NEW t \in Tasks, load[t].pc = "recv"
    PROVE  /\ load[t] \in LoadStates /\ load[t].tags \in Seq(DOMAIN Tag)
           /\ load[t].tags \in Pages[load[t].page]
           /\ load[t].pos \in Nat /\ load[t].last \in Nat
           /\ load[t].pos <= 3 * Len(load[t].tags) + 1 /\ load[t].last <= load[t].pos
           /\ load[t].output \in BOOLEAN /\ load[t].buffer \in Seq(Tokens)
           /\ ToSet(load[t].buffer) \cap DOMAIN Tag \subseteq ToSet(load[t].tags)
           /\ FirstPass(load[t].output, load[t].buffer, load[t].tags, load[t].pos)
           /\ Len(Text(load[t].tags)) = 3 * Len(load[t].tags) + 1
<1>1. load[t] \in LoadStates /\ LoadFits(t, load[t])
  BY TypesOf DEF IInv
<1>2. /\ load[t].tags \in Seq(DOMAIN Tag) /\ load[t].pos \in Nat /\ load[t].last \in Nat
      /\ load[t].output \in BOOLEAN /\ load[t].buffer \in Seq(Tokens)
  BY <1>1 DEF LoadStates, Tokens
<1>3. Len(Text(load[t].tags)) = 3 * Len(load[t].tags) + 1
  BY <1>2, TextTokens
<1> QED BY <1>1, <1>2, <1>3 DEF LoadFits

\* A page that is stored shows no button to store it again.
LEMMA NoSubmit ==
    ASSUME IInv, NEW t \in Tasks, load[t].pc = "recv", load[t].why = "store"
    PROVE  ~\E x \in ToSet(load[t].tags) : Tag[x].type = "SubmitInputField"
<1>1. load[t].tags \in Pages[DEFAULT_SET_PAGE]
  BY DEF IInv, LoadFits
<1>2. \A k \in DOMAIN load[t].tags : Tag[load[t].tags[k]].type # "SubmitInputField"
  BY <1>1, DisplayAssumption
<1> QED BY <1>2 DEF ToSet

LEMMA ConnectSucceedsStep ==
    ASSUME IInv, NEW t \in Tasks, ConnectSucceeds(t) PROVE IInv'
<1>1. PICK tags \in Pages[load[t].page] :
          load' = [load EXCEPT ![t].pc = "recv", ![t].tags = tags]
  BY DEF ConnectSucceeds
<1> DEFINE m == [load[t] EXCEPT !.pc = "recv", !.tags = tags]
<1>2. /\ display.fault = "none" /\ load[t].pc = "connect"
      /\ UNCHANGED <<display, top, paint, aktElement, keys, got, paged, overlap, loads>>
  BY DEF ConnectSucceeds, At
<1>3. load[t] \in LoadStates /\ LoadFits(t, load[t]) /\ DOMAIN load = Tasks
  BY TypesOf DEF IInv
<1>4. tags \in Seq(DOMAIN Tag)
  <2>1. load[t].page \in DOMAIN Pages
    BY <1>3 DEF LoadStates
  <2> QED BY <2>1, DisplayAssumption
<1>5. /\ m \in LoadStates /\ m.pc = "recv" /\ m.tags = tags /\ m.why = load[t].why
      /\ m.page = load[t].page /\ m.pos = 0 /\ m.last = 0 /\ ~m.output /\ m.buffer = <<>>
  BY <1>2, <1>3, <1>4 DEF LoadStates, LoadFits
<1>6. load' = [load EXCEPT ![t] = m]
  BY <1>1, <1>3
<1> HIDE DEF m
<1>7. LoadFits(t, m)
  <2>1. ToSet(m.buffer) = {}
    BY <1>5 DEF ToSet
  <2>2. m.pos <= 3 * Len(m.tags) + 1 /\ m.last <= m.pos
    <3>1. Len(tags) \in Nat
      BY <1>4
    <3> QED BY <1>5, <3>1
  <2>3. FirstPass(m.output, m.buffer, m.tags, m.pos)
    <3>1. 0 % 3 = 0 /\ Len(<<>>) = 0
      OBVIOUS
    <3> QED BY <1>5, <3>1 DEF FirstPass
  <2> QED BY <1>3, <1>5, <2>1, <2>2, <2>3 DEF LoadFits
<1>8. Under(m) /\ Under(load[t])
  BY <1>2, <1>5 DEF Under
<1>9. ASSUME ~overlap, ~paged
      PROVE  /\ Simple(display) /\ Live(display) /\ display.drawn = {}
             /\ display.fault \notin {"walk", "ring", "freed", "stale"}
             /\ m.why = "store" => ~display.save
             /\ Shows(display, m.tags, m.pos)
  <2>1. QuietFits(display, load, top, aktElement, got)
    BY <1>9 DEF IInv, WhileQuiet
  <2>2. ~LineIn(m.tags, m.pos)
    <3>1. \A k \in 1 .. Len(tags) : ~(3 * k <= 0)
      BY <1>4
    <3> QED BY <1>4, <1>5, <3>1 DEF LineIn
  <2> QED BY <1>2, <1>5, <1>8, <2>1, <2>2 DEF QuietFits, Shows
<1> QED BY <1>2, <1>5, <1>6, <1>7, <1>8, <1>9, LoadMoved DEF IInv

LEMMA Closed ==
    ASSUME NEW t \in Tasks, RestTypes, Under(load[t]), Goto(t, "close")
    PROVE  \E m \in LoadStates :
              /\ load' = [load EXCEPT ![t] = m] /\ Under(m) /\ m.why = load[t].why
              /\ m.tags = load[t].tags /\ m.pos = load[t].pos
              /\ LoadFits(t, load[t]) => LoadFits(t, m)
<1> DEFINE m == [load[t] EXCEPT !.pc = "close"]
<1>1. load[t] \in LoadStates /\ DOMAIN load = Tasks
  BY TypesOf
<1>2. load' = [load EXCEPT ![t] = m]
  BY <1>1 DEF Goto
<1>3. /\ m \in LoadStates /\ m.pc = "close" /\ m.why = load[t].why
      /\ m.tags = load[t].tags /\ m.pos = load[t].pos /\ m.page = load[t].page
  BY <1>1 DEF LoadStates
<1> HIDE DEF m
<1>4. LoadFits(t, load[t]) => LoadFits(t, m)
  BY <1>3 DEF LoadFits
<1>5. Under(m)
  BY <1>3 DEF Under
<1> QED BY <1>2, <1>3, <1>4, <1>5

LEMMA ConnectFailsStep ==
    ASSUME IInv, NEW t \in Tasks, ConnectFails(t) PROVE IInv'
<1>1. /\ display.fault = "none" /\ Under(load[t]) /\ Goto(t, "close")
      /\ UNCHANGED <<display, top, paint, aktElement, keys, got, paged, overlap, loads>>
  BY DEF ConnectFails, At, Under
<1>2. PICK m \in LoadStates :
          /\ load' = [load EXCEPT ![t] = m] /\ Under(m) /\ m.why = load[t].why
          /\ m.tags = load[t].tags /\ m.pos = load[t].pos
          /\ LoadFits(t, load[t]) => LoadFits(t, m)
  BY <1>1, Closed DEF IInv
<1>3. ASSUME ~overlap, ~paged
      PROVE  /\ Simple(display) /\ Live(display) /\ display.drawn = {}
             /\ display.fault \notin {"walk", "ring", "freed", "stale"}
             /\ m.why = "store" => ~display.save
             /\ Shows(display, m.tags, m.pos)
  BY <1>1, <1>2, <1>3 DEF IInv, WhileQuiet, QuietFits
<1> QED BY <1>1, <1>2, <1>3, LoadMoved DEF IInv

\* What is filled in while a page is received.
LEMMA FilledSound ==
    ASSUME IInv, NEW t \in Tasks, load[t].pc = "recv", display.fault = "none",
           NEW e, Filled(display, ToSet(load[t].tags), e)
    PROVE  /\ Sound(e)
           /\ ~overlap /\ ~paged =>
                 /\ Simple(e) /\ Live(e) /\ e.drawn = {}
                 /\ e.fault \notin {"walk", "ring", "freed", "stale"}
                 /\ load[t].why = "store" => ~e.save
                 /\ Shows(e, load[t].tags, load[t].pos)
                 /\ Shows(display, load[t].tags, load[t].pos)
<1>1. Under(load[t])
  BY DEF Under
<1>2. Sound(e) /\ e.initialized = display.initialized
  BY <1>1 DEF IInv, Sound, Filled
<1>3. ASSUME ~overlap, ~paged
      PROVE  /\ Simple(e) /\ Live(e) /\ e.drawn = {}
             /\ e.fault \notin {"walk", "ring", "freed", "stale"}
             /\ load[t].why = "store" => ~e.save
             /\ Shows(e, load[t].tags, load[t].pos)
             /\ Shows(display, load[t].tags, load[t].pos)
  <2>1. QuietFits(display, load, top, aktElement, got)
    BY <1>3 DEF IInv, WhileQuiet
  <2>2. /\ Simple(display) /\ Live(display) /\ display.drawn = {}
        /\ load[t].why = "store" => ~display.save
        /\ Shows(display, load[t].tags, load[t].pos)
    BY <1>1, <2>1 DEF QuietFits
  <2>3. Simple(e) /\ Live(e) /\ e.drawn = {}
    BY <2>2, FilledFits DEF Filled
  <2>4. e.fault \in {"none", "memory"}
    BY DEF Filled
  <2>5. load[t].why = "store" => ~e.save
    BY <2>2, NoSubmit DEF Filled
  <2>6. Shows(e, load[t].tags, load[t].pos)
    BY <2>2 DEF Shows, Filled
  <2> QED BY <2>2, <2>3, <2>4, <2>5, <2>6
<1> QED BY <1>2, <1>3

LEMMA ReceiveStep ==
    ASSUME IInv, NEW t \in Tasks, Receive(t) PROVE IInv'
<1> DEFINE tags == load[t].tags
           pos == load[t].pos
<1>1. /\ display.fault = "none" /\ load[t].pc = "recv"
      /\ UNCHANGED <<top, paint, aktElement, keys, got, paged, overlap, loads>>
  BY DEF Receive, At
<1>2. /\ load[t] \in LoadStates /\ tags \in Seq(DOMAIN Tag) /\ tags \in Pages[load[t].page]
      /\ pos \in Nat /\ pos <= 3 * Len(tags) + 1
      /\ load[t].output \in BOOLEAN /\ load[t].buffer \in Seq(Tokens)
      /\ ToSet(load[t].buffer) \cap DOMAIN Tag \subseteq ToSet(tags)
      /\ FirstPass(load[t].output, load[t].buffer, tags, pos)
      /\ Len(Text(tags)) = 3 * Len(tags) + 1
  BY <1>1, Receiving
<1>3. PICK n \in { pos + k : k \in SEGMENTS } \cup { Len(Text(tags)) } :
          /\ n > pos /\ n <= Len(Text(tags))
          /\ LET p == Parse(t, Text(tags), pos, n - pos)
             IN /\ display' = p.d
                /\ load' = [load EXCEPT ![t].pos = n, ![t].last = n - pos,
                                ![t].output = p.output, ![t].buffer = p.buffer]
  BY DEF Receive
<1> DEFINE p == Parse(t, Text(tags), pos, n - pos)
           m == [load[t] EXCEPT !.pos = n, !.last = n - pos, !.output = p.output,
                                !.buffer = p.buffer]
<1>4. /\ n \in Nat /\ n - pos \in Nat /\ pos + (n - pos) = n /\ n <= 3 * Len(tags) + 1
      /\ n - pos <= n
  <2>1. SEGMENTS \subseteq Nat
    BY DisplayAssumption
  <2>2. Len(tags) \in Nat
    BY <1>2
  <2>3. n \in Nat
    BY <1>2, <2>1, <2>2
  <2> QED BY <1>2, <1>3, <2>2, <2>3
<1>5. display' = p.d /\ load' = [load EXCEPT ![t].pos = n, ![t].last = n - pos,
                                            ![t].output = p.output, ![t].buffer = p.buffer]
  BY <1>3
<1>6. /\ p \in Parsed(display, tags)
      /\ FirstPass(p.output, p.buffer, tags, n)
      /\ Shows(display, tags, pos) => Shows(p.d, tags, n)
  <2>1. Good(display) /\ Listed(display)
    BY DEF IInv, Sound
  <2> QED BY <1>2, <1>4, <2>1, TextParsed
<1>7. /\ p.output \in BOOLEAN /\ p.buffer \in Seq(Tokens)
      /\ Filled(display, ToSet(tags), p.d) /\ ToSet(p.buffer) \cap DOMAIN Tag \subseteq ToSet(tags)
  BY <1>6 DEF Parsed
<1>8. load' = [load EXCEPT ![t] = m]
  BY <1>5, TypesOf DEF IInv
<1> HIDE DEF p
<1>9. /\ m \in LoadStates /\ m.pc = "recv" /\ m.why = load[t].why /\ m.page = load[t].page
      /\ m.tags = tags /\ m.pos = n /\ m.last = n - pos /\ m.output = p.output
      /\ m.buffer = p.buffer
  BY <1>1, <1>2, <1>4, <1>7 DEF LoadStates, Tokens
<1> HIDE DEF m
<1>10. LoadFits(t, m)
  BY <1>1, <1>2, <1>4, <1>6, <1>7, <1>9 DEF LoadFits, IInv
<1>11. /\ Sound(p.d)
       /\ ~overlap /\ ~paged =>
             /\ Simple(p.d) /\ Live(p.d) /\ p.d.drawn = {}
             /\ p.d.fault \notin {"walk", "ring", "freed", "stale"}
             /\ load[t].why = "store" => ~p.d.save
             /\ Shows(display, tags, pos)
  BY <1>1, <1>7, FilledSound
<1>12. Under(load[t]) /\ Under(m)
  BY <1>1, <1>9 DEF Under
<1>13. display'.initialized = display.initialized
  BY <1>5, <1>7 DEF Filled
<1> QED BY <1>1, <1>5, <1>6, <1>8, <1>9, <1>10, <1>11, <1>12, <1>13, LoadMoved

LEMMA ConnectionEndsStep ==
    ASSUME IInv, NEW t \in Tasks, ConnectionEnds(t) PROVE IInv'
<1> DEFINE tags == load[t].tags
           pos == load[t].pos
           first == pos - load[t].last
<1>1. /\ display.fault = "none" /\ load[t].pc = "recv" /\ Goto(t, "close")
      /\ UNCHANGED <<top, paint, aktElement, keys, got, paged, overlap, loads>>
      /\ \/ display' = Parse(t, Text(tags), first, load[t].last).d
         \/ UNCHANGED display
         \/ display' = Fault(display, "wild")
  BY DEF ConnectionEnds, At
<1>2. Under(load[t]) /\ RestTypes /\ LoadFits(t, load[t]) /\ Good(display) /\ Listed(display)
      /\ Sound(display)
  BY <1>1 DEF Under, IInv, Sound
<1>3. PICK m \in LoadStates :
          /\ load' = [load EXCEPT ![t] = m] /\ Under(m) /\ m.why = load[t].why
          /\ m.tags = load[t].tags /\ m.pos = load[t].pos
          /\ LoadFits(t, load[t]) => LoadFits(t, m)
  BY <1>1, <1>2, Closed
<1>4. /\ tags \in Seq(DOMAIN Tag) /\ pos \in Nat /\ load[t].last \in Nat
      /\ pos <= 3 * Len(tags) + 1 /\ load[t].last <= pos
      /\ load[t].output \in BOOLEAN /\ load[t].buffer \in Seq(Tokens)
      /\ ToSet(load[t].buffer) \cap DOMAIN Tag \subseteq ToSet(tags)
  BY <1>1, Receiving
<1>5. first \in Nat /\ first + load[t].last <= 3 * Len(tags) + 1
  BY <1>4
<1>6. ASSUME NEW e, Filled(display, ToSet(tags), e), display' = e PROVE IInv'
  <2>1. /\ Sound(e)
        /\ ~overlap /\ ~paged =>
              /\ Simple(e) /\ Live(e) /\ e.drawn = {}
              /\ e.fault \notin {"walk", "ring", "freed", "stale"}
              /\ load[t].why = "store" => ~e.save
              /\ Shows(e, tags, pos)
    BY <1>1, <1>6, FilledSound
  <2>2. display'.initialized = display.initialized
    BY <1>6 DEF Filled
  <2> QED BY <1>1, <1>2, <1>3, <1>6, <2>1, <2>2, LoadMoved
<1>7. CASE display' = Parse(t, Text(tags), first, load[t].last).d
  <2>1. Parse(t, Text(tags), first, load[t].last) \in Parsed(display, tags)
    BY <1>2, <1>4, <1>5, TextParsed
  <2>2. Filled(display, ToSet(tags), Parse(t, Text(tags), first, load[t].last).d)
    BY <2>1 DEF Parsed
  <2> QED BY <1>6, <1>7, <2>2
<1>8. CASE UNCHANGED display
  <2>1. Filled(display, ToSet(tags), display)
    BY <1>2, FilledSame
  <2> QED BY <1>6, <1>8, <2>1
<1>9. CASE display' = Fault(display, "wild")
  <2> DEFINE e == Fault(display, "wild")
  <2>1. "wild" \in Faults \ {"none"}
    BY DEF Faults
  <2>2. /\ Good(e) /\ SameHead(display, e) /\ SameLines(display, e)
        /\ e.chain = display.chain /\ e.loose = display.loose /\ e.up = display.up
        /\ e.fault = "wild"
    BY <1>1, <1>2, <2>1, Faulted
  <2> HIDE DEF e
  <2>3. Listed(e)
    BY <1>2, <2>2, ListedSame
  <2>4. e.initialized = display.initialized
    BY <2>2 DEF SameHead
  <2>5. Sound(e)
    BY <1>2, <2>2, <2>3 DEF Sound, SameHead
  <2>6. ASSUME ~overlap, ~paged
        PROVE  /\ Simple(e) /\ Live(e) /\ e.drawn = {}
               /\ e.fault \notin {"walk", "ring", "freed", "stale"}
               /\ m.why = "store" => ~e.save
               /\ Shows(e, m.tags, m.pos)
    <3>1. QuietFits(display, load, top, aktElement, got)
      BY <2>6 DEF IInv, WhileQuiet
    <3>2. /\ Simple(display) /\ Live(display) /\ display.drawn = {}
          /\ load[t].why = "store" => ~display.save
      BY <1>2, <3>1 DEF QuietFits
    <3>3. Linked(e) = Linked(display)
      BY <2>2 DEF Linked
    <3>4. Simple(e) /\ Live(e)
      BY <2>2, <3>2, <3>3 DEF Simple, Live
    <3>5. e.drawn = {} /\ (m.why = "store" => ~e.save)
      BY <1>3, <2>2, <3>2 DEF SameHead, SameLines
    <3>6. Shows(e, m.tags, m.pos)
      BY <2>2 DEF Shows
    <3> QED BY <2>2, <3>4, <3>5, <3>6
  <2>7. display' = e
    BY <1>9 DEF e
  <2> QED BY <1>1, <1>2, <1>3, <2>4, <2>5, <2>6, <2>7, LoadMoved
<1> QED BY <1>1, <1>7, <1>8, <1>9

\* A widget that is not linked is initialised again: nothing else changes.
LEMMA ResetSound ==
    ASSUME NEW d, Sound(d), NEW w \in Widgets
    PROVE  LET e == Reset(d, w)
           IN /\ Sound(e) /\ SameHead(d, e) /\ SameLines(d, e) /\ e.fault = d.fault
              /\ Simple(d) /\ Live(d) /\ w \notin Linked(d) => Simple(e) /\ Live(e)
<1> DEFINE e == Reset(d, w)
<1>1. /\ Good(e) /\ SameHead(d, e) /\ SameLines(d, e) /\ e.fault = d.fault
      /\ Simple(d) /\ w \notin Linked(d) => Simple(e) /\ Linked(e) = Linked(d)
  BY ResetOf DEF Sound
<1> HIDE DEF e
<1>2. Listed(e)
  BY <1>1, ListedSame DEF Sound
<1>3. Sound(e)
  BY <1>1, <1>2 DEF Sound, SameHead
<1>4. ASSUME Simple(d), Live(d), w \notin Linked(d) PROVE Simple(e) /\ Live(e)
  BY <1>1, <1>4, LiveKept
<1> QED BY <1>1, <1>3, <1>4 DEF e

LEMMA EndLoadStep ==
    ASSUME IInv, NEW t \in Tasks, EndLoad(t) PROVE IInv'
<1> DEFINE why == load[t].why
           d == IF why \in {"menu", "boot"} THEN [display EXCEPT !.menue = FALSE] ELSE display
           drawn == DrawElements(d)
           e == CASE why = "menu"  -> Reset(drawn, Menu)
                  [] why = "store" -> Reset(drawn, Save)
                  [] OTHER         -> drawn
           g == [tags |-> load[t].tags, pos |-> load[t].pos, why |-> load[t].why]
<1>1. /\ display.fault = "none" /\ load[t].pc = "close"
      /\ display' = e /\ paint' = TRUE /\ got' = g /\ load' = [load EXCEPT ![t] = Idle]
      /\ UNCHANGED <<top, aktElement, keys, paged, overlap, loads>>
  BY DEF EndLoad, At
<1>2. Under(load[t]) /\ RestTypes /\ Sound(display) /\ load[t] \in LoadStates
      /\ \A u \in Tasks : LoadFits(u, load[u])
  BY <1>1, TypesOf DEF Under, IInv
<1>3. /\ load' \in [Tasks -> LoadStates] /\ load'[t] = Idle
      /\ \A u \in Tasks \ {t} : load'[u] = load[u]
  BY <1>1, <1>2, IdleState DEF RestTypes
<1>4. /\ d \in Displays /\ d.tag = display.tag /\ d.pool = display.pool /\ d.drawn = display.drawn
      /\ d.initialized = display.initialized /\ d.save = display.save
      /\ d.entities = display.entities /\ d.displayEntities = display.displayEntities
      /\ d.fault = display.fault /\ d.chain = display.chain /\ d.loose = display.loose
      /\ d.up = display.up /\ (why = "menu" => ~d.menue) /\ d.click = display.click
  <2>1. display \in Displays
    BY <1>2 DEF Sound, Good
  <2>2. CASE why \in {"menu", "boot"}
    <3>1. d = [display EXCEPT !.menue = FALSE]
      BY <2>2
    <3> HIDE DEF d
    <3> QED BY <2>1, <3>1 DEF Displays
  <2>3. CASE why \notin {"menu", "boot"}
    BY <2>1, <2>3
  <2> QED BY <2>2, <2>3
<1> HIDE DEF d
<1>5. Good(d) /\ Listed(d) /\ (Simple(display) => Simple(d)) /\ (Live(display) => Live(d))
  <2>1. Linked(d) = Linked(display)
    BY <1>4 DEF Linked
  <2>2. Tree(d)
    BY <1>2, <1>4, <2>1 DEF Sound, Good, Tree
  <2>3. Listed(d)
    <3>1. Clicks(d)
      BY <1>2, <1>4 DEF Sound, Listed, Clicks, Type
    <3> QED BY <1>2, <1>4, <3>1 DEF Sound, Listed
  <2>4. Simple(display) => Simple(d)
    BY <1>4, <2>1 DEF Simple
  <2>5. Live(display) => Live(d)
    BY <1>4, <2>1 DEF Live, Type
  <2> QED BY <1>4, <2>2, <2>3, <2>4, <2>5 DEF Good
<1>6. /\ Good(drawn) /\ SameHead(d, drawn) /\ Listed(drawn) /\ drawn.tag = d.tag
      /\ Simple(d) /\ Live(d) /\ d.drawn = {} =>
            /\ Simple(drawn) /\ Live(drawn) /\ drawn.fault = d.fault
            /\ ~d.menue => Menu \notin Linked(drawn)
            /\ Save \in Linked(drawn) <=> d.save
  BY <1>5, ElementsDrawn
<1> HIDE DEF drawn
<1>7. Sound(drawn)
  BY <1>2, <1>4, <1>6 DEF Sound, SameHead
<1>8. Menu \in Widgets /\ Save \in Widgets
  BY WidgetsDiffer
<1>9. /\ Sound(e) /\ SameHead(drawn, e) /\ SameLines(drawn, e) /\ e.fault = drawn.fault
      /\ \/ e = drawn
         \/ why = "menu" /\ e = Reset(drawn, Menu)
         \/ why = "store" /\ e = Reset(drawn, Save)
  <2>1. CASE why = "menu"
    <3>1. e = Reset(drawn, Menu)
      BY <2>1
    <3> QED BY <1>7, <1>8, <2>1, <3>1, ResetSound
  <2>2. CASE why = "store"
    <3>1. e = Reset(drawn, Save)
      BY <2>2
    <3> QED BY <1>7, <1>8, <2>2, <3>1, ResetSound
  <2>3. CASE why \notin {"menu", "store"}
    <3>1. e = drawn
      BY <2>3
    <3> HIDE DEF e
    <3> QED BY <1>7, <3>1 DEF SameHead, SameLines
  <2> QED BY <2>1, <2>2, <2>3
<1> HIDE DEF e
<1>10. RestTypes'
  <2>1. g \in [tags : Seq(DOMAIN Tag), pos : Nat, why : {"none", "menu", "store", "link", "boot"}]
    BY <1>2 DEF LoadStates
  <2> QED BY <1>1, <1>2, <1>3, <2>1 DEF RestTypes
<1>11. \A u \in Tasks : LoadFits(u, load'[u])
  <2>1. LoadFits(t, Idle)
    BY DEF LoadFits, Idle
  <2> QED BY <1>2, <1>3, <2>1
<1>12. \A u \in Tasks : Under(load'[u]) => display'.initialized
  <2>1. display'.initialized = display.initialized
    BY <1>1, <1>4, <1>6, <1>9 DEF SameHead
  <2>2. ~Under(Idle)
    BY IdleState DEF Under
  <2> QED BY <1>3, <2>1, <2>2 DEF IInv
<1>13. ASSUME ~overlap, ~paged PROVE QuietFits(e, load', top, aktElement, g)
  <2>1. QuietFits(display, load, top, aktElement, got)
    BY <1>13 DEF IInv, WhileQuiet
  <2>2. \A u \in Tasks : ~Under(load'[u])
    <3>1. ~Under(Idle)
      BY IdleState DEF Under
    <3>2. \A u \in Tasks \ {t} : ~Under(load[u])
      BY <1>2, <2>1 DEF QuietFits, Tasks
    <3> QED BY <1>3, <3>1, <3>2
  <2>3. /\ Simple(display) /\ Live(display) /\ display.drawn = {}
        /\ why = "store" => ~display.save
        /\ Shows(display, load[t].tags, load[t].pos)
    BY <1>2, <2>1 DEF QuietFits
  <2>4. /\ Simple(drawn) /\ Live(drawn) /\ drawn.fault = "none"
        /\ why = "menu" => Menu \notin Linked(drawn)
        /\ why = "store" => Save \notin Linked(drawn)
    BY <1>1, <1>4, <1>5, <1>6, <2>3
  <2>5. Simple(e) /\ Live(e)
    BY <1>7, <1>8, <1>9, <2>4, ResetSound
  <2>6. e.fault = "none"
    BY <1>9, <2>4
  <2>7. Shows(e, g.tags, g.pos)
    <3>1. e.displayEntities = display.displayEntities
      BY <1>4, <1>6, <1>9 DEF SameHead
    <3> QED BY <1>1, <2>3, <3>1 DEF Shows
  <2>8. "editor" \notin ToSet(top)
    BY <1>2, <2>1 DEF QuietFits, Under
  <2> QED BY <2>2, <2>5, <2>6, <2>7, <2>8 DEF QuietFits, Tasks
<1> QED BY <1>1, <1>9, <1>10, <1>11, <1>12, <1>13 DEF IInv, WhileQuiet

-----------------------------------------------------------------------------
(* The graphic task and the link monitor. *)

LEMMA FaultSound ==
    ASSUME NEW d, Sound(d), NEW what \in Faults \ {"none"}
    PROVE  LET e == Fault(d, what)
           IN /\ Sound(e) /\ SameHead(d, e) /\ SameLines(d, e)
              /\ e.fault = IF d.fault = "none" THEN what ELSE d.fault
              /\ Simple(d) => Simple(e)
              /\ Live(d) => Live(e)
<1> DEFINE e == Fault(d, what)
<1>1. /\ Good(e) /\ SameHead(d, e) /\ SameLines(d, e)
      /\ e.chain = d.chain /\ e.loose = d.loose /\ e.up = d.up
      /\ e.fault = IF d.fault = "none" THEN what ELSE d.fault
  BY Faulted DEF Sound
<1> HIDE DEF e
<1>2. Linked(e) = Linked(d)
  BY <1>1 DEF Linked
<1>3. Listed(e)
  BY <1>1, ListedSame DEF Sound
<1>4. Sound(e)
  BY <1>1, <1>3 DEF Sound, SameHead
<1>5. Simple(d) => Simple(e)
  BY <1>1, <1>2 DEF Simple
<1>6. Live(d) => Live(e)
  BY <1>1, <1>2, LiveKept
<1> QED BY <1>1, <1>4, <1>5, <1>6 DEF e

LEMMA StaysInTree ==
    ASSUME NEW d \in Displays, Simple(d) PROVE ~LeavesTree(d)
<1> SUFFICES ASSUME d.chain # <<>> PROVE Last(d.chain) \in d.up
  BY DEF LeavesTree
<1>1. d.chain \in Seq(Widgets)
  BY DEF Displays
<1>2. Len(d.chain) \in DOMAIN d.chain
  BY <1>1
<1>3. Last(d.chain) \in Linked(d)
  BY <1>2 DEF Last, Linked, ToSet
<1> QED BY <1>3 DEF Simple

\* What a step leaves of the invariant that changes no load.
LEMMA LoadsKept ==
    ASSUME IInv, UNCHANGED load, Sound(display'),
           display.initialized => display'.initialized, RestTypes',
           ~overlap' /\ ~paged' => QuietFits(display', load, top', aktElement', got')
    PROVE  IInv'
BY DEF IInv, WhileQuiet

LEMMA BootStep == ASSUME IInv, Boot PROVE IInv'
<1> DEFINE e == InitDisplay(display)
           m == [load["graphic"] EXCEPT !.pc = "idle"]
<1>1. /\ display.fault = "none" /\ load["graphic"].pc = "boot"
      /\ display' = e /\ top' = Rooted /\ Goto("graphic", "idle")
      /\ UNCHANGED <<paint, aktElement, keys, got, paged, overlap, loads>>
  BY DEF Boot, At
<1>2. RestTypes /\ Sound(display) /\ \A u \in Tasks : LoadFits(u, load[u])
  BY DEF IInv
<1>3. "graphic" \in Tasks /\ load["graphic"] \in LoadStates /\ DOMAIN load = Tasks
  BY <1>2, TypesOf DEF Tasks
<1>4. load' = [load EXCEPT !["graphic"] = m]
  BY <1>1, <1>3 DEF Goto
<1>5. m \in LoadStates /\ m.pc = "idle" /\ m.why = load["graphic"].why /\ m.page = load["graphic"].page
  BY <1>3 DEF LoadStates
<1> HIDE DEF m
<1>6. /\ load' \in [Tasks -> LoadStates] /\ load'["graphic"] = m
      /\ \A u \in Tasks \ {"graphic"} : load'[u] = load[u]
  BY <1>2, <1>3, <1>4, <1>5 DEF RestTypes
<1>7. /\ Good(e) /\ Listed(e) /\ e.initialized /\ SameLines(display, e)
      /\ e.fault = display.fault /\ e.displayEntities = display.displayEntities
      /\ Simple(display) /\ Live(display) => Simple(e) /\ Live(e)
  BY <1>2, DisplayInitialised DEF Sound
<1>8. display.initialized => e = display
  BY DEF InitDisplay
<1> HIDE DEF e
<1>9. RestTypes'
  BY <1>1, <1>2, <1>6, RootedTop DEF RestTypes
<1>10. \A u \in Tasks : LoadFits(u, load'[u])
  <2>1. LoadFits("graphic", m)
    BY <1>2, <1>3, <1>5 DEF LoadFits
  <2> QED BY <1>2, <1>6, <2>1
<1>11. \A u \in Tasks : Under(load'[u]) => u # "graphic" /\ Under(load[u])
  BY <1>5, <1>6 DEF Under
<1>12. ASSUME ~overlap, ~paged PROVE QuietFits(e, load', top', aktElement, got)
  <2>1. QuietFits(display, load, top, aktElement, got)
    BY <1>12 DEF IInv, WhileQuiet
  <2>2. "editor" \notin ToSet(top')
    <3>1. "editor" \notin ToSet(top)
      BY <1>1, <1>3, <2>1 DEF QuietFits
    <3> QED BY <1>1, <1>2, <3>1, RootedTop DEF RestTypes
  <2>3. Simple(e) /\ Live(e) /\ e.fault = "none"
    BY <1>1, <1>7, <2>1 DEF QuietFits
  <2>4. ASSUME NEW u \in Tasks, Under(load'[u])
        PROVE  e.drawn = {} /\ (load'[u].why = "store" => ~e.save)
               /\ Shows(e, load'[u].tags, load'[u].pos)
    <3>1. Under(load[u]) /\ load'[u] = load[u]
      BY <1>6, <1>11, <2>4
    <3>2. e = display
      BY <1>8, <3>1 DEF IInv
    <3> QED BY <2>1, <3>1, <3>2 DEF QuietFits
  <2>5. ASSUME \A u \in Tasks : ~Under(load'[u]) PROVE Shows(e, got.tags, got.pos)
    <3>1. \A u \in Tasks : ~Under(load[u])
      BY <1>1, <1>6, <2>5 DEF Under
    <3>2. Shows(display, got.tags, got.pos)
      BY <2>1, <3>1 DEF QuietFits
    <3> QED BY <1>7, <3>2 DEF Shows
  <2>6. ~(Under(load'["graphic"]) /\ Under(load'["lwip"]))
    BY <1>3, <1>11
  <2> QED BY <2>2, <2>3, <2>4, <2>5, <2>6 DEF QuietFits
<1>13. Sound(e)
  BY <1>7 DEF Sound
<1> QED BY <1>1, <1>7, <1>9, <1>10, <1>12, <1>13 DEF IInv, WhileQuiet

LEMMA PaintStep == ASSUME IInv, Paint PROVE IInv'
<1>1. /\ display.fault = "none" /\ paint' = FALSE
      /\ display' = IF LeavesTree(display) THEN Fault(display, "walk") ELSE display
      /\ UNCHANGED <<top, aktElement, keys, load, got, paged, overlap, loads>>
  BY DEF Paint, At
<1>2. RestTypes /\ Sound(display) /\ display \in Displays
  BY DEF IInv, Sound, Good
<1>3. Sound(display') /\ display'.initialized = display.initialized
  <2>1. "walk" \in Faults \ {"none"}
    BY DEF Faults
  <2> QED BY <1>1, <1>2, <2>1, FaultSound DEF SameHead
<1>4. RestTypes'
  BY <1>1, <1>2 DEF RestTypes
<1>5. ASSUME ~overlap, ~paged PROVE QuietFits(display', load, top, aktElement, got)
  <2>1. QuietFits(display, load, top, aktElement, got)
    BY <1>5 DEF IInv, WhileQuiet
  <2>2. ~LeavesTree(display)
    BY <1>2, <2>1, StaysInTree DEF QuietFits
  <2> QED BY <1>1, <2>1, <2>2
<1> QED BY <1>1, <1>3, <1>4, <1>5, LoadsKept

\* What is known while a button of the page can be pressed.
LEMMA PagePressed ==
    ASSUME IInv, load["graphic"].pc = "idle", "page" \in ToSet(top), display.fault = "none"
    PROVE  load["lwip"].pc = "idle" /\ ~overlap /\ ~paged =>
              /\ Simple(display) /\ Live(display) /\ "editor" \notin ToSet(top)
              /\ Shows(display, got.tags, got.pos)
<1> SUFFICES ASSUME load["lwip"].pc = "idle", ~overlap, ~paged
             PROVE  /\ Simple(display) /\ Live(display) /\ "editor" \notin ToSet(top)
                    /\ Shows(display, got.tags, got.pos)
  OBVIOUS
<1>1. QuietFits(display, load, top, aktElement, got)
  BY DEF IInv, WhileQuiet
<1>2. \A t \in Tasks : ~Under(load[t])
  BY DEF Tasks, Under
<1>3. "editor" \notin ToSet(top)
  <2>1. ToSet(<<"editor">>) = {"editor"}
    <3>1. \A i \in 1 .. 1 : <<"editor">>[i] = "editor"
      OBVIOUS
    <3>2. DOMAIN <<"editor">> = 1 .. 1 /\ 1 \in 1 .. 1
      OBVIOUS
    <3> QED BY <3>1, <3>2 DEF ToSet
  <2> QED BY <1>1, <2>1 DEF QuietFits
<1> QED BY <1>1, <1>2, <1>3 DEF QuietFits

LEMMA PressMenuStep == ASSUME IInv, PressMenu PROVE IInv'
<1>1. /\ display.fault = "none" /\ load["graphic"].pc = "idle" /\ "page" \in ToSet(top)
      /\ StartLoad("graphic", "menu", DEFAULT_MENU_PAGE, display)
  BY DEF PressMenu, Pressable, Reachable, At
<1>2. overlap' = (overlap \/ Busy("lwip")) /\ paged' = paged
  BY <1>1 DEF StartLoad, NoteOverlap
<1>3. ASSUME ~overlap', ~paged
      PROVE  /\ Simple(display) /\ Live(display)
             /\ display.fault \notin {"walk", "ring", "freed"}
             /\ display.fault = "stale" => ~LineIn(got.tags, got.pos)
             /\ "editor" \notin ToSet(top)
  BY <1>1, <1>2, <1>3, PagePressed DEF Busy
<1>4. "graphic" \in Tasks /\ DEFAULT_MENU_PAGE \in DOMAIN Pages /\ Sound(display)
  BY DisplayAssumption DEF Tasks, IInv
<1> QED BY <1>1, <1>3, <1>4, LoadStarted

LEMMA PressSaveStep == ASSUME IInv, PressSave PROVE IInv'
<1> DEFINE dead == \E k \in DOMAIN display.entities : display.tag[display.entities[k]] = Free
           d == IF dead THEN Fault(display, "stale") ELSE display
<1>1. /\ display.fault = "none" /\ load["graphic"].pc = "idle" /\ "page" \in ToSet(top)
      /\ StartLoad("graphic", "store", DEFAULT_SET_PAGE, d)
  BY DEF PressSave, Pressable, Reachable, At
<1>2. overlap' = (overlap \/ Busy("lwip")) /\ paged' = paged
  BY <1>1 DEF StartLoad, NoteOverlap
<1>3. "graphic" \in Tasks /\ DEFAULT_SET_PAGE \in DOMAIN Pages /\ Sound(display)
  BY DisplayAssumption DEF Tasks, IInv
<1>4. dead => ~display.displayEntities
  <2> SUFFICES ASSUME NEW k \in DOMAIN display.entities, display.displayEntities
               PROVE  display.tag[display.entities[k]] # Free
    OBVIOUS
  <2>1. display.entities[k] \in Lines
    BY <1>3 DEF Sound, Good, Displays
  <2>2. display.entities[k] \in ToSet(display.entities)
    BY DEF ToSet
  <2> QED BY <1>3, <2>1, <2>2 DEF Sound, Listed
<1>5. /\ Sound(d) /\ d.fault \in {"none", "stale"} /\ (d.fault = "stale" => dead)
      /\ Simple(display) => Simple(d)
      /\ Live(display) => Live(d)
  <2>1. CASE dead
    <3>1. "stale" \in Faults \ {"none"}
      BY DEF Faults
    <3>2. d = Fault(display, "stale")
      BY <2>1
    <3> HIDE DEF d, dead
    <3> QED BY <1>1, <1>3, <2>1, <3>1, <3>2, FaultSound
  <2>2. CASE ~dead
    BY <1>1, <1>3, <2>2
  <2> QED BY <2>1, <2>2
<1> HIDE DEF d, dead
<1>6. ASSUME ~overlap', ~paged
      PROVE  /\ Simple(d) /\ Live(d)
             /\ d.fault \notin {"walk", "ring", "freed"}
             /\ d.fault = "stale" => ~LineIn(got.tags, got.pos)
             /\ "editor" \notin ToSet(top)
  <2>1. /\ Simple(display) /\ Live(display) /\ "editor" \notin ToSet(top)
        /\ Shows(display, got.tags, got.pos)
    BY <1>1, <1>2, <1>6, PagePressed DEF Busy
  <2>2. dead => ~LineIn(got.tags, got.pos)
    BY <1>1, <1>4, <2>1 DEF Shows
  <2> QED BY <1>5, <2>1, <2>2
<1> QED BY <1>1, <1>3, <1>5, <1>6, LoadStarted

LEMMA LoadMenuStep == ASSUME IInv, LoadMenu PROVE IInv'
<1>1. /\ display.fault = "none" /\ load["lwip"].pc = "idle"
      /\ StartLoad("lwip", "boot", DEFAULT_MENU_PAGE, display)
  BY DEF LoadMenu, At
<1>2. overlap' = (overlap \/ Busy("graphic") \/ "editor" \in ToSet(top)) /\ paged' = paged
  BY <1>1 DEF StartLoad, NoteOverlap
<1>3. ASSUME ~overlap', ~paged
      PROVE  /\ Simple(display) /\ Live(display)
             /\ display.fault \notin {"walk", "ring", "freed"}
             /\ display.fault = "stale" => ~LineIn(got.tags, got.pos)
             /\ "editor" \notin ToSet(top)
  BY <1>1, <1>2, <1>3 DEF IInv, WhileQuiet, QuietFits
<1>4. "lwip" \in Tasks /\ DEFAULT_MENU_PAGE \in DOMAIN Pages /\ Sound(display)
  BY DisplayAssumption DEF Tasks, IInv
<1> QED BY <1>1, <1>3, <1>4, LoadStarted

\* Once a page button was pressed, the tree stays a list and the lines stay what
\* they are.
LEMMA PageStep ==
    ASSUME IInv, NEW w \in {Up, Down}, NEW offset \in 0 .. MAX_OFFSET, Page(w, offset)
    PROVE  IInv'
<1> DEFINE d == [display EXCEPT !.offset = offset]
           i == InitDisplay(d)
           a == DrawElements(i)
           e == Reset(a, w)
<1>1. /\ display' = e /\ top' = Rooted /\ paint' = TRUE /\ paged' = TRUE
      /\ overlap' = (overlap \/ Busy("lwip"))
      /\ UNCHANGED <<aktElement, keys, load, got, loads>>
  BY DEF Page, NoteOverlap
<1>2. RestTypes /\ Sound(display) /\ display \in Displays
  BY DEF IInv, Sound, Good
<1>3. /\ d \in Displays /\ d.tag = display.tag /\ d.pool = display.pool /\ d.drawn = display.drawn
      /\ d.initialized = display.initialized /\ d.entities = display.entities
      /\ d.displayEntities = display.displayEntities /\ d.chain = display.chain
      /\ d.loose = display.loose /\ d.click = display.click
  BY <1>2 DEF Displays
<1> HIDE DEF d
<1>4. Sound(d)
  <2>1. Linked(d) = Linked(display)
    BY <1>3 DEF Linked
  <2>2. Tree(d)
    BY <1>2, <1>3, <2>1 DEF Sound, Good, Tree
  <2>3. Listed(d)
    <3>1. Clicks(d)
      BY <1>2, <1>3 DEF Sound, Listed, Clicks, Type
    <3> QED BY <1>2, <1>3, <3>1 DEF Sound, Listed
  <2> QED BY <1>2, <1>3, <2>2, <2>3 DEF Sound, Good
<1>5. Good(i) /\ Listed(i) /\ i.initialized
  BY <1>4, DisplayInitialised DEF Sound
<1> HIDE DEF i
<1>6. Good(a) /\ Listed(a) /\ SameHead(i, a)
  BY <1>5, ElementsDrawn
<1> HIDE DEF a
<1>7. Sound(a) /\ a.initialized
  BY <1>5, <1>6 DEF Sound, SameHead
<1>8. Sound(e) /\ e.initialized
  <2>1. w \in Widgets
    BY WidgetsDiffer
  <2> QED BY <1>7, <2>1, ResetSound DEF SameHead
<1>9. RestTypes'
  BY <1>1, <1>2, RootedTop DEF RestTypes
<1> QED BY <1>1, <1>8, <1>9, LoadsKept

LEMMA PressUpStep == ASSUME IInv, PressUp PROVE IInv'
<1>1. display.offset \in 0 .. MAX_OFFSET /\ MAX_OFFSET \in Nat
  BY DisplayAssumption DEF IInv, Sound, Good, Displays
<1>2. display.offset - 1 \in 0 .. MAX_OFFSET /\ Page(Up, display.offset - 1)
  BY <1>1 DEF PressUp
<1> QED BY <1>2, PageStep

LEMMA PressDownStep == ASSUME IInv, PressDown PROVE IInv'
<1>1. display.offset \in 0 .. MAX_OFFSET /\ MAX_OFFSET \in Nat
  BY DisplayAssumption DEF IInv, Sound, Good, Displays
<1>2. display.offset + 1 \in 0 .. MAX_OFFSET /\ Page(Down, display.offset + 1)
  BY <1>1 DEF PressDown
<1> QED BY <1>2, PageStep

\* What a press on a row hits is the value of a line.
LEMMA HitValue ==
    ASSUME Sound(display), NEW row, Hit(row) # None
    PROVE  Hit(row)[2] \in Lines
<1> DEFINE places == { k \in DOMAIN display.chain :
                        /\ display.chain[k][1] = "value"
                        /\ display.row[display.chain[k][2]] = row }
<1>1. display.chain \in Seq(Widgets) /\ DOMAIN display.chain \subseteq Nat
  BY DEF Sound, Good, Displays
<1>2. places # {} /\ Hit(row) = display.chain[Min(places)]
  BY DEF Hit
<1>3. \E k \in places : \A j \in places : k <= j
  <2>1. places \subseteq Nat
    BY <1>1
  <2>2. PICK k \in places : TRUE
    BY <1>2
  <2> HIDE DEF places
  <2> QED BY <2>1, <2>2, LeastNumber
<1>4. Min(places) \in places
  <2> HIDE DEF places
  <2> QED BY <1>3, Zenon DEF Min
<1>5. PICK k \in DOMAIN display.chain : k = Min(places) /\ display.chain[k][1] = "value"
  BY <1>4
<1>6. display.chain[k] \in Widgets
  BY <1>1
<1>7. \A v \in Widgets : v[1] = "value" => v[2] \in Lines
  BY DEF Widgets, Menu, Save, Up, Down, Title, Label, Value
<1> QED BY <1>2, <1>5, <1>6, <1>7

\* Only lines in use are found.
LEMMA FoundInUse ==
    ASSUME Sound(display), NEW l, Found(l) PROVE display.tag[l] # Free
<1>1. PICK k \in DOMAIN display.entities :
          /\ display.entities[k] = l
          /\ \A j \in 1 .. k : display.tag[display.entities[j]] # Free
  BY DEF Found
<1>2. k \in 1 .. k
  BY DEF Sound, Good, Displays
<1> QED BY <1>1, <1>2

\* The page has a menu button again.
LEMMA MenueShown ==
    ASSUME Sound(display)
    PROVE  LET d == [display EXCEPT !.menue = TRUE]
           IN /\ Sound(d) /\ d.fault = display.fault
              /\ Simple(display) => Simple(d)
              /\ Live(display) => Live(d)
<1> DEFINE d == [display EXCEPT !.menue = TRUE]
<1>1. display \in Displays
  BY DEF Sound, Good
<1>2. /\ d \in Displays /\ SameLines(display, d) /\ d.initialized = display.initialized
      /\ d.entities = display.entities /\ d.displayEntities = display.displayEntities
      /\ d.fault = display.fault /\ d.chain = display.chain /\ d.loose = display.loose
      /\ d.up = display.up
  BY <1>1 DEF Displays, SameLines
<1> HIDE DEF d
<1>3. Linked(d) = Linked(display)
  BY <1>2 DEF Linked
<1>4. Tree(d)
  BY <1>2, <1>3 DEF Sound, Good, Tree
<1>5. Listed(d)
  <2>1. Clicks(d)
    BY <1>2 DEF Sound, Listed, Clicks, SameLines, Type
  <2> QED BY <1>2, <2>1 DEF Sound, Listed, SameLines
<1>6. Simple(display) => Simple(d)
  BY <1>2, <1>3 DEF Simple
<1>7. Live(display) => Live(d)
  BY <1>2, <1>3, LiveKept
<1> QED BY <1>2, <1>4, <1>5, <1>6, <1>7 DEF Sound, Good, d

LEMMA PressLinkStep ==
    ASSUME IInv, display.fault = "none", load["graphic"].pc = "idle", "page" \in ToSet(top),
           NEW l \in Lines, PressLink(l)
    PROVE  IInv'
<1> DEFINE d == [display EXCEPT !.menue = TRUE]
           page == Tag[display.tag[l]].value
<1>1. display.click[l] = "vHyperlinkAction" /\ StartLoad("graphic", "link", page, d)
  BY DEF PressLink
<1>2. overlap' = (overlap \/ Busy("lwip")) /\ paged' = paged
  BY <1>1 DEF StartLoad, NoteOverlap
<1>3. /\ Sound(d) /\ d.fault = display.fault
      /\ Simple(display) => Simple(d)
      /\ Live(display) => Live(d)
  BY MenueShown DEF IInv
<1> HIDE DEF d
<1>4. page \in DOMAIN Pages
  <2>1. Type(display, l) = "Hyperlink"
    BY <1>1 DEF IInv, Sound, Listed, Clicks
  <2>2. display.tag[l] \in DOMAIN Tag /\ Tag[display.tag[l]].type = "Hyperlink"
    <3>1. display.tag[l] \in DOMAIN Tag \cup {Free}
      BY DEF IInv, Sound, Good, Displays
    <3> QED BY <2>1, <3>1 DEF Type, Free
  <2> QED BY <2>2, DisplayAssumption
<1>5. ASSUME ~overlap', ~paged
      PROVE  /\ Simple(d) /\ Live(d)
             /\ d.fault \notin {"walk", "ring", "freed"}
             /\ d.fault = "stale" => ~LineIn(got.tags, got.pos)
             /\ "editor" \notin ToSet(top)
  BY <1>2, <1>3, <1>5, PagePressed DEF Busy
<1>6. "graphic" \in Tasks
  BY DEF Tasks
<1> QED BY <1>1, <1>3, <1>4, <1>5, <1>6, LoadStarted

LEMMA OpenEditorStep ==
    ASSUME IInv, display.fault = "none", load["graphic"].pc = "idle", "page" \in ToSet(top),
           NEW l \in Lines, OpenEditor(l)
    PROVE  IInv'
<1> DEFINE cut == IF "editor" \in ToSet(top) THEN SubSeq(top, 1, Place(top, "editor")) ELSE top
           off == IF LeavesTree(display) THEN cut ELSE Without(cut, "page")
           new == IF "editor" \in ToSet(off) THEN off ELSE Append(off, "editor")
<1>1. /\ Found(l) /\ aktElement' = l /\ keys' = EditorButtons(Type(display, l)) /\ top' = new
      /\ overlap' = (overlap \/ Busy("lwip"))
      /\ UNCHANGED <<display, paint, load, got, paged, loads>>
  BY DEF OpenEditor, NoteOverlap
<1>2. RestTypes /\ Sound(display) /\ display \in Displays
  BY DEF IInv, Sound, Good
<1>3. new \in Tops /\ (ToSet(top) = {"page"} /\ ~LeavesTree(display) => new = <<"editor">>)
  <2>1. LeavesTree(display) \in BOOLEAN
    BY DEF LeavesTree
  <2> QED BY <1>2, <2>1, EditorOpened DEF RestTypes
<1> HIDE DEF new
<1>4. RestTypes'
  <2>1. keys' \subseteq {"increase1", "decrease1", "increase2", "decrease2", "submit"}
    BY <1>1 DEF EditorButtons
  <2>2. overlap' \in BOOLEAN
    BY <1>1, <1>2 DEF RestTypes
  <2> QED BY <1>1, <1>2, <1>3, <2>1, <2>2 DEF RestTypes
<1>5. display.tag[l] # Free
  BY <1>1, <1>2, FoundInUse
<1>6. ASSUME ~overlap', ~paged PROVE QuietFits(display, load, top', aktElement', got)
  <2>1. ~overlap /\ load["lwip"].pc = "idle"
    BY <1>1, <1>6 DEF Busy
  <2>2. QuietFits(display, load, top, aktElement, got)
    BY <1>6, <2>1 DEF IInv, WhileQuiet
  <2>3. ~LeavesTree(display)
    BY <1>2, <2>2, StaysInTree DEF QuietFits
  <2>4. "editor" \notin ToSet(top)
    BY <1>6, <2>1, PagePressed
  <2>5. ToSet(top) = {"page"}
    <3>1. ToSet(top) \subseteq Screens
      <4>1. top \in Seq(Screens)
        BY <1>2, TopsAre DEF RestTypes
      <4> QED BY <4>1 DEF ToSet
    <3> QED BY <2>4, <3>1 DEF Screens
  <2>6. top' = <<"editor">>
    BY <1>1, <1>3, <2>3, <2>5
  <2>7. \A t \in Tasks : load[t].pc = "idle"
    BY <2>1 DEF Tasks
  <2> QED BY <1>1, <1>5, <2>2, <2>6, <2>7 DEF QuietFits
<1> QED BY <1>1, <1>2, <1>4, <1>6, LoadsKept

LEMMA PressRowStep == ASSUME IInv, PressRow PROVE IInv'
<1>1. PICK row \in 0 .. DISPLAY_LINES_PER_VIEW - 1 :
          /\ Hit(row) # None /\ Pressable(Hit(row))
          /\ PressLink(Hit(row)[2]) \/ OpenEditor(Hit(row)[2])
  BY DEF PressRow
<1>2. display.fault = "none" /\ load["graphic"].pc = "idle" /\ "page" \in ToSet(top)
  BY <1>1 DEF Pressable, Reachable, At
<1>3. Hit(row)[2] \in Lines
  BY <1>1, HitValue DEF IInv
<1> QED BY <1>1, <1>2, <1>3, PressLinkStep, OpenEditorStep

LEMMA ChangeValueStep == ASSUME IInv, ChangeValue PROVE IInv'
<1>1. /\ display.fault = "none" /\ "editor" \in ToSet(top)
      /\ display' = IF display.tag[aktElement] = Free THEN Fault(display, "freed") ELSE display
      /\ overlap' = (overlap \/ Busy("lwip"))
      /\ UNCHANGED <<top, paint, aktElement, keys, load, got, paged, loads>>
  BY DEF ChangeValue, EditorReachable, NoteOverlap, At
<1>2. RestTypes /\ Sound(display)
  BY DEF IInv
<1>3. Sound(display') /\ display'.initialized = display.initialized
  <2>1. "freed" \in Faults \ {"none"}
    BY DEF Faults
  <2> QED BY <1>1, <1>2, <2>1, FaultSound DEF SameHead
<1>4. RestTypes'
  <2>1. overlap' \in BOOLEAN
    BY <1>1, <1>2 DEF RestTypes
  <2> QED BY <1>1, <1>2, <2>1 DEF RestTypes
<1>5. ASSUME ~overlap', ~paged PROVE QuietFits(display', load, top, aktElement, got)
  <2>1. QuietFits(display, load, top, aktElement, got)
    BY <1>1, <1>5 DEF IInv, WhileQuiet
  <2>2. display.tag[aktElement] # Free
    BY <1>1, <2>1 DEF QuietFits
  <2> QED BY <1>1, <2>1, <2>2
<1> QED BY <1>1, <1>3, <1>4, <1>5, LoadsKept

LEMMA ExitEditorStep == ASSUME IInv, ExitEditor PROVE IInv'
<1> DEFINE rest == Without(top, "editor")
           new == IF "page" \in ToSet(rest) THEN rest ELSE Append(rest, "page")
<1>1. /\ top' = new /\ paint' = TRUE /\ overlap' = (overlap \/ Busy("lwip"))
      /\ UNCHANGED <<display, aktElement, keys, load, got, paged, loads>>
  BY DEF ExitEditor, NoteOverlap
<1>2. RestTypes /\ Sound(display)
  BY DEF IInv
<1>3. rest \in Tops /\ ToSet(rest) = ToSet(top) \ {"editor"}
  BY <1>2, Untopped DEF RestTypes
<1> HIDE DEF rest
<1>4. new \in Tops /\ ToSet(new) = ToSet(rest) \cup {"page"}
  <2>1. CASE "page" \in ToSet(rest)
    BY <1>3, <2>1
  <2>2. CASE "page" \notin ToSet(rest)
    <3>1. "page" \in Screens
      BY DEF Screens
    <3> QED BY <1>3, <2>2, <3>1, Topped
  <2> QED BY <2>1, <2>2
<1> HIDE DEF new
<1>5. RestTypes'
  <2>1. overlap' \in BOOLEAN
    BY <1>1, <1>2 DEF RestTypes
  <2> QED BY <1>1, <1>2, <1>4, <2>1 DEF RestTypes
<1>6. ASSUME ~overlap', ~paged PROVE QuietFits(display, load, top', aktElement, got)
  <2>1. QuietFits(display, load, top, aktElement, got)
    BY <1>1, <1>6 DEF IInv, WhileQuiet
  <2>2. "editor" \notin ToSet(top')
    BY <1>1, <1>3, <1>4
  <2> QED BY <2>1, <2>2 DEF QuietFits
<1> QED BY <1>1, <1>2, <1>5, <1>6, LoadsKept

-----------------------------------------------------------------------------
(* What is shown of a page, as long as the tasks do not overlap. *)

AllShown(d, tags, pos) ==
    d.fault = "none" => ListFits(d, tags, pos) /\ HeadFits(d, tags, pos)

\* The last segment of a page that is closed may have been parsed twice.
LoadShows(d, m) ==
    IF m.pc = "close" THEN AllShown(d, m.tags, m.pos) ELSE Whole(d, m.tags, m.pos)

PageFits(d, ld, g) ==
    /\ ~(Under(ld["graphic"]) /\ Under(ld["lwip"]))
    /\ \A t \in Tasks : Under(ld[t]) => LoadShows(d, ld[t])
    /\ (\A t \in Tasks : ~Under(ld[t])) /\ g.why # "none" =>
          d.initialized /\ AllShown(d, g.tags, g.pos)

SaveFits(d, ld) ==
    d.fault = "none" /\ (\A t \in Tasks : ~Under(ld[t])) => (Save \in Linked(d) <=> d.save)

PInv ==
    /\ ~overlap => PageFits(display, load, got)
    /\ ~overlap /\ ~paged => SaveFits(display, load)

\* The lines of a part of a page stay the first ones, whatever is parsed again.
LEMMA WholeIsAll ==
    ASSUME NEW tags \in Seq(DOMAIN Tag), NEW pos \in Nat, pos <= 3 * Len(tags) + 1,
           NEW d, Good(d), Listed(d), Whole(d, tags, pos),
           NEW e, Filled(d, ToSet(tags), e)
    PROVE  AllShown(e, tags, pos)
<1> SUFFICES ASSUME e.fault = "none" PROVE ListFits(e, tags, pos) /\ HeadFits(e, tags, pos)
  BY DEF AllShown
<1> DEFINE T == ToSet(tags)
           n == pos \div 3
           s == LinesOf(tags)[n]
           u == Shown(e)
<1>1. Good(e) /\ Listed(e) /\ d.fault = "none" /\ Grown(Shown(d), T, u)
  BY DEF Filled
<1>2. Shown(d) = s /\ HeadFits(d, tags, pos)
  BY <1>1 DEF Whole
<1>3. n \in 0 .. Len(tags)
  OBVIOUS
<1>4. s \in Seq(DOMAIN Tag) /\ ToSet(s) \subseteq T
  BY <1>3, LinesAre
<1>5. u \in Seq(DOMAIN Tag)
  BY <1>1, ShownTags
<1>6. Len(s) <= Len(u) /\ (\A i \in 1 .. Len(s) : u[i] = s[i]) /\ ToSet(u) \subseteq T
  BY <1>1, <1>2, <1>4 DEF Grown
<1> HIDE DEF s, u, n
<1>7. IsPrefix(s, u)
  <2>1. Len(s) \in Nat /\ Len(u) \in Nat
    BY <1>4, <1>5
  <2>2. \A i \in 1 .. Len(s) : i \in 1 .. Len(u)
    BY <1>6, <2>1
  <2>3. /\ SubSeq(s, 1, Len(s)) \in Seq(DOMAIN Tag) /\ Len(SubSeq(s, 1, Len(s))) = Len(s)
        /\ \A i \in 1 .. Len(s) : SubSeq(s, 1, Len(s))[i] = s[i]
    BY <1>4, <2>1
  <2>4. /\ SubSeq(u, 1, Len(s)) \in Seq(DOMAIN Tag) /\ Len(SubSeq(u, 1, Len(s))) = Len(s)
        /\ \A i \in 1 .. Len(s) : SubSeq(u, 1, Len(s))[i] = u[i]
    BY <1>5, <1>6, <2>1
  <2>5. SubSeq(s, 1, Len(s)) = SubSeq(u, 1, Len(s))
    BY <1>6, <2>3, <2>4, SeqEqual
  <2> QED BY <1>6, <2>5 DEF IsPrefix
<1>8. ListFits(e, tags, pos)
  BY <1>6, <1>7 DEF ListFits, s, u, n
<1>9. ASSUME NEW k \in DOMAIN tags, 3 * k <= pos, OnlyTitle(tags[k], tags)
      PROVE  e.title = tags[k]
  <2>1. d.title = tags[k]
    BY <1>2, <1>9 DEF HeadFits
  <2>2. \A t \in T : Tag[t].type = "Titel" => t = tags[k]
    BY <1>9 DEF OnlyTitle
  <2>3. e.title = d.title \/ \E t \in T : Tag[t].type = "Titel" /\ e.title = t
    BY DEF Filled
  <2> QED BY <2>1, <2>2, <2>3
<1>10. ASSUME NEW k \in DOMAIN tags, 3 * k <= pos, Stores(tags[k]) PROVE e.save
  <2>1. d.save
    BY <1>2, <1>10 DEF HeadFits
  <2> QED BY <2>1 DEF Filled
<1>11. e.save => \E t \in ToSet(tags) : Stores(t)
  BY <1>2 DEF HeadFits, Filled, Stores
<1> QED BY <1>8, <1>9, <1>10, <1>11 DEF HeadFits

LEMMA AllShownKept ==
    ASSUME NEW d, NEW e, NEW tags, NEW pos, AllShown(d, tags, pos), d.fault = "none",
           e.tag = d.tag, e.entities = d.entities, e.displayEntities = d.displayEntities,
           e.title = d.title, e.save = d.save
    PROVE  AllShown(e, tags, pos)
<1>1. Shown(e) = Shown(d)
  BY ShownKept
<1> QED BY <1>1 DEF AllShown, ListFits, HeadFits

\* Nothing is shown of a page of which nothing was received.
LEMMA NothingShown ==
    ASSUME NEW d, ~d.displayEntities, ~d.save, NEW tags \in Seq(DOMAIN Tag)
    PROVE  Whole(d, tags, 0)
<1>1. Shown(d) = <<>> /\ LinesOf(tags)[0] = <<>> /\ 0 \div 3 = 0
  BY LinesAre DEF Shown
<1>2. \A k \in DOMAIN tags : ~(3 * k <= 0)
  OBVIOUS
<1> QED BY <1>1, <1>2 DEF Whole, HeadFits

\* A task goes on loading its page.
LEMMA PageMoved ==
    ASSUME IInv, PInv, NEW t \in Tasks, Under(load[t]), NEW m \in LoadStates, Under(m),
           load' = [load EXCEPT ![t] = m], UNCHANGED <<got, paged, overlap>>,
           ~overlap => LoadShows(display', m)
    PROVE  PInv'
<1>1. load'[t] = m /\ \A u \in Tasks \ {t} : load'[u] = load[u]
  BY DEF IInv, RestTypes
<1>2. ASSUME ~overlap PROVE PageFits(display', load', got')
  <2>1. PageFits(display, load, got)
    BY <1>2 DEF PInv
  <2>2. \A u \in Tasks : Under(load[u]) => u = t
    BY <2>1 DEF PageFits, Tasks
  <2>3. \A u \in Tasks : Under(load'[u]) => u = t
    BY <1>1, <2>2
  <2>4. ~(Under(load'["graphic"]) /\ Under(load'["lwip"]))
    BY <2>3 DEF Tasks
  <2> QED BY <1>1, <1>2, <2>3, <2>4 DEF PageFits
<1>3. SaveFits(display', load')
  BY <1>1 DEF SaveFits
<1> QED BY <1>2, <1>3 DEF PInv

\* A step that leaves the loads and the display alone, or ends in a fault.
LEMMA PageKept ==
    ASSUME PInv, UNCHANGED <<load, got>>, overlap => overlap', paged => paged',
           display'.fault = "none" => display' = display,
           display'.initialized = display.initialized
    PROVE  PInv'
<1>1. CASE display' = display
  BY <1>1 DEF PInv
<1>2. CASE display'.fault # "none"
  <2>1. \A tags, pos : AllShown(display', tags, pos) /\ Whole(display', tags, pos)
    BY <1>2 DEF AllShown, Whole
  <2>2. ~overlap' => PageFits(display', load', got')
    BY <2>1 DEF PInv, PageFits, LoadShows
  <2> QED BY <1>2, <2>2 DEF PInv, SaveFits
<1> QED BY <1>1, <1>2

LEMMA PageStarted ==
    ASSUME IInv, PInv, NEW t \in Tasks, NEW why \in {"menu", "store", "link", "boot"},
           NEW page \in DOMAIN Pages, NEW d, Sound(d), StartLoad(t, why, page, d)
    PROVE  PInv'
<1> DEFINE i == InitDisplay(d)
           e == ClearDisplay(i)
           m == [Idle EXCEPT !.pc = "connect", !.why = why, !.page = page]
<1>1. display' = e /\ load' = [load EXCEPT ![t] = m] /\ got' = got /\ paged' = paged
  BY DEF StartLoad
<1>2. overlap' = (overlap \/ (t = "lwip" /\ (Busy("graphic") \/ "editor" \in ToSet(top)))
                         \/ (t = "graphic" /\ Busy("lwip")))
  BY DEF StartLoad, NoteOverlap
<1>3. m.pc = "connect" /\ m.tags = <<>> /\ m.pos = 0
  BY DEF Idle
<1> HIDE DEF m
<1>4. load'[t] = m /\ \A u \in Tasks \ {t} : load'[u] = load[u]
  BY <1>1 DEF IInv, RestTypes
<1>5. Good(i) /\ Listed(i)
  BY DisplayInitialised DEF Sound
<1> HIDE DEF i
<1>6. ~e.displayEntities /\ ~e.save
  BY <1>5, DisplayCleared
<1> HIDE DEF e
<1>7. Under(load'[t])
  BY <1>3, <1>4 DEF Under
<1>8. LoadShows(e, m)
  <2>1. <<>> \in Seq(DOMAIN Tag)
    OBVIOUS
  <2>2. Whole(e, m.tags, m.pos)
    BY <1>3, <1>6, <2>1, NothingShown
  <2> QED BY <1>3, <2>2 DEF LoadShows
<1>9. ASSUME ~overlap' PROVE PageFits(display', load', got')
  <2>1. \A u \in Tasks \ {t} : load'[u].pc = "idle"
    BY <1>2, <1>4, <1>9 DEF Busy, Tasks
  <2>2. \A u \in Tasks : Under(load'[u]) => u = t
    BY <2>1 DEF Under
  <2>3. ~(Under(load'["graphic"]) /\ Under(load'["lwip"]))
    BY <2>2 DEF Tasks
  <2> QED BY <1>1, <1>4, <1>7, <1>8, <2>2, <2>3 DEF PageFits
<1>10. SaveFits(display', load')
  BY <1>7 DEF SaveFits
<1> QED BY <1>9, <1>10 DEF PInv

LEMMA ConnectSucceedsShows ==
    ASSUME IInv, PInv, NEW t \in Tasks, ConnectSucceeds(t) PROVE PInv'
<1>1. PICK tags \in Pages[load[t].page] :
          load' = [load EXCEPT ![t].pc = "recv", ![t].tags = tags]
  BY DEF ConnectSucceeds
<1> DEFINE m == [load[t] EXCEPT !.pc = "recv", !.tags = tags]
<1>2. /\ display.fault = "none" /\ load[t].pc = "connect"
      /\ UNCHANGED <<display, top, paint, aktElement, keys, got, paged, overlap, loads>>
  BY DEF ConnectSucceeds, At
<1>3. load[t] \in LoadStates /\ LoadFits(t, load[t]) /\ DOMAIN load = Tasks
  BY TypesOf DEF IInv
<1>4. tags \in Seq(DOMAIN Tag)
  <2>1. load[t].page \in DOMAIN Pages
    BY <1>3 DEF LoadStates
  <2> QED BY <2>1, DisplayAssumption
<1>5. m \in LoadStates /\ m.pc = "recv" /\ m.tags = tags /\ m.pos = 0
  BY <1>2, <1>3, <1>4 DEF LoadStates, LoadFits
<1>6. load' = [load EXCEPT ![t] = m]
  BY <1>1, <1>3
<1> HIDE DEF m
<1>7. Under(m) /\ Under(load[t])
  BY <1>2, <1>5 DEF Under
<1>8. ASSUME ~overlap PROVE LoadShows(display, m)
  <2>1. LoadShows(display, load[t])
    BY <1>7, <1>8 DEF PInv, PageFits
  <2>2. load[t].tags = <<>> /\ load[t].pos = 0
    BY <1>2, <1>3 DEF LoadFits
  <2>3. Shown(display) = LinesOf(<<>>)[0] /\ HeadFits(display, <<>>, 0)
    <3>1. 0 \div 3 = 0
      OBVIOUS
    <3> QED BY <1>2, <2>1, <2>2, <3>1 DEF LoadShows, Whole
  <2>4. ~display.save
    <3>1. ToSet(<<>>) = {}
      BY DEF ToSet
    <3> QED BY <2>3, <3>1 DEF HeadFits
  <2>5. Shown(display) = <<>>
    <3>1. <<>> \in Seq(DOMAIN Tag)
      OBVIOUS
    <3> QED BY <2>3, <3>1, LinesAre
  <2>6. Whole(display, tags, 0)
    <3>1. LinesOf(tags)[0] = <<>> /\ 0 \div 3 = 0
      BY <1>4, LinesAre
    <3>2. \A k \in DOMAIN tags : ~(3 * k <= 0)
      BY <1>4
    <3> QED BY <2>4, <2>5, <3>1, <3>2 DEF Whole, HeadFits
  <2> QED BY <1>5, <2>6 DEF LoadShows
<1> QED BY <1>2, <1>5, <1>6, <1>7, <1>8, PageMoved

LEMMA ConnectFailsShows ==
    ASSUME IInv, PInv, NEW t \in Tasks, ConnectFails(t) PROVE PInv'
<1> DEFINE m == [load[t] EXCEPT !.pc = "close"]
<1>1. /\ display.fault = "none" /\ load[t].pc = "connect" /\ Goto(t, "close")
      /\ UNCHANGED <<display, top, paint, aktElement, keys, got, paged, overlap, loads>>
  BY DEF ConnectFails, At
<1>2. load[t] \in LoadStates /\ LoadFits(t, load[t]) /\ DOMAIN load = Tasks
  BY TypesOf DEF IInv
<1>3. load' = [load EXCEPT ![t] = m]
  BY <1>1, <1>2 DEF Goto
<1>4. m \in LoadStates /\ m.pc = "close" /\ m.tags = load[t].tags /\ m.pos = load[t].pos
  BY <1>2 DEF LoadStates
<1> HIDE DEF m
<1>5. Under(m) /\ Under(load[t])
  BY <1>1, <1>4 DEF Under
<1>6. ASSUME ~overlap PROVE LoadShows(display, m)
  <2>1. Whole(display, load[t].tags, load[t].pos)
    BY <1>1, <1>5, <1>6 DEF PInv, PageFits, LoadShows
  <2>2. load[t].tags = <<>> /\ load[t].pos = 0
    BY <1>1, <1>2 DEF LoadFits
  <2>3. <<>> \in Seq(DOMAIN Tag) /\ 0 <= 3 * Len(<<>>) + 1
    OBVIOUS
  <2>4. Good(display) /\ Listed(display)
    BY DEF IInv, Sound
  <2>5. AllShown(display, <<>>, 0)
    <3>1. Filled(display, ToSet(<<>>), display)
      BY <2>4, FilledSame
    <3>2. Whole(display, <<>>, 0)
      BY <2>1, <2>2
    <3>3. 0 \in Nat
      OBVIOUS
    <3> HIDE DEF m
    <3> QED BY <2>3, <2>4, <3>1, <3>2, <3>3, WholeIsAll, Zenon
  <2> QED BY <1>4, <2>2, <2>5 DEF LoadShows
<1> QED BY <1>1, <1>3, <1>4, <1>5, <1>6, PageMoved

LEMMA ReceiveShows ==
    ASSUME IInv, PInv, NEW t \in Tasks, Receive(t) PROVE PInv'
<1> DEFINE tags == load[t].tags
           pos == load[t].pos
<1>1. /\ display.fault = "none" /\ load[t].pc = "recv"
      /\ UNCHANGED <<top, paint, aktElement, keys, got, paged, overlap, loads>>
  BY DEF Receive, At
<1>2. /\ load[t] \in LoadStates /\ tags \in Seq(DOMAIN Tag)
      /\ pos \in Nat /\ pos <= 3 * Len(tags) + 1
      /\ load[t].output \in BOOLEAN /\ load[t].buffer \in Seq(Tokens)
      /\ ToSet(load[t].buffer) \cap DOMAIN Tag \subseteq ToSet(tags)
      /\ FirstPass(load[t].output, load[t].buffer, tags, pos)
      /\ Len(Text(tags)) = 3 * Len(tags) + 1
  BY <1>1, Receiving
<1>3. PICK n \in { pos + k : k \in SEGMENTS } \cup { Len(Text(tags)) } :
          /\ n > pos /\ n <= Len(Text(tags))
          /\ LET p == Parse(t, Text(tags), pos, n - pos)
             IN /\ display' = p.d
                /\ load' = [load EXCEPT ![t].pos = n, ![t].last = n - pos,
                                ![t].output = p.output, ![t].buffer = p.buffer]
  BY DEF Receive
<1> DEFINE p == Parse(t, Text(tags), pos, n - pos)
           m == [load[t] EXCEPT !.pos = n, !.last = n - pos, !.output = p.output,
                                !.buffer = p.buffer]
<1>4. n \in Nat /\ n - pos \in Nat /\ pos + (n - pos) = n /\ n <= 3 * Len(tags) + 1
  <2>1. SEGMENTS \subseteq Nat
    BY DisplayAssumption
  <2>2. Len(tags) \in Nat
    BY <1>2
  <2>3. n \in Nat
    BY <1>2, <2>1, <2>2
  <2> QED BY <1>2, <1>3, <2>2, <2>3
<1>5. display' = p.d /\ load' = [load EXCEPT ![t].pos = n, ![t].last = n - pos,
                                            ![t].output = p.output, ![t].buffer = p.buffer]
  BY <1>3
<1>6. p \in Parsed(display, tags) /\ (Whole(display, tags, pos) => Whole(p.d, tags, n))
  <2>1. Good(display) /\ Listed(display)
    BY DEF IInv, Sound
  <2> QED BY <1>2, <1>4, <2>1, TextParsed
<1>7. p.output \in BOOLEAN /\ p.buffer \in Seq(Tokens)
  BY <1>6 DEF Parsed
<1>8. load' = [load EXCEPT ![t] = m]
  BY <1>5, TypesOf DEF IInv
<1> HIDE DEF p
<1>9. m \in LoadStates /\ m.pc = "recv" /\ m.tags = tags /\ m.pos = n
  BY <1>1, <1>2, <1>4, <1>7 DEF LoadStates, Tokens
<1> HIDE DEF m
<1>10. Under(load[t]) /\ Under(m)
  BY <1>1, <1>9 DEF Under
<1>11. ASSUME ~overlap PROVE LoadShows(display', m)
  <2>1. Whole(display, tags, pos)
    BY <1>1, <1>10, <1>11 DEF PInv, PageFits, LoadShows
  <2> QED BY <1>5, <1>6, <1>9, <2>1 DEF LoadShows
<1> QED BY <1>1, <1>8, <1>9, <1>10, <1>11, PageMoved

LEMMA ConnectionEndsShows ==
    ASSUME IInv, PInv, NEW t \in Tasks, ConnectionEnds(t) PROVE PInv'
<1> DEFINE tags == load[t].tags
           pos == load[t].pos
           first == pos - load[t].last
           m == [load[t] EXCEPT !.pc = "close"]
<1>1. /\ display.fault = "none" /\ load[t].pc = "recv" /\ Goto(t, "close")
      /\ UNCHANGED <<top, paint, aktElement, keys, got, paged, overlap, loads>>
      /\ \/ display' = Parse(t, Text(tags), first, load[t].last).d
         \/ UNCHANGED display
         \/ display' = Fault(display, "wild")
  BY DEF ConnectionEnds, At
<1>2. load[t] \in LoadStates /\ DOMAIN load = Tasks /\ Good(display) /\ Listed(display)
  BY TypesOf DEF IInv, Sound
<1>3. load' = [load EXCEPT ![t] = m]
  BY <1>1, <1>2 DEF Goto
<1>4. m \in LoadStates /\ m.pc = "close" /\ m.tags = tags /\ m.pos = pos
  BY <1>2 DEF LoadStates
<1> HIDE DEF m
<1>5. Under(m) /\ Under(load[t])
  BY <1>1, <1>4 DEF Under
<1>6. /\ tags \in Seq(DOMAIN Tag) /\ pos \in Nat /\ load[t].last \in Nat
      /\ pos <= 3 * Len(tags) + 1 /\ load[t].last <= pos
      /\ load[t].output \in BOOLEAN /\ load[t].buffer \in Seq(Tokens)
      /\ ToSet(load[t].buffer) \cap DOMAIN Tag \subseteq ToSet(tags)
  BY <1>1, Receiving
<1>7. first \in Nat /\ first + load[t].last <= 3 * Len(tags) + 1
  BY <1>6
<1>8. ASSUME ~overlap PROVE AllShown(display', tags, pos)
  <2>1. Whole(display, tags, pos)
    BY <1>1, <1>5, <1>8 DEF PInv, PageFits, LoadShows
  <2>2. ASSUME Filled(display, ToSet(tags), display') PROVE AllShown(display', tags, pos)
    BY <1>2, <1>6, <2>1, <2>2, WholeIsAll
  <2>3. CASE display' = Parse(t, Text(tags), first, load[t].last).d
    <3>1. Parse(t, Text(tags), first, load[t].last) \in Parsed(display, tags)
      BY <1>2, <1>6, <1>7, TextParsed
    <3> QED BY <2>2, <2>3, <3>1 DEF Parsed
  <2>4. CASE UNCHANGED display
    BY <1>2, <2>2, <2>4, FilledSame
  <2>5. CASE display' = Fault(display, "wild")
    <3>1. "wild" \in Faults \ {"none"}
      BY DEF Faults
    <3>2. display'.fault = "wild"
      BY <1>1, <1>2, <2>5, <3>1, Faulted
    <3> QED BY <3>2 DEF AllShown
  <2> QED BY <1>1, <2>3, <2>4, <2>5
<1>9. ~overlap => LoadShows(display', m)
  BY <1>4, <1>8 DEF LoadShows
<1> QED BY <1>1, <1>3, <1>4, <1>5, <1>9, PageMoved

LEMMA EndLoadShows ==
    ASSUME IInv, PInv, NEW t \in Tasks, EndLoad(t) PROVE PInv'
<1> DEFINE why == load[t].why
           d == IF why \in {"menu", "boot"} THEN [display EXCEPT !.menue = FALSE] ELSE display
           drawn == DrawElements(d)
           e == CASE why = "menu"  -> Reset(drawn, Menu)
                  [] why = "store" -> Reset(drawn, Save)
                  [] OTHER         -> drawn
           g == [tags |-> load[t].tags, pos |-> load[t].pos, why |-> load[t].why]
<1>1. /\ display.fault = "none" /\ load[t].pc = "close"
      /\ display' = e /\ got' = g /\ load' = [load EXCEPT ![t] = Idle]
      /\ paged' = paged /\ overlap' = overlap
  BY DEF EndLoad, At
<1>2. Under(load[t]) /\ Sound(display) /\ display.initialized
  BY <1>1 DEF Under, IInv
<1>3. load'[t] = Idle /\ \A u \in Tasks \ {t} : load'[u] = load[u]
  BY <1>1 DEF IInv, RestTypes
<1>4. /\ d \in Displays /\ d.tag = display.tag /\ d.pool = display.pool /\ d.drawn = display.drawn
      /\ d.initialized = display.initialized /\ d.save = display.save
      /\ d.entities = display.entities /\ d.displayEntities = display.displayEntities
      /\ d.fault = display.fault /\ d.chain = display.chain /\ d.loose = display.loose
      /\ d.up = display.up /\ (why = "menu" => ~d.menue) /\ d.click = display.click
      /\ d.title = display.title
  <2>1. display \in Displays
    BY <1>2 DEF Sound, Good
  <2>2. CASE why \in {"menu", "boot"}
    <3>1. d = [display EXCEPT !.menue = FALSE]
      BY <2>2
    <3> HIDE DEF d
    <3> QED BY <2>1, <3>1 DEF Displays
  <2>3. CASE why \notin {"menu", "boot"}
    BY <2>1, <2>3
  <2> QED BY <2>2, <2>3
<1> HIDE DEF d
<1>5. Good(d) /\ Listed(d) /\ (Simple(display) => Simple(d)) /\ (Live(display) => Live(d))
  <2>1. Linked(d) = Linked(display)
    BY <1>4 DEF Linked
  <2>2. Tree(d)
    BY <1>2, <1>4, <2>1 DEF Sound, Good, Tree
  <2>3. Listed(d)
    <3>1. Clicks(d)
      BY <1>2, <1>4 DEF Sound, Listed, Clicks, Type
    <3> QED BY <1>2, <1>4, <3>1 DEF Sound, Listed
  <2>4. Simple(display) => Simple(d)
    BY <1>4, <2>1 DEF Simple
  <2>5. Live(display) => Live(d)
    BY <1>4, <2>1 DEF Live, Type
  <2> QED BY <1>4, <2>2, <2>3, <2>4, <2>5 DEF Good
<1>6. /\ Good(drawn) /\ SameHead(d, drawn) /\ Listed(drawn) /\ drawn.tag = d.tag
      /\ Simple(d) /\ Live(d) /\ d.drawn = {} =>
            /\ Simple(drawn)
            /\ ~d.menue => Menu \notin Linked(drawn)
            /\ Save \in Linked(drawn) <=> d.save
  BY <1>5, ElementsDrawn
<1> HIDE DEF drawn
<1>7. Menu \in Widgets /\ Save \in Widgets
  BY WidgetsDiffer
<1>8. /\ SameHead(drawn, e) /\ e.tag = drawn.tag
      /\ \/ e = drawn
         \/ \E w \in {Menu, Save} :
               /\ (w = Menu /\ why = "menu") \/ (w = Save /\ why = "store")
               /\ Simple(drawn) /\ w \notin Linked(drawn) => Linked(e) = Linked(drawn)
  <2>1. CASE why = "menu"
    <3>1. e = Reset(drawn, Menu)
      BY <2>1
    <3> HIDE DEF e
    <3>2. /\ SameHead(drawn, e) /\ SameLines(drawn, e)
          /\ Simple(drawn) /\ Menu \notin Linked(drawn) => Linked(e) = Linked(drawn)
      BY <1>6, <1>7, <3>1, ResetOf
    <3> QED BY <2>1, <3>2 DEF SameLines
  <2>2. CASE why = "store"
    <3>1. e = Reset(drawn, Save)
      BY <2>2
    <3> HIDE DEF e
    <3>2. /\ SameHead(drawn, e) /\ SameLines(drawn, e)
          /\ Simple(drawn) /\ Save \notin Linked(drawn) => Linked(e) = Linked(drawn)
      BY <1>6, <1>7, <3>1, ResetOf
    <3> QED BY <2>2, <3>2 DEF SameLines
  <2>3. CASE why \notin {"menu", "store"}
    <3>1. e = drawn
      BY <2>3
    <3> HIDE DEF e
    <3> QED BY <3>1 DEF SameHead
  <2> QED BY <2>1, <2>2, <2>3
<1> HIDE DEF e
<1>9. /\ e.tag = display.tag /\ e.entities = display.entities /\ e.save = display.save
      /\ e.displayEntities = display.displayEntities /\ e.title = display.title
      /\ e.initialized = display.initialized
  BY <1>4, <1>6, <1>8 DEF SameHead
<1>10. ASSUME ~overlap PROVE PageFits(e, load', g)
  <2>1. PageFits(display, load, got)
    BY <1>10 DEF PInv
  <2>2. \A u \in Tasks : ~Under(load'[u])
    <3>1. ~Under(Idle)
      BY IdleState DEF Under
    <3>2. \A u \in Tasks \ {t} : ~Under(load[u])
      BY <1>2, <2>1 DEF PageFits, Tasks
    <3> QED BY <1>3, <3>1, <3>2
  <2>3. AllShown(display, g.tags, g.pos)
    BY <1>1, <1>2, <2>1 DEF PageFits, LoadShows
  <2>4. AllShown(e, g.tags, g.pos)
    BY <1>1, <1>9, <2>3, AllShownKept
  <2> QED BY <1>2, <1>9, <2>2, <2>4 DEF PageFits, Tasks
<1>11. ASSUME ~overlap, ~paged PROVE Save \in Linked(e) <=> e.save
  <2>1. /\ Simple(display) /\ Live(display) /\ display.drawn = {}
        /\ why = "store" => ~display.save
    BY <1>2, <1>11 DEF IInv, WhileQuiet, QuietFits
  <2>2. /\ Simple(drawn) /\ (Save \in Linked(drawn) <=> display.save)
        /\ why = "menu" => Menu \notin Linked(drawn)
        /\ why = "store" => Save \notin Linked(drawn)
    BY <1>4, <1>5, <1>6, <2>1
  <2>3. Linked(e) = Linked(drawn)
    BY <1>8, <2>2
  <2> QED BY <1>9, <2>2, <2>3
<1> QED BY <1>1, <1>10, <1>11 DEF PInv, SaveFits

LEMMA BootShows == ASSUME IInv, PInv, Boot PROVE PInv'
<1> DEFINE e == InitDisplay(display)
           m == [load["graphic"] EXCEPT !.pc = "idle"]
<1>1. /\ display.fault = "none" /\ load["graphic"].pc = "boot"
      /\ display' = e /\ Goto("graphic", "idle")
      /\ UNCHANGED <<got, paged, overlap>>
  BY DEF Boot, At
<1>2. "graphic" \in Tasks /\ load["graphic"] \in LoadStates /\ DOMAIN load = Tasks
  BY TypesOf DEF IInv, Tasks
<1>3. load'["graphic"].pc = "idle" /\ \A u \in Tasks \ {"graphic"} : load'[u] = load[u]
  <2>1. load' = [load EXCEPT !["graphic"] = m] /\ m.pc = "idle"
    BY <1>1, <1>2 DEF Goto, LoadStates
  <2> HIDE DEF m
  <2> QED BY <1>2, <2>1
<1>4. \A u \in Tasks : Under(load'[u]) <=> Under(load[u])
  BY <1>1, <1>3 DEF Under
<1>5. \A u \in Tasks : Under(load'[u]) => load'[u] = load[u]
  BY <1>3 DEF Under
<1>6. display.initialized => e = display
  BY DEF InitDisplay
<1>7. ~display.initialized => Save \notin Linked(e) /\ ~e.save
  <2> SUFFICES ASSUME ~display.initialized PROVE Save \notin Linked(e) /\ ~e.save
    OBVIOUS
  <2> DEFINE a == [display EXCEPT !.initialized = TRUE, !.menue = TRUE, !.save = FALSE,
                                  !.entities = <<>>, !.displayEntities = FALSE]
  <2>1. display \in Displays
    BY DEF IInv, Sound, Good
  <2>2. a \in Displays /\ a.save = FALSE
    <3>1. <<>> \in Seq(Lines)
      OBVIOUS
    <3> QED BY <2>1, <3>1 DEF Displays
  <2>3. e = [a EXCEPT !.chain = <<>>, !.up = {}]
    BY DEF InitDisplay, InitTree
  <2> HIDE DEF a, e
  <2>4. e.chain = <<>> /\ e.save = FALSE
    BY <2>2, <2>3 DEF Displays
  <2> QED BY <2>4 DEF Linked, ToSet
<1> HIDE DEF e
<1>8. ASSUME ~overlap PROVE PageFits(e, load', got)
  <2>1. PageFits(display, load, got)
    BY <1>8 DEF PInv
  <2>2. \A u \in Tasks : Under(load'[u]) => LoadShows(e, load'[u])
    <3>1. \A u \in Tasks : Under(load[u]) => display.initialized
      BY DEF IInv
    <3> QED BY <1>4, <1>5, <1>6, <2>1, <3>1 DEF PageFits
  <2>3. (\A u \in Tasks : ~Under(load'[u])) /\ got.why # "none" =>
            e.initialized /\ AllShown(e, got.tags, got.pos)
    BY <1>4, <1>6, <2>1 DEF PageFits
  <2>4. ~(Under(load'["graphic"]) /\ Under(load'["lwip"]))
    BY <1>4, <2>1 DEF PageFits, Tasks
  <2> QED BY <2>2, <2>3, <2>4 DEF PageFits
<1>9. ASSUME ~overlap, ~paged PROVE SaveFits(e, load')
  <2>1. CASE display.initialized
    <3>1. SaveFits(display, load)
      BY <1>9 DEF PInv
    <3> QED BY <1>4, <1>6, <2>1, <3>1 DEF SaveFits
  <2>2. CASE ~display.initialized
    BY <1>7, <2>2 DEF SaveFits
  <2> QED BY <2>1, <2>2
<1> QED BY <1>1, <1>8, <1>9 DEF PInv

LEMMA PaintShows == ASSUME IInv, PInv, Paint PROVE PInv'
<1>1. /\ display' = IF LeavesTree(display) THEN Fault(display, "walk") ELSE display
      /\ UNCHANGED <<load, got, paged, overlap>>
  BY DEF Paint
<1>2. "walk" \in Faults \ {"none"} /\ Sound(display)
  BY DEF Faults, IInv
<1>3. /\ display'.fault = "none" => display' = display
      /\ display'.initialized = display.initialized
  BY <1>1, <1>2, FaultSound DEF SameHead
<1> QED BY <1>1, <1>3, PageKept

LEMMA PageButtonShows ==
    ASSUME IInv, PInv, NEW w \in {Up, Down}, NEW offset \in 0 .. MAX_OFFSET,
           Page(w, offset), display.fault = "none", load["graphic"].pc = "idle"
    PROVE  PInv'
<1> DEFINE d == [display EXCEPT !.offset = offset]
           a == DrawElements(d)
           e == Reset(a, w)
<1>1. /\ display' = Reset(DrawElements(InitDisplay(d)), w) /\ paged' = TRUE
      /\ overlap' = (overlap \/ Busy("lwip")) /\ UNCHANGED <<load, got>>
  BY DEF Page, NoteOverlap
<1>2. Sound(display) /\ display \in Displays
  BY DEF IInv, Sound, Good
<1>3. /\ d \in Displays /\ d.tag = display.tag /\ d.pool = display.pool /\ d.drawn = display.drawn
      /\ d.initialized = display.initialized /\ d.entities = display.entities
      /\ d.displayEntities = display.displayEntities /\ d.chain = display.chain
      /\ d.loose = display.loose /\ d.click = display.click /\ d.title = display.title
      /\ d.save = display.save
  BY <1>2 DEF Displays
<1> HIDE DEF d
<1>4. Good(d) /\ Listed(d)
  <2>1. Linked(d) = Linked(display)
    BY <1>3 DEF Linked
  <2>2. Tree(d)
    BY <1>2, <1>3, <2>1 DEF Sound, Good, Tree
  <2>3. Listed(d)
    <3>1. Clicks(d)
      BY <1>2, <1>3 DEF Sound, Listed, Clicks, Type
    <3> QED BY <1>2, <1>3, <3>1 DEF Sound, Listed
  <2> QED BY <1>3, <2>2, <2>3 DEF Good
<1> SUFFICES ASSUME ~overlap' PROVE PageFits(display', load, got)
  BY <1>1 DEF PInv
<1>5. PageFits(display, load, got) /\ \A u \in Tasks : ~Under(load[u])
  <2>1. ~overlap /\ load["lwip"].pc = "idle"
    BY <1>1 DEF Busy
  <2> QED BY <2>1 DEF PInv, Tasks, Under
<1> SUFFICES ASSUME got.why # "none"
             PROVE  display'.initialized /\ AllShown(display', got.tags, got.pos)
  BY <1>5 DEF PageFits, Tasks
<1>6. display.initialized /\ AllShown(display, got.tags, got.pos)
  BY <1>5 DEF PageFits
<1>7. display' = e
  BY <1>1, <1>3, <1>6 DEF InitDisplay
<1>8. Good(a) /\ SameHead(d, a) /\ a.tag = d.tag
  BY <1>4, ElementsDrawn
<1> HIDE DEF a
<1>9. SameHead(a, e) /\ SameLines(a, e)
  <2>1. w \in Widgets
    BY WidgetsDiffer
  <2> QED BY <1>8, <2>1, ResetOf
<1> HIDE DEF e
<1>10. /\ e.tag = display.tag /\ e.entities = display.entities /\ e.save = display.save
       /\ e.displayEntities = display.displayEntities /\ e.title = display.title
       /\ e.initialized = display.initialized
  BY <1>3, <1>8, <1>9 DEF SameHead, SameLines
<1>11. AllShown(e, got.tags, got.pos)
  BY <1>6, <1>10, AllShownKept
<1> QED BY <1>6, <1>7, <1>10, <1>11

\* A press that loads a page, or opens the editor.
LEMMA PressShows ==
    ASSUME IInv, PInv, PressMenu \/ PressSave \/ PressRow \/ LoadMenu PROVE PInv'
<1>1. /\ "graphic" \in Tasks /\ "lwip" \in Tasks /\ Sound(display)
      /\ DEFAULT_MENU_PAGE \in DOMAIN Pages /\ DEFAULT_SET_PAGE \in DOMAIN Pages
  BY DisplayAssumption DEF Tasks, IInv
<1>2. ASSUME PressMenu \/ LoadMenu PROVE PInv'
  BY <1>1, <1>2, PageStarted DEF PressMenu, LoadMenu
<1>3. ASSUME PressSave PROVE PInv'
  <2> DEFINE dead == \E k \in DOMAIN display.entities : display.tag[display.entities[k]] = Free
             d == IF dead THEN Fault(display, "stale") ELSE display
  <2>1. StartLoad("graphic", "store", DEFAULT_SET_PAGE, d)
    BY <1>3 DEF PressSave
  <2>2. Sound(d)
    <3>1. "stale" \in Faults \ {"none"}
      BY DEF Faults
    <3> HIDE DEF dead
    <3> QED BY <1>1, <3>1, FaultSound
  <2> HIDE DEF d
  <2> QED BY <1>1, <2>1, <2>2, PageStarted
<1>4. ASSUME PressRow PROVE PInv'
  <2>1. PICK row \in 0 .. DISPLAY_LINES_PER_VIEW - 1 :
            /\ Hit(row) # None /\ Pressable(Hit(row))
            /\ PressLink(Hit(row)[2]) \/ OpenEditor(Hit(row)[2])
    BY <1>4 DEF PressRow
  <2>2. PICK l \in Lines : PressLink(l) \/ OpenEditor(l)
    BY <1>1, <2>1, HitValue
  <2>3. CASE PressLink(l)
    <3> DEFINE d == [display EXCEPT !.menue = TRUE]
               page == Tag[display.tag[l]].value
    <3>1. display.click[l] = "vHyperlinkAction" /\ StartLoad("graphic", "link", page, d)
      BY <2>3 DEF PressLink
    <3>2. Sound(d)
      BY <1>1, MenueShown
    <3> HIDE DEF d
    <3>3. Type(display, l) = "Hyperlink" /\ display.tag[l] \in DOMAIN Tag \cup {Free}
      BY <1>1, <3>1 DEF Sound, Listed, Clicks, Good, Displays
    <3>4. display.tag[l] \in DOMAIN Tag /\ Tag[display.tag[l]].type = "Hyperlink"
      BY <3>3 DEF Type, Free
    <3>5. page \in DOMAIN Pages
      BY <3>4, DisplayAssumption
    <3> QED BY <1>1, <3>1, <3>2, <3>5, PageStarted
  <2>4. CASE OpenEditor(l)
    <3>1. UNCHANGED <<display, load, got, paged>> /\ (overlap => overlap')
      BY <2>4 DEF OpenEditor, NoteOverlap
    <3> QED BY <3>1, PageKept
  <2> QED BY <2>2, <2>3, <2>4
<1> QED BY <1>2, <1>3, <1>4

LEMMA EditorShows == ASSUME IInv, PInv, ChangeValue \/ ExitEditor PROVE PInv'
<1>1. CASE ChangeValue
  <2>1. /\ display' = IF display.tag[aktElement] = Free THEN Fault(display, "freed") ELSE display
        /\ UNCHANGED <<load, got, paged>> /\ (overlap => overlap')
    BY <1>1 DEF ChangeValue, NoteOverlap
  <2>2. "freed" \in Faults \ {"none"} /\ Sound(display)
    BY DEF Faults, IInv
  <2>3. CASE display.tag[aktElement] = Free
    <3>1. display'.fault # "none" /\ display'.initialized = display.initialized
      BY <2>1, <2>2, <2>3, FaultSound DEF SameHead
    <3> QED BY <2>1, <3>1, PageKept
  <2>4. CASE display.tag[aktElement] # Free
    BY <2>1, <2>4, PageKept
  <2> QED BY <2>3, <2>4
<1>2. CASE ExitEditor
  <2>1. UNCHANGED <<display, load, got, paged>> /\ (overlap => overlap')
    BY <1>2 DEF ExitEditor, NoteOverlap
  <2> QED BY <2>1, PageKept
<1> QED BY <1>1, <1>2

-----------------------------------------------------------------------------
(* The theorems. *)

LEMMA Initially == ASSUME Init PROVE IInv
<1>1. /\ display = [initialized |-> FALSE, menue |-> FALSE, save |-> FALSE, title |-> Free,
                    entities |-> <<>>, displayEntities |-> FALSE, offset |-> 0,
                    tag |-> [l \in Lines |-> Free], pool |-> [l \in Lines |-> l],
                    drawn |-> {}, row |-> [l \in Lines |-> 0],
                    click |-> [l \in Lines |-> Free],
                    chain |-> <<>>, loose |-> [w \in Widgets |-> None], up |-> {},
                    fault |-> "none"]
      /\ top = <<>> /\ paint = FALSE /\ aktElement = 0 /\ keys = {}
      /\ load = [t \in Tasks |-> [Idle EXCEPT !.pc = IF t = "graphic" THEN "boot" ELSE "idle"]]
      /\ got = [tags |-> <<>>, pos |-> 0, why |-> "none"]
      /\ loads = [t \in Tasks |-> 0] /\ paged = FALSE /\ overlap = FALSE
  BY DEF Init
<1>2. /\ display.initialized = FALSE /\ display.menue = FALSE /\ display.save = FALSE
      /\ display.title = Free /\ display.entities = <<>> /\ display.displayEntities = FALSE
      /\ display.offset = 0 /\ display.tag = [l \in Lines |-> Free]
      /\ display.pool = [l \in Lines |-> l] /\ display.drawn = {}
      /\ display.row = [l \in Lines |-> 0] /\ display.click = [l \in Lines |-> Free]
      /\ display.chain = <<>> /\ display.loose = [w \in Widgets |-> None] /\ display.up = {}
      /\ display.fault = "none"
  BY <1>1
<1>3. display.pool \in Seq(Lines) /\ DupFree(display.pool)
  <2>1. MAX_LINES \in Nat /\ Lines = 1 .. MAX_LINES
    BY DisplayAssumption DEF Lines
  <2>2. [l \in Lines |-> l] \in Seq(Lines)
    BY <2>1
  <2> QED BY <1>2, <2>2 DEF DupFree
<1>4. display \in Displays
  <2>1. /\ <<>> \in Seq(Lines) /\ <<>> \in Seq(Widgets) /\ 0 \in 0 .. MAX_OFFSET
        /\ 0 \in 0 .. DISPLAY_LINES_PER_VIEW
    BY DisplayAssumption
  <2>2. /\ display.tag \in [Lines -> DOMAIN Tag \cup {Free}]
        /\ display.row \in [Lines -> 0 .. DISPLAY_LINES_PER_VIEW]
        /\ display.click \in [Lines -> {Free, "vOpenEditorAction", "vCheckboxAction", "vHyperlinkAction"}]
        /\ display.loose \in [Widgets -> Widgets \cup {None}]
    BY <1>2, <2>1
  <2>3. /\ display.entities \in Seq(Lines) /\ display.chain \in Seq(Widgets)
        /\ display.offset \in 0 .. MAX_OFFSET /\ display.title \in DOMAIN Tag \cup {Free}
        /\ display.initialized \in BOOLEAN /\ display.menue \in BOOLEAN /\ display.save \in BOOLEAN
        /\ display.displayEntities \in BOOLEAN
        /\ display.drawn \in SUBSET Lines /\ display.up \in SUBSET Widgets
        /\ display.fault \in {"none", "walk", "ring", "memory", "freed", "stale", "wild"}
    BY <1>2, <2>1
  <2>4. display = [initialized |-> display.initialized, menue |-> display.menue, save |-> display.save,
                   title |-> display.title, entities |-> display.entities,
                   displayEntities |-> display.displayEntities, offset |-> display.offset,
                   tag |-> display.tag, pool |-> display.pool,
                   drawn |-> display.drawn, row |-> display.row, click |-> display.click,
                   chain |-> display.chain, loose |-> display.loose, up |-> display.up,
                   fault |-> display.fault]
    BY <1>1, <1>2
  <2> QED BY <1>3, <2>2, <2>3, <2>4 DEF Displays
<1>5. Linked(display) = {}
  BY <1>2 DEF Linked, ToSet
<1>6. Tree(display)
  <2>1. NoCycle(display.loose)
    BY <1>2, NoneNoWidget DEF NoCycle
  <2> QED BY <1>2, <1>5, <2>1 DEF Tree, DupFree
<1>7. Listed(display)
  <2>1. \A l \in Lines : display.tag[l] = Free /\ display.click[l] = Free
    BY <1>2
  <2>2. Clicks(display)
    BY <2>1 DEF Clicks, Free
  <2>3. ToSet(display.pool) \subseteq Lines
    BY <1>3 DEF ToSet
  <2> QED BY <1>2, <1>3, <2>1, <2>2, <2>3 DEF Listed
<1>8. /\ load \in [Tasks -> LoadStates]
      /\ \A t \in Tasks : /\ load[t] = [Idle EXCEPT !.pc = IF t = "graphic" THEN "boot" ELSE "idle"]
                          /\ load[t].pc \in {"boot", "idle"} /\ (load[t].pc = "boot" => t = "graphic")
                          /\ load[t].why = "none"
  <2>1. \A x \in {"boot", "idle"} : /\ [Idle EXCEPT !.pc = x] \in LoadStates
                                    /\ [Idle EXCEPT !.pc = x].pc = x
                                    /\ [Idle EXCEPT !.pc = x].why = "none"
    BY IdleState DEF LoadStates
  <2> QED BY <1>1, <2>1
<1>9. RestTypes
  <2>1. <<>> \in Seq(DOMAIN Tag)
    OBVIOUS
  <2>2. got \in [tags : Seq(DOMAIN Tag), pos : Nat, why : {"none", "menu", "store", "link", "boot"}]
    BY <1>1, <2>1
  <2>3. loads \in [Tasks -> Nat]
    BY <1>1
  <2> QED BY <1>1, <1>8, <2>2, <2>3 DEF RestTypes, Tops
<1>10. \A t \in Tasks : LoadFits(t, load[t]) /\ ~Under(load[t])
  BY <1>8 DEF LoadFits, Under
<1>11. QuietFits(display, load, top, aktElement, got)
  <2>1. Simple(display) /\ Live(display)
    BY <1>2, <1>5 DEF Simple, Live
  <2>2. Shows(display, got.tags, got.pos)
    BY <1>1 DEF Shows, LineIn
  <2>3. ToSet(top) = {}
    BY <1>1 DEF ToSet
  <2> QED BY <1>2, <1>10, <2>1, <2>2, <2>3 DEF QuietFits, Tasks
<1> QED BY <1>2, <1>4, <1>6, <1>7, <1>9, <1>10, <1>11 DEF IInv, Sound, Good, WhileQuiet

LEMMA Stepwise == ASSUME IInv, [Next]_vars PROVE IInv'
<1>1. ASSUME NEW t \in Tasks, LoadStep(t) PROVE IInv'
  BY <1>1, ConnectSucceedsStep, ConnectFailsStep, ReceiveStep, ConnectionEndsStep, EndLoadStep
     DEF LoadStep
<1>2. ASSUME Touch PROVE IInv'
  BY <1>2, PressMenuStep, PressSaveStep, PressUpStep, PressDownStep, PressRowStep,
     ChangeValueStep, ExitEditorStep DEF Touch
<1>3. CASE UNCHANGED vars
  BY <1>3 DEF vars, IInv, RestTypes
<1> QED BY <1>1, <1>2, <1>3, BootStep, PaintStep, LoadMenuStep DEF Next

LEMMA Invariant == Spec => []IInv
<1>1. Init => IInv
  BY Initially
<1>2. IInv /\ [Next]_vars => IInv'
  BY Stepwise
<1> QED BY <1>1, <1>2, PTL DEF Spec

\* Whatever is pressed, loaded and lost: the children of the page form a list
\* that ends, and no walk leaves it, as long as the tasks do not overlap and no
\* page button was pressed.
THEOREM TreeStaysIntact == Spec => []TreeIsIntact
<1>1. ASSUME IInv PROVE TreeIsIntact
  <2>1. TypeOK
    BY <1>1 DEF IInv, Sound, Good, RestTypes, Tops, TypeOK
  <2>2. WalksStayInTree
    BY <1>1 DEF IInv, WhileQuiet, QuietFits, WalksStayInTree
  <2> QED BY <2>1, <2>2 DEF TreeIsIntact
<1> QED BY <1>1, Invariant, PTL

\* Memory of a line that is free is used only if the tasks overlapped or a page
\* button was pressed; and is sent to be stored also if no line came with the page.
THEOREM StaleNeedsMonitor == Spec => []StaleLinesNeedMonitor
<1>1. ASSUME IInv PROVE StaleLinesNeedMonitor
  <2> SUFFICES ASSUME ~overlap, ~paged
               PROVE  /\ display.fault # "freed"
                      /\ display.fault = "stale" => ~\E k \in Arrived(got) : IsLine(got.tags[k])
    BY DEF StaleLinesNeedMonitor
  <2>1. QuietFits(display, load, top, aktElement, got)
    BY <1>1 DEF IInv, WhileQuiet
  <2>2. (\E k \in Arrived(got) : IsLine(got.tags[k])) => LineIn(got.tags, got.pos)
    BY DEF Arrived, LineIn
  <2> QED BY <2>1, <2>2 DEF QuietFits
<1> QED BY <1>1, Invariant, PTL

LEMMA PageInitially == ASSUME Init PROVE PInv
<1>1. /\ display.chain = <<>> /\ display.save = FALSE /\ got.why = "none"
      /\ load = [t \in Tasks |-> [Idle EXCEPT !.pc = IF t = "graphic" THEN "boot" ELSE "idle"]]
  BY DEF Init
<1>2. \A t \in Tasks : load[t].pc \in {"boot", "idle"}
  BY <1>1 DEF Idle
<1>3. \A t \in Tasks : ~Under(load[t])
  BY <1>2 DEF Under
<1>4. Save \notin Linked(display)
  BY <1>1 DEF Linked, ToSet
<1> QED BY <1>1, <1>3, <1>4 DEF PInv, PageFits, SaveFits, Tasks

LEMMA PageStepwise == ASSUME IInv, PInv, [Next]_vars PROVE PInv'
<1>1. ASSUME NEW t \in Tasks, LoadStep(t) PROVE PInv'
  BY <1>1, ConnectSucceedsShows, ConnectFailsShows, ReceiveShows, ConnectionEndsShows, EndLoadShows
     DEF LoadStep
<1>2. ASSUME PressUp \/ PressDown PROVE PInv'
  <2>1. display.offset \in 0 .. MAX_OFFSET /\ MAX_OFFSET \in Nat
    BY DisplayAssumption DEF IInv, Sound, Good, Displays
  <2>2. display.fault = "none" /\ load["graphic"].pc = "idle"
    BY <1>2 DEF PressUp, PressDown, Pressable, At
  <2>3. CASE PressUp
    <3>1. display.offset - 1 \in 0 .. MAX_OFFSET /\ Page(Up, display.offset - 1)
      BY <2>1, <2>3 DEF PressUp
    <3> QED BY <2>2, <3>1, PageButtonShows
  <2>4. CASE PressDown
    <3>1. display.offset + 1 \in 0 .. MAX_OFFSET /\ Page(Down, display.offset + 1)
      BY <2>1, <2>4 DEF PressDown
    <3> QED BY <2>2, <3>1, PageButtonShows
  <2> QED BY <1>2, <2>3, <2>4
<1>3. CASE UNCHANGED vars
  BY <1>3 DEF vars, PInv
<1> QED BY <1>1, <1>2, <1>3, BootShows, PaintShows, PressShows, EditorShows DEF Next, Touch

\* However a page is cut into segments, and wherever its connection breaks off:
\* its lines are listed in their order, under its only title, with the save
\* button if and only if it has one, as long as the tasks do not overlap.
THEOREM PagesAreShown == Spec => []PageIsShown
<1>1. Init => PInv
  BY PageInitially
<1>2. IInv /\ PInv /\ [Next]_vars => PInv'
  BY PageStepwise
<1>3. ASSUME PInv PROVE PageIsShown
  <2> SUFFICES ASSUME Calm
               PROVE  /\ ListFits(display, got.tags, got.pos) /\ HeadFits(display, got.tags, got.pos)
                      /\ ~paged => (Save \in Linked(display) <=> display.save)
    BY DEF PageIsShown
  <2>1. /\ ~overlap /\ display.fault = "none" /\ got.why # "none"
        /\ \A t \in Tasks : ~Under(load[t])
    BY DEF Calm, Busy, Under
  <2>2. AllShown(display, got.tags, got.pos)
    BY <1>3, <2>1 DEF PInv, PageFits
  <2>3. ~paged => (Save \in Linked(display) <=> display.save)
    BY <1>3, <2>1 DEF PInv, SaveFits
  <2> QED BY <2>1, <2>2, <2>3 DEF AllShown
<1> QED BY <1>1, <1>2, <1>3, Invariant, PTL DEF Spec
=============================================================================
