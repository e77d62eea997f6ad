-------------------------- MODULE ParamForms_proofs --------------------------
(***************************************************************************)
(* The parameters' way to a page and back, for all pages, machines, texts  *)
(* typed by users and widths of numbers.                                   *)
(*                                                                         *)
(* First the buttons of the value editor: LimitsKept and StepsCancel.      *)
(* Nothing is needed of what the machine holds.  A line is either within   *)
(* its limits when it is loaded or not covered by the properties, and from *)
(* then on only the four buttons change it.                                *)
(*                                                                         *)
(* Then SetCGIHandler: TypeOK, SetsOnlyAsked and AnswerIsTrue.  The        *)
(* handler knows a request only parameter by parameter, the properties     *)
(* only the values that are meant.  What joins them is a cut of the        *)
(* request into pieces, each of which asks for one of these values         *)
(* (Splits): a request that comes out of a form in the notation of the     *)
(* page, or out of the display's lines, has one (Regular), and i stays at  *)
(* the begin of a piece, with all pieces before it dealt with              *)
(* (HandledSoFar).                                                         *)
(***************************************************************************)
EXTENDS ParamForms, WellFoundedInduction, SequenceTheorems, TLAPS

-----------------------------------------------------------------------------
(* What FlattenSeq computes, step by step. *)

\* A set of numbers has a least one.
LEMMA LeastNumber ==
    ASSUME NEW T, T \subseteq Nat, T # {}
    PROVE  \E k \in T : \A j \in T : k <= j
<1> DEFINE R == OpToRel(<, Nat)
<1>1. IsWellFoundedOn(R, Nat)
  BY NatLessThanWellFounded, Zenon
<1>2. \A x, y \in Nat : <<y, x>> \in R <=> y < x
  BY DEF OpToRel
<1> HIDE DEF R
<1>3. PICK x \in T : \A y \in T : ~(<<y, x>> \in R)
  BY <1>1, WFMin
<1>4. \A y \in T : x \in Nat /\ y \in Nat /\ ~(y < x)
  BY <1>2, <1>3
<1> QED BY <1>4

\* What FlattenSeq does with the first n of seqs.
Flattens(f, seqs, n) ==
    f = [k \in 1 .. n |-> IF k = 1 THEN seqs[k] ELSE f[k - 1] \o seqs[k]]

\* The recursion of FlattenSeq has a solution, for as many sequences as there are.
LEMMA FlattenExists ==
    ASSUME NEW seqs, NEW n \in Nat
    PROVE  \E f : Flattens(f, seqs, n)
<1> DEFINE T == {m \in Nat : ~ \E f : Flattens(f, seqs, m)}
<1> SUFFICES ASSUME T # {} PROVE FALSE
  OBVIOUS
<1>1. PICK m \in T : \A j \in T : m <= j
  BY LeastNumber
<1>2. m # 0
  <2>1. Flattens([k \in 1 .. 0 |-> 0], seqs, 0)
    BY DEF Flattens
  <2> QED BY <2>1
<1>3. m - 1 \in Nat /\ m - 1 \notin T
  BY <1>1, <1>2
<1>4. PICK g : Flattens(g, seqs, m - 1)
  BY <1>3
<1> DEFINE h == [k \in 1 .. m |-> IF k = m THEN IF m = 1 THEN seqs[m] ELSE g[m - 1] \o seqs[m]
                                  ELSE g[k]]
<1>5. \A k \in 1 .. m :
         h[k] = IF k = 1 THEN seqs[k] ELSE h[k - 1] \o seqs[k]
  <2> TAKE k \in 1 .. m
  <2>1. CASE k = m
    BY <1>1, <1>2, <2>1
  <2>2. CASE k # m
    <3>1. k \in 1 .. m - 1 /\ (k # 1 => k - 1 \in 1 .. m - 1)
      BY <1>1, <1>2, <2>2
    <3>2. g[k] = IF k = 1 THEN seqs[k] ELSE g[k - 1] \o seqs[k]
      BY <1>4, <3>1 DEF Flattens
    <3>3. h[k] = g[k] /\ (k # 1 => h[k - 1] = g[k - 1])
      BY <2>2, <3>1, <1>1
    <3> HIDE DEF h
    <3> QED BY <3>2, <3>3
  <2> QED BY <2>1, <2>2
<1>6. h = [k \in 1 .. m |-> h[k]]
  OBVIOUS
<1> HIDE DEF h
<1>7. Flattens(h, seqs, m)
  BY <1>5, <1>6 DEF Flattens
<1> QED BY <1>1, <1>7

\* FlattenSeq appends one sequence after the other.
LEMMA FlattenSteps ==
    ASSUME NEW S, NEW seqs \in Seq(Seq(S))
    PROVE  \/ seqs = <<>> /\ FlattenSeq(seqs) = <<>>
           \/ /\ Len(seqs) \in Nat \ {0}
              /\ \E f \in [1 .. Len(seqs) -> Seq(S)] :
                    /\ f[1] = seqs[1]
                    /\ \A k \in 2 .. Len(seqs) : f[k] = f[k - 1] \o seqs[k]
                    /\ FlattenSeq(seqs) = f[Len(seqs)]
<1>1. Len(seqs) \in Nat /\ \A k \in 1 .. Len(seqs) : seqs[k] \in Seq(S)
  OBVIOUS
<1>2. CASE Len(seqs) = 0
  <2>1. seqs = <<>>
    BY <1>2
  <2> QED BY <1>2, <2>1 DEF FlattenSeq
<1>3. CASE Len(seqs) # 0
  <2> DEFINE n == Len(seqs)
             f == CHOOSE g : Flattens(g, seqs, n)
  <2>1. Flattens(f, seqs, n)
    BY <1>1, FlattenExists
  <2>2. FlattenSeq(seqs) = f[n]
    BY <1>3 DEF FlattenSeq, Flattens
  <2> HIDE DEF f
  <2>3. \A k \in 1 .. n : f[k] = IF k = 1 THEN seqs[k] ELSE f[k - 1] \o seqs[k]
    BY <2>1 DEF Flattens
  <2>4. \A k \in 1 .. n : f[k] \in Seq(S)
    <3> DEFINE T == {k \in 1 .. n : f[k] \notin Seq(S)}
    <3> SUFFICES ASSUME T # {} PROVE FALSE
      OBVIOUS
    <3>0. T \subseteq Nat
      BY <1>1
    <3>1. PICK k \in T : \A j \in T : k <= j
      <4> HIDE DEF T
      <4> QED BY <3>0, LeastNumber
    <3>2. k # 1
      BY <1>1, <2>3, <3>1
    <3>3. k - 1 \in 1 .. n /\ k - 1 \notin T
      BY <1>1, <3>1, <3>2
    <3>4. f[k - 1] \in Seq(S) /\ seqs[k] \in Seq(S)
      BY <1>1, <3>1, <3>3
    <3>5. f[k] = f[k - 1] \o seqs[k]
      BY <2>3, <3>1, <3>2
    <3>6. f[k] \in Seq(S)
      BY <3>4, <3>5, ConcatProperties
    <3> QED BY <3>1, <3>6
  <2>5. f \in [1 .. n -> Seq(S)]
    BY <2>1, <2>4 DEF Flattens
  <2>6. /\ f[1] = seqs[1]
        /\ \A k \in 2 .. n : f[k] = f[k - 1] \o seqs[k]
    <3>1. n \in Nat /\ 1 \in 1 .. n /\ \A k \in 2 .. n : k \in 1 .. n /\ k # 1
      BY <1>1, <1>3
    <3> HIDE DEF n
    <3> QED BY <2>3, <3>1
  <2> QED BY <1>1, <1>3, <2>2, <2>5, <2>6
<1> QED BY <1>2, <1>3

\* It makes a sequence of the same elements.
LEMMA FlattenType ==
    ASSUME NEW S, NEW seqs \in Seq(Seq(S))
    PROVE  FlattenSeq(seqs) \in Seq(S)
<1>1. CASE seqs = <<>> /\ FlattenSeq(seqs) = <<>>
  <2>1. <<>> \in Seq(S)
    OBVIOUS
  <2> QED BY <1>1, <2>1
<1>2. ASSUME Len(seqs) \in Nat \ {0}, NEW f \in [1 .. Len(seqs) -> Seq(S)],
             FlattenSeq(seqs) = f[Len(seqs)]
      PROVE  FlattenSeq(seqs) \in Seq(S)
  <2>1. Len(seqs) \in 1 .. Len(seqs)
    BY <1>2
  <2>2. f[Len(seqs)] \in Seq(S)
    BY <1>2, <2>1, Zenon
  <2> QED BY <1>2, <2>2, Zenon
<1>3. \/ seqs = <<>> /\ FlattenSeq(seqs) = <<>>
      \/ /\ Len(seqs) \in Nat \ {0}
         /\ \E f \in [1 .. Len(seqs) -> Seq(S)] : FlattenSeq(seqs) = f[Len(seqs)]
  BY FlattenSteps, Zenon
<1> QED BY <1>1, <1>2, <1>3, Zenon

-----------------------------------------------------------------------------
\* A line is a record of these fields, and its limits are numbers.
LineShape(line) ==
    /\ line = [item |-> line.item, type |-> line.type, present |-> line.present,
               value |-> line.value, loaded |-> line.loaded, min |-> line.min,
               max |-> line.max, increment |-> line.increment]
    /\ line.min \in Int /\ line.max \in Int

LineKept(line) ==
    /\ Limited(line) => line.value \in line.min .. line.max
    /\ DayTime(line) => line.value \in 0 .. DAY - 1

LinesInv ==
    /\ page \in Pages
    /\ lines = [k \in DOMAIN lines |-> lines[k]]
    /\ \A k \in DOMAIN lines : LineShape(lines[k]) /\ LineKept(lines[k])

-----------------------------------------------------------------------------
(* Arithmetic of the buttons. *)

\* A sum of a time of the day and at most an hour, taken modulo the day.
LEMMA RemainderOfDay ==
    \A n \in 0 .. DAY + HOUR - 1 :
        Remainder(n, DAY) = IF n < DAY THEN n ELSE n - DAY
<1> SUFFICES ASSUME NEW n \in 0 .. DAY + HOUR - 1
             PROVE  Remainder(n, DAY) = IF n < DAY THEN n ELSE n - DAY
  OBVIOUS
<1>1. /\ DAY \in Nat /\ HOUR \in Nat /\ DAY > HOUR /\ n \in Nat /\ n < 2 * DAY
      /\ DAY > 0
  BY FormsAssumption DEF FormsAssumption
<1>2. n \div DAY = IF n < DAY THEN 0 ELSE 1
  BY <1>1
<1>3. Quotient(n, DAY) = IF n < DAY THEN 0 ELSE 1
  BY <1>1, <1>2 DEF Quotient
<1> QED
  BY <1>1, <1>3 DEF Remainder

\* The two buttons of a number.
LEMMA NumberSteps ==
    ASSUME NEW line, LineShape(line), Limited(line),
           line.value \in line.min .. line.max
    PROVE  /\ IncreasedNumber(line) \in line.min .. line.max
           /\ DecreasedNumber(line) \in line.min .. line.max
           /\ DecreasedNumber([line EXCEPT !.value = IncreasedNumber(line)]) = line.value
           /\ IncreasedNumber([line EXCEPT !.value = DecreasedNumber(line)]) = line.value
<1> DEFINE up   == [line EXCEPT !.value = IncreasedNumber(line)]
           down == [line EXCEPT !.value = DecreasedNumber(line)]
<1>1. /\ line.min \in Int /\ line.max \in Int /\ line.min < line.max
      /\ line.increment \in Int /\ line.increment >= 1
      /\ line.increment <= line.max - line.min + 1
      /\ line.value \in Int /\ line.min <= line.value /\ line.value <= line.max
  BY DEF LineShape, Limited
<1>2. /\ up.value = IncreasedNumber(line) /\ down.value = DecreasedNumber(line)
      /\ up.min = line.min /\ up.max = line.max /\ up.increment = line.increment
      /\ down.min = line.min /\ down.max = line.max /\ down.increment = line.increment
  BY DEF LineShape
<1>3. IncreasedNumber(line) =
        IF line.value + line.increment > line.max
        THEN line.min + (line.value + line.increment - line.max) - 1
        ELSE line.value + line.increment
  BY <1>1 DEF IncreasedNumber, AboveMax
<1>4. DecreasedNumber(line) =
        IF line.value - line.increment < line.min
        THEN line.max + (line.value - line.increment - line.min) + 1
        ELSE line.value - line.increment
  BY <1>1 DEF DecreasedNumber, BelowMin
<1>5. DecreasedNumber(up) = line.value
  <2> HIDE DEF up
  <2> QED BY <1>1, <1>2, <1>3 DEF DecreasedNumber, BelowMin
<1>6. IncreasedNumber(down) = line.value
  <2> HIDE DEF down
  <2> QED BY <1>1, <1>2, <1>4 DEF IncreasedNumber, AboveMax
<1> QED
  BY <1>1, <1>3, <1>4, <1>5, <1>6

\* The four buttons of a time.
LEMMA TimeSteps ==
    ASSUME NEW n \in 0 .. DAY - 1, NEW first \in BOOLEAN
    PROVE  /\ IncreasedTime(n, first) \in 0 .. DAY - 1
           /\ DecreasedTime(n, first) \in 0 .. DAY - 1
           /\ DecreasedTime(IncreasedTime(n, first), first) = n
           /\ IncreasedTime(DecreasedTime(n, first), first) = n
<1>1. /\ DAY \in Nat /\ HOUR \in Nat /\ HOUR >= 1 /\ DAY > HOUR
  BY FormsAssumption DEF FormsAssumption
<1>2. TimeStep(first) \in 1 .. HOUR
  BY <1>1 DEF TimeStep
<1>3. \A m \in 0 .. DAY - 1 :
        IncreasedTime(m, first) = IF m + TimeStep(first) < DAY THEN m + TimeStep(first)
                                  ELSE m + TimeStep(first) - DAY
  <2> TAKE m \in 0 .. DAY - 1
  <2>1. m + TimeStep(first) \in 0 .. DAY + HOUR - 1
    BY <1>1, <1>2
  <2>2. Remainder(m + TimeStep(first), DAY) =
          IF m + TimeStep(first) < DAY THEN m + TimeStep(first)
          ELSE m + TimeStep(first) - DAY
    BY <1>1, <1>2, <2>1, RemainderOfDay
  <2> QED
    BY <2>2 DEF IncreasedTime
<1>4. DecreasedTime(n, first) = IF n - TimeStep(first) < 0
                                THEN DAY + (n - TimeStep(first)) ELSE n - TimeStep(first)
  BY DEF DecreasedTime
<1>5. DecreasedTime(n, first) \in 0 .. DAY - 1
  BY <1>1, <1>2, <1>4
<1>6. IncreasedTime(n, first) \in 0 .. DAY - 1
  BY <1>1, <1>2, <1>3
<1>7. DecreasedTime(IncreasedTime(n, first), first) = n
  BY <1>1, <1>2, <1>3 DEF DecreasedTime
<1>8. IncreasedTime(DecreasedTime(n, first), first) = n
  BY <1>1, <1>2, <1>3, <1>4, <1>5
<1> QED
  BY <1>5, <1>6, <1>7, <1>8

-----------------------------------------------------------------------------
(* The invariant. *)

\* What a button makes of a line's value keeps the line within its limits.
LEMMA ButtonKeeps ==
    ASSUME NEW line, LineShape(line), LineKept(line), NEW first \in BOOLEAN
    PROVE  /\ Limited(line) => /\ Increased(line, first) \in line.min .. line.max
                               /\ Decreased(line, first) \in line.min .. line.max
           /\ DayTime(line) => /\ Increased(line, first) \in 0 .. DAY - 1
                               /\ Decreased(line, first) \in 0 .. DAY - 1
<1>1. CASE Limited(line)
  <2>1. line.value \in line.min .. line.max /\ line.type # "time" /\ ~DayTime(line)
    BY <1>1 DEF LineKept, Limited, DayTime
  <2>2. /\ IncreasedNumber(line) \in line.min .. line.max
        /\ DecreasedNumber(line) \in line.min .. line.max
    BY <1>1, <2>1, NumberSteps
  <2> QED
    BY <2>1, <2>2 DEF Increased, Decreased
<1>2. CASE DayTime(line)
  <2>1. line.value \in 0 .. DAY - 1 /\ line.type = "time" /\ ~Limited(line)
    BY <1>2 DEF LineKept, Limited, DayTime
  <2>2. /\ IncreasedTime(line.value, first) \in 0 .. DAY - 1
        /\ DecreasedTime(line.value, first) \in 0 .. DAY - 1
    BY <2>1, TimeSteps
  <2> QED
    BY <2>1, <2>2 DEF Increased, Decreased
<1> QED
  BY <1>1, <1>2

\* The buttons of a pair undo each other on a line within its limits.
LEMMA ButtonsCancel ==
    ASSUME NEW line, LineShape(line), LineKept(line), NEW first \in BOOLEAN,
           Limited(line) \/ DayTime(line)
    PROVE  /\ Decreased([line EXCEPT !.value = Increased(line, first)], first) = line.value
           /\ Increased([line EXCEPT !.value = Decreased(line, first)], first) = line.value
<1> DEFINE With(n) == [line EXCEPT !.value = n]
<1>1. \A n : With(n).value = n /\ With(n).type = line.type
  BY DEF LineShape
<1> HIDE DEF With
<1>2. CASE Limited(line)
  <2>1. line.value \in line.min .. line.max /\ line.type # "time"
    BY <1>2 DEF LineKept, Limited
  <2>2. /\ DecreasedNumber([line EXCEPT !.value = IncreasedNumber(line)]) = line.value
        /\ IncreasedNumber([line EXCEPT !.value = DecreasedNumber(line)]) = line.value
    BY <1>2, <2>1, NumberSteps
  <2>3. /\ Increased(line, first) = IncreasedNumber(line)
        /\ Decreased(line, first) = DecreasedNumber(line)
    BY <2>1 DEF Increased, Decreased
  <2>4. /\ DecreasedNumber(With(IncreasedNumber(line))) = line.value
        /\ IncreasedNumber(With(DecreasedNumber(line))) = line.value
    BY <2>2 DEF With
  <2>5. /\ Decreased(With(IncreasedNumber(line)), first) = line.value
        /\ Increased(With(DecreasedNumber(line)), first) = line.value
    BY <1>1, <2>1, <2>4 DEF Increased, Decreased
  <2> QED
    BY <2>3, <2>5 DEF With
<1>3. CASE DayTime(line)
  <2>1. line.value \in 0 .. DAY - 1 /\ line.type = "time"
    BY <1>3 DEF LineKept, DayTime
  <2>2. /\ DecreasedTime(IncreasedTime(line.value, first), first) = line.value
        /\ IncreasedTime(DecreasedTime(line.value, first), first) = line.value
    BY <2>1, TimeSteps
  <2>3. /\ Increased(line, first) = IncreasedTime(line.value, first)
        /\ Decreased(line, first) = DecreasedTime(line.value, first)
    BY <2>1 DEF Increased, Decreased
  <2>4. /\ Decreased(With(IncreasedTime(line.value, first)), first) = line.value
        /\ Increased(With(DecreasedTime(line.value, first)), first) = line.value
    BY <1>1, <2>1, <2>2 DEF Increased, Decreased
  <2> QED
    BY <2>3, <2>4 DEF With
<1> QED
  BY <1>2, <1>3

\* Another value leaves a line's shape as it is, and keeps it within its limits
\* if the value is.
LEMMA LineWithValue ==
    ASSUME NEW line, LineShape(line), NEW n,
           Limited(line) => n \in line.min .. line.max,
           DayTime(line) => n \in 0 .. DAY - 1
    PROVE  /\ LineShape([line EXCEPT !.value = n])
           /\ LineKept([line EXCEPT !.value = n])
BY DEF LineShape, LineKept, Limited, DayTime

\* A line that has just been loaded.
LEMMA LoadedLine ==
    ASSUME page \in Pages, NEW k \in DOMAIN page
    PROVE  LineShape(LoadLine(page[k])) /\ LineKept(LoadLine(page[k]))
<1>1. /\ page[k].min \in Int /\ page[k].max \in Int
      /\ page[k].type \in Types
  <2> DEFINE Tags == [item : Items, min : Int, max : Int, increment : Int, type : Types]
  <2>1. page \in Seq(Tags)
    BY FormsAssumption DEF FormsAssumption
  <2>2. page[k] \in Tags
    <3> HIDE DEF Tags
    <3> QED BY <2>1
  <2> QED
    BY <2>2
<1> DEFINE line == LoadLine(page[k])
<1>2. line.value = line.loaded
  BY DEF LoadLine
<1>3. LineShape(line)
  BY <1>1 DEF LoadLine, LineShape, Types
<1>4. LineKept(line)
  <2> HIDE DEF line
  <2> QED BY <1>2 DEF LineKept, Limited, DayTime
<1> QED
  BY <1>3, <1>4

\* No line is loaded at the beginning.
LEMMA InitLines == Init => LinesInv
BY DEF Init, LinesInv

\* Pages are loaded line by line.
LEMMA LoadLinesStep ==
    ASSUME LinesInv, LoadLines, UNCHANGED page
    PROVE  LinesInv'
<1>1. page \in Pages /\ page' = page
  BY DEF LinesInv
<1>2. lines' = [k \in DOMAIN page |-> LoadLine(page[k])]
  BY DEF LoadLines
<1>3. ASSUME NEW k \in DOMAIN lines'
      PROVE  LineShape(lines'[k]) /\ LineKept(lines'[k])
  <2>1. k \in DOMAIN page /\ lines'[k] = LoadLine(page[k])
    BY <1>2
  <2> QED
    BY <1>1, <2>1, LoadedLine
<1>4. lines' = [k \in DOMAIN lines' |-> lines'[k]]
  BY <1>2
<1> QED
  BY <1>1, <1>3, <1>4 DEF LinesInv, LineShape, LineKept, Limited, DayTime

\* One line gets another value.
LEMMA ValueStep ==
    ASSUME LinesInv, UNCHANGED page, NEW a, NEW n,
           lines' = [lines EXCEPT ![a].value = n],
           a \in DOMAIN lines =>
             /\ Limited(lines[a]) => n \in lines[a].min .. lines[a].max
             /\ DayTime(lines[a]) => n \in 0 .. DAY - 1
    PROVE  LinesInv'
<1>1. page \in Pages /\ page' = page
  BY DEF LinesInv
<1>2. /\ DOMAIN lines' = DOMAIN lines
      /\ lines' = [k \in DOMAIN lines' |-> lines'[k]]
  BY DEF LinesInv
<1>3. ASSUME NEW k \in DOMAIN lines'
      PROVE  LineShape(lines'[k]) /\ LineKept(lines'[k])
  <2>1. LineShape(lines[k]) /\ LineKept(lines[k])
    BY <1>2 DEF LinesInv
  <2>2. CASE k = a
    <3>1. lines'[k] = [lines[k] EXCEPT !.value = n]
      BY <1>2, <2>2 DEF LinesInv
    <3> QED
      BY <1>2, <2>1, <2>2, <3>1, LineWithValue
  <2>3. CASE k # a
    <3>1. lines'[k] = lines[k]
      BY <1>2, <2>3 DEF LinesInv
    <3> QED
      BY <2>1, <3>1
  <2> QED
    BY <2>2, <2>3
<1> QED
  BY <1>1, <1>2, <1>3 DEF LinesInv, LineShape, LineKept, Limited, DayTime

\* The lines, from step to step.
LEMMA NextLines == LinesInv /\ [Next]_vars => LinesInv'
<1> SUFFICES ASSUME LinesInv, [Next]_vars PROVE LinesInv'
  OBVIOUS
<1>1. CASE UNCHANGED <<page, lines>>
  BY <1>1 DEF LinesInv, LineShape, LineKept, Limited, DayTime
<1>2. CASE LoadLines /\ UNCHANGED page
  BY <1>2, LoadLinesStep
<1>3. CASE UNCHANGED page /\ lines' = <<>>
  BY <1>3 DEF LinesInv
<1>4. ASSUME NEW k \in DOMAIN lines, CheckboxAction(k), UNCHANGED page
      PROVE  LinesInv'
  <2>1. lines' = [lines EXCEPT ![k].value = 1 - lines[k].value]
    BY <1>4 DEF CheckboxAction, LinesInv
  <2>2. ~Limited(lines[k]) /\ ~DayTime(lines[k])
    BY <1>4 DEF CheckboxAction, Limited, DayTime
  <2> QED
    BY <1>4, <2>1, <2>2, ValueStep
<1>5. ASSUME NEW first \in BOOLEAN, IncreaseValue(first), UNCHANGED page
      PROVE  LinesInv'
  <2>1. lines' = [lines EXCEPT ![aktElement].value = Increased(lines[aktElement], first)]
    BY <1>5 DEF IncreaseValue, ChangeValue
  <2>2. aktElement \in DOMAIN lines =>
          LineShape(lines[aktElement]) /\ LineKept(lines[aktElement])
    BY DEF LinesInv
  <2> QED
    BY <1>5, <2>1, <2>2, ButtonKeeps, ValueStep
<1>6. ASSUME NEW first \in BOOLEAN, DecreaseValue(first), UNCHANGED page
      PROVE  LinesInv'
  <2>1. lines' = [lines EXCEPT ![aktElement].value = Decreased(lines[aktElement], first)]
    BY <1>6 DEF DecreaseValue, ChangeValue
  <2>2. aktElement \in DOMAIN lines =>
          LineShape(lines[aktElement]) /\ LineKept(lines[aktElement])
    BY DEF LinesInv
  <2> QED
    BY <1>6, <2>1, <2>2, ButtonKeeps, ValueStep
<1>7. Clients => UNCHANGED lines \/ lines' = <<>>
  BY DEF Clients, Leave, LoadForm, Enter, SubmitForm, clientVars
<1>8. SetCGIHandler => UNCHANGED lines
  BY DEF SetCGIHandler, IgnoreParam, SetCheckbox, SetFloat, SetTime, SetInteger,
         Finish, clientVars
<1>9. Display => \/ LoadLines
                 \/ \E k \in DOMAIN lines : CheckboxAction(k)
                 \/ \E first \in BOOLEAN : IncreaseValue(first) \/ DecreaseValue(first)
                 \/ UNCHANGED lines
                 \/ lines' = <<>>
  <2>1. \A k : OpenEditor(k) => UNCHANGED lines
    BY DEF OpenEditor
  <2>2. ExitEditor => UNCHANGED lines
    BY DEF ExitEditor
  <2>3. TouchStoreValues => lines' = <<>>
    BY DEF TouchStoreValues
  <2> QED
    BY <2>1, <2>2, <2>3 DEF Display
<1>10. CASE Next
  BY <1>1, <1>2, <1>3, <1>4, <1>5, <1>6, <1>7, <1>8, <1>9, <1>10 DEF Next
<1>11. CASE UNCHANGED vars
  BY <1>1, <1>11 DEF vars, clientVars
<1> QED
  BY <1>10, <1>11

\* The lines of any page keep their shapes and limits (valueEditor.c).
THEOREM LinesAlwaysKept == Spec => []LinesInv
<1> QED
  BY InitLines, NextLines, PTL DEF Spec

(***************************************************************************)
(* valueEditor.c: for any limits, increments and pages, no sequence of     *)
(* buttons takes a value out of its limits or a time out of the day.       *)
(***************************************************************************)
THEOREM LimitsAlwaysKept == Spec => []LimitsKept
<1>1. LinesInv => LimitsKept
  BY DEF LinesInv, LineKept, LimitsKept
<1> QED
  BY <1>1, LinesAlwaysKept, PTL

(***************************************************************************)
(* valueEditor.c: for any limits, increments and pages, the two buttons of *)
(* a pair undo each other in every value that can be reached.              *)
(***************************************************************************)
THEOREM StepsAlwaysCancel == Spec => []StepsCancel
<1>1. LinesInv => StepsCancel
  BY ButtonsCancel DEF LinesInv, StepsCancel
<1> QED
  BY <1>1, LinesAlwaysKept, PTL

-----------------------------------------------------------------------------
(* SetCGIHandler: the invariant, and the values that fit a long. *)

\* What a form or the lines send.
Params == [prefix : {"f_", "t_", ""}, item : Items, text : FieldText] \cup {Meta}

Fields == [item : Items, type : Types, present : BOOLEAN, texts : Seq(FieldText),
           means : Seq(Int)]

LoadedLines == [item : Items, type : Types, present : BOOLEAN, value : Long,
                loaded : Long, min : Int, max : Int, increment : Int]

ClientTypes ==
    /\ page \in Pages
    /\ form \in Seq(Fields)
    /\ \A k \in DOMAIN form :
         /\ ~form[k].present => form[k].texts = <<>>
         /\ form[k].type = "checkbox" => form[k].means \in {<<>>, << 0 >>, << 1 >>}
    /\ lines \in Seq(LoadedLines)
    /\ \A k \in DOMAIN lines : lines[k].type = "checkbox" => lines[k].value \in {0, 1}
    /\ aktElement \in 0 .. Len(lines)
    /\ aktElement # 0 => lines[aktElement].type # "checkbox"

HandlerTypes ==
    /\ store \in [Items -> Long]
    /\ request \in Seq(Params)
    /\ Len(request) <= MAX_CGI_PARAMETERS
    /\ value \in Long
    /\ i \in 1 .. Len(request) + 2
    /\ answer # "pending" => i = 1
    /\ answer \in {"none", "pending", "ok", "nok"}

\* Parameter j of r, for a time with the next one, sets item to v; next is the
\* one behind.
Asks(r, j, item, v, next) ==
    /\ j \in DOMAIN r
    /\ r[j] # Meta /\ r[j].item = item
    /\ v \in Long
    /\ \/ r[j].text = On /\ v = 1 /\ next = j + 1
       \/ r[j].prefix = "" /\ r[j].text = Number(v) /\ next = j + 1
       \/ /\ r[j].prefix = "f_" /\ next = j + 1
          /\ \E a, b \in Long : r[j].text = Decimal(a, b) /\ v = a * 10 + b
       \/ /\ r[j].prefix = "t_" /\ next = j + 2
          /\ j + 1 \in DOMAIN r
          /\ r[j + 1].prefix = "t_" /\ r[j + 1].item = item
          /\ \E a, b \in Long : /\ r[j].text = Number(a) /\ r[j + 1].text = Number(b)
                                /\ v = a * HOUR + b

\* r is cut at the places of starts into pieces that ask for the pairs, each for
\* one, and into parameters that are ignored.
Splits(r, pairs, starts) ==
    /\ starts \subseteq 1 .. Len(r) + 1
    /\ 1 \in starts /\ Len(r) + 1 \in starts
    /\ \A j \in starts :
         \/ j = Len(r) + 1
         \/ r[j] = Meta /\ j + 1 \in starts
         \/ \E item \in Items, v \in Long, next \in starts :
              <<item, v>> \in pairs /\ Asks(r, j, item, v, next)
    /\ \A pair \in pairs : \E j \in starts, item \in Items, v \in Long, next \in starts :
         pair = <<item, v>> /\ Asks(r, j, item, v, next)

Regular(r, pairs) == \E starts : Splits(r, pairs, starts)

\* Parameter j has been dealt with.
Done(j) ==
    \/ request[j] = Meta
    \/ request[j].text.on /\ <<request[j].item, 1>> \in Refused
    \/ <<request[j].item, store[request[j].item]>> \in asked

HandledSoFar ==
    answer = "pending" /\ regular =>
        \E starts : /\ Splits(request, asked, starts)
                    /\ i \in starts
                    /\ \A j \in starts : j < i => Done(j)

FormsInv == ClientTypes /\ HandlerTypes /\ HandledSoFar /\ SetsOnlyAsked /\ AnswerIsTrue

-----------------------------------------------------------------------------
\* The two parts of a division lie between 0 and the number.
LEMMA QuotientParts ==
    ASSUME NEW n \in Int, NEW b \in Nat \ {0}
    PROVE  /\ Quotient(n, b) \in Int /\ b * Quotient(n, b) \in Int
           /\ n >= 0 => /\ 0 <= Quotient(n, b) /\ Quotient(n, b) <= n
                        /\ 0 <= n - b * Quotient(n, b) /\ n - b * Quotient(n, b) <= n
           /\ n < 0 => /\ n <= Quotient(n, b) /\ Quotient(n, b) <= 0
                       /\ n <= n - b * Quotient(n, b) /\ n - b * Quotient(n, b) <= 0
<1>1. ASSUME NEW m \in Nat
      PROVE  /\ m \div b \in Nat /\ m \div b <= m
             /\ 0 <= m - b * (m \div b) /\ m - b * (m \div b) <= m
  <2>1. /\ m \div b \in Nat /\ m % b \in Nat
        /\ m = b * (m \div b) + (m % b)
    OBVIOUS
  <2>2. \A q \in Nat : b * q >= q /\ b * q \in Nat
    OBVIOUS
  <2>3. b * (m \div b) >= m \div b /\ b * (m \div b) \in Nat
    BY <2>1, <2>2
  <2> QED
    BY <2>1, <2>3
<1>2. CASE n >= 0
  BY <1>1, <1>2 DEF Quotient
<1>3. CASE n < 0
  <2>1. -n \in Nat
    BY <1>3
  <2>2. /\ (-n) \div b \in Nat /\ (-n) \div b <= -n
        /\ 0 <= (-n) - b * ((-n) \div b) /\ (-n) - b * ((-n) \div b) <= -n
    BY <1>1, <2>1
  <2>3. Quotient(n, b) = -((-n) \div b)
    BY <1>3 DEF Quotient
  <2>4. \A q \in Int : b * (-q) = -(b * q) /\ b * q \in Int
    OBVIOUS
  <2>5. b * Quotient(n, b) = -(b * ((-n) \div b)) /\ b * ((-n) \div b) \in Int
    BY <2>2, <2>3, <2>4
  <2> QED BY <1>3, <2>2, <2>3, <2>5
<1> QED BY <1>2, <1>3

\* What fits a long.
LEMMA LongFacts ==
    /\ Long \subseteq Int /\ 0 \in Long /\ 1 \in Long /\ -1 \in Long
    /\ \A n \in Int : Wrap(n) \in Long
    /\ \A n \in Long : Wrap(n) = n
    /\ -Reach .. Reach \subseteq Long
<1>1. PICK h \in Nat : h = WORD \div 2 /\ WORD = 2 * h /\ h >= 2
  <2>1. WORD \in Nat /\ WORD >= 4 /\ WORD % 2 = 0
    BY FormsAssumption DEF FormsAssumption
  <2> QED BY <2>1
<1>2. Long = -h .. h - 1
  BY <1>1 DEF Long
<1>3. ASSUME NEW n \in Int
      PROVE  ((n + h) % (2 * h)) - h \in -h .. h - 1
  BY <1>1
<1>4. \A n \in Int : Wrap(n) \in Long
  <2>1. \A n \in Int : Wrap(n) = IF n \in -h .. h - 1 THEN n ELSE ((n + h) % (2 * h)) - h
    BY <1>1, <1>2 DEF Wrap
  <2> QED BY <1>2, <1>3, <2>1
<1>5. Reach \in Nat /\ Reach <= h - 1
  BY <1>1 , FormsAssumption DEF FormsAssumption
<1>6. -Reach .. Reach \subseteq -h .. h - 1
  BY <1>5, <1>1
<1> QED BY <1>1, <1>2, <1>4, <1>6 DEF Wrap

\* Both parts of a long are longs.
LEMMA QuotientLong ==
    ASSUME NEW n \in Long, NEW b \in Nat \ {0}
    PROVE  Quotient(n, b) \in Long /\ n - b * Quotient(n, b) \in Long
<1>1. /\ n \in Int /\ WORD \div 2 \in Nat
      /\ -(WORD \div 2) <= n /\ n <= WORD \div 2 - 1 /\ WORD \div 2 >= 2
  BY LongFacts, FormsAssumption DEF FormsAssumption, Long
<1>2. DEFINE q == Quotient(n, b)
             p == b * q
<1>3. /\ q \in Int /\ p \in Int
      /\ n >= 0 => 0 <= q /\ q <= n /\ 0 <= n - p /\ n - p <= n
      /\ n < 0 => n <= q /\ q <= 0 /\ n <= n - p /\ n - p <= 0
  BY <1>1, QuotientParts
<1> HIDE DEF q, p
<1>4. q \in Long /\ n - p \in Long
  BY <1>1, <1>3 DEF Long
<1> QED BY <1>4 DEF q, p

\* The texts of a value.
LEMMA NumberTexts ==
    /\ On \in FieldText
    /\ \A a \in Int : Number(a) \in FieldText
    /\ \A a, b \in Int : Decimal(a, b) \in FieldText
<1>1. \A a \in Int : <<a>> \in Seq(Int)
  OBVIOUS
<1>2. \A a \in Int : << <<a>> >> \in Seq(Seq(Int))
  BY <1>1
<1>3. \A a, b \in Int : << <<a>>, <<b>> >> \in Seq(Seq(Int))
  BY <1>1
<1>4. <<>> \in Seq(Seq(Int))
  OBVIOUS
<1> QED BY <1>2, <1>3, <1>4 DEF On, Number, Decimal, FieldText

\* So are the texts that a field is rendered with.
LEMMA TextsType ==
    ASSUME NEW type \in Types, NEW n \in Long
    PROVE  Texts(type, n) \in Seq(FieldText)
<1>1. HOUR \in Nat \ {0} /\ 10 \in Nat \ {0} /\ n \in Int
  BY FormsAssumption, LongFacts DEF FormsAssumption
<1>2. /\ Quotient(n, 10) \in Int /\ Remainder(n, 10) \in Int
      /\ Quotient(n, HOUR) \in Int /\ n - Quotient(n, HOUR) * HOUR \in Int
  <2>1. /\ Quotient(n, 10) \in Int /\ 10 * Quotient(n, 10) \in Int
        /\ Quotient(n, HOUR) \in Int /\ HOUR * Quotient(n, HOUR) \in Int
    BY <1>1, QuotientParts
  <2>2. \A a, b \in Int : a * b = b * a
    OBVIOUS
  <2> QED BY <1>1, <2>1, <2>2 DEF Remainder
<1>3. /\ \A a \in Int : <<Number(a)>> \in Seq(FieldText)
      /\ \A a, b \in Int : <<Decimal(a, b)>> \in Seq(FieldText)
      /\ \A a, b \in Int : <<Number(a), Number(b)>> \in Seq(FieldText)
      /\ <<On>> \in Seq(FieldText) /\ <<>> \in Seq(FieldText)
  BY NumberTexts
<1>4. CASE type = "integer"
  BY <1>1, <1>3, <1>4 DEF Texts
<1>5. CASE type = "float"
  BY <1>2, <1>3, <1>5 DEF Texts, FloatTexts
<1>6. CASE type = "checkbox"
  BY <1>3, <1>6 DEF Texts, CheckboxTexts
<1>7. CASE type = "time"
  BY <1>2, <1>3, <1>7 DEF Texts, TimeTexts
<1> QED BY <1>4, <1>5, <1>6, <1>7 DEF Types

-----------------------------------------------------------------------------
(* Requests that are cut into pieces. *)

\* A request without parameters asks for nothing.
LEMMA RegularEmpty == Regular(<<>>, {})
<1>1. Splits(<<>>, {}, {1})
  BY DEF Splits
<1> QED BY <1>1 DEF Regular

\* The two parameters that the script adds ask for nothing.
LEMMA RegularMeta == Regular(<<Meta, Meta>>, {})
<1> DEFINE r == <<Meta, Meta>>
<1>1. Len(r) = 2 /\ r[1] = Meta /\ r[2] = Meta
  OBVIOUS
<1> HIDE DEF r
<1>2. Splits(r, {}, {1, 2, 3})
  BY <1>1 DEF Splits
<1> QED BY <1>2 DEF Regular, r

\* What follows does not change what a parameter asks for.
LEMMA AsksBefore ==
    ASSUME NEW r \in Seq(Params), NEW s \in Seq(Params), NEW j, NEW item, NEW v, NEW next,
           Asks(r, j, item, v, next)
    PROVE  Asks(r \o s, j, item, v, next)
<1> DEFINE t == r \o s
<1>1. /\ Len(t) = Len(r) + Len(s) /\ t \in Seq(Params)
      /\ \A k \in 1 .. Len(r) : t[k] = r[k]
  BY ConcatProperties
<1>2. /\ Len(r) \in Nat /\ Len(s) \in Nat /\ DOMAIN r = 1 .. Len(r)
      /\ DOMAIN t = 1 .. Len(t)
  BY <1>1
<1>0. j \in DOMAIN r
  BY DEF Asks
<1> HIDE DEF t
<1>3. j \in DOMAIN t /\ (j + 1 \in DOMAIN r => j + 1 \in DOMAIN t)
  BY <1>1, <1>2, <1>0
<1>4. t[j] = r[j] /\ (j + 1 \in DOMAIN r => t[j + 1] = r[j + 1])
  BY <1>1, <1>2 DEF Asks
<1>5. Asks(t, j, item, v, next)
  BY <1>3, <1>4 DEF Asks
<1> QED BY <1>5 DEF t

\* What comes before does not, either.
LEMMA AsksBehind ==
    ASSUME NEW r \in Seq(Params), NEW s \in Seq(Params), NEW j \in Nat, NEW item, NEW v,
           NEW next \in Nat, Asks(s, j, item, v, next)
    PROVE  Asks(r \o s, Len(r) + j, item, v, Len(r) + next)
<1> DEFINE t == r \o s
           k == Len(r) + j
<1>1. /\ Len(t) = Len(r) + Len(s) /\ t \in Seq(Params)
      /\ \A n \in 1 .. Len(t) : n > Len(r) => t[n] = s[n - Len(r)]
  BY ConcatProperties
<1>0. j \in DOMAIN s
  BY DEF Asks
<1> HIDE DEF t
<1>2. /\ Len(r) \in Nat /\ Len(s) \in Nat /\ DOMAIN s = 1 .. Len(s)
      /\ DOMAIN t = 1 .. Len(t) /\ j \in DOMAIN s
  BY <1>1, <1>0
<1>3. k \in DOMAIN t /\ (j + 1 \in DOMAIN s => k + 1 \in DOMAIN t)
  BY <1>1, <1>2
<1>4. t[k] = s[j] /\ (j + 1 \in DOMAIN s => t[k + 1] = s[j + 1])
  <2>1. /\ k \in 1 .. Len(t) /\ k > Len(r) /\ k - Len(r) = j
        /\ j + 1 \in DOMAIN s => k + 1 \in 1 .. Len(t) /\ k + 1 > Len(r)
                                  /\ (k + 1) - Len(r) = j + 1
    BY <1>2, <1>3
  <2> HIDE DEF k
  <2> QED BY <1>1, <2>1
<1>5. /\ next = j + 1 => Len(r) + next = k + 1
      /\ next = j + 2 => Len(r) + next = k + 2
  BY <1>2
<1> HIDE DEF k
<1>6. Asks(t, k, item, v, Len(r) + next)
  BY <1>3, <1>4, <1>5 DEF Asks
<1> QED BY <1>6 DEF t, k

\* Two requests one after the other ask for the pairs of both.
LEMMA RegularConcat ==
    ASSUME NEW r \in Seq(Params), NEW s \in Seq(Params), NEW A, NEW B,
           Regular(r, A), Regular(s, B)
    PROVE  Regular(r \o s, A \cup B)
<1>1. PICK S : Splits(r, A, S)
  BY DEF Regular
<1>2. PICK T : Splits(s, B, T)
  BY DEF Regular
<1> DEFINE t == r \o s
           n == Len(r)
           U == S \cup { n + k : k \in T }
<1>3. /\ n \in Nat /\ Len(s) \in Nat /\ Len(t) = n + Len(s)
      /\ \A k \in 1 .. n : t[k] = r[k]
      /\ \A k \in 1 .. Len(s) : t[n + k] = s[k]
  BY ConcatProperties
<1>4. S \subseteq 1 .. n + 1 /\ T \subseteq 1 .. Len(s) + 1 /\ 1 \in S /\ Len(s) + 1 \in T
      /\ n + 1 \in S /\ 1 \in T
  BY <1>1, <1>2 DEF Splits
<1>5. /\ U \subseteq 1 .. Len(t) + 1 /\ 1 \in U /\ Len(t) + 1 \in U
      /\ S \subseteq U /\ \A k \in T : n + k \in U
  <2>1. S \subseteq U /\ \A k \in T : n + k \in U
    OBVIOUS
  <2> HIDE DEF t, n
  <2>2. /\ \A k \in S : k \in 1 .. Len(t) + 1
        /\ \A k \in T : n + k \in 1 .. Len(t) + 1
    BY <1>3, <1>4
  <2>3. n + (Len(s) + 1) = Len(t) + 1
    BY <1>3
  <2> QED BY <1>4, <2>1, <2>2, <2>3
<1>6. ASSUME NEW j \in S, NEW item, NEW v, NEW next \in S, Asks(r, j, item, v, next)
      PROVE  j \in U /\ next \in U /\ Asks(t, j, item, v, next)
  BY <1>5, <1>6, AsksBefore
<1>7. ASSUME NEW j \in T, NEW item, NEW v, NEW next \in T, Asks(s, j, item, v, next)
      PROVE  n + j \in U /\ n + next \in U /\ Asks(t, n + j, item, v, n + next)
  <2>1. j \in Nat /\ next \in Nat
    BY <1>3, <1>4
  <2> QED BY <1>5, <1>7, <2>1, AsksBehind
<1> HIDE DEF U, t
<1>8. ASSUME NEW k \in T
      PROVE  \/ n + k = Len(t) + 1
             \/ t[n + k] = Meta /\ n + k + 1 \in U
             \/ \E item \in Items, v \in Long, next \in U :
                  <<item, v>> \in A \cup B /\ Asks(t, n + k, item, v, next)
  <2>1. CASE k = Len(s) + 1
    BY <1>3, <2>1
  <2>2. CASE k # Len(s) + 1 /\ s[k] = Meta /\ k + 1 \in T
    <3>1. k \in 1 .. Len(s)
      BY <1>3, <1>4, <2>2
    <3>2. n + k + 1 = n + (k + 1)
      BY <1>3, <3>1
    <3> QED BY <1>3, <1>5, <2>2, <3>1, <3>2
  <2>3. ASSUME NEW item \in Items, NEW v \in Long, NEW next \in T,
               <<item, v>> \in B, Asks(s, k, item, v, next)
        PROVE  \E x \in Items, w \in Long, z \in U :
                  <<x, w>> \in A \cup B /\ Asks(t, n + k, x, w, z)
    BY <1>7, <2>3
  <2> QED BY <1>2, <2>1, <2>2, <2>3 DEF Splits
<1>9. ASSUME NEW j \in U
      PROVE  \/ j = Len(t) + 1
             \/ t[j] = Meta /\ j + 1 \in U
             \/ \E item \in Items, v \in Long, next \in U :
                  <<item, v>> \in A \cup B /\ Asks(t, j, item, v, next)
  <2>1. CASE \E k \in T : j = n + k
    BY <1>8, <2>1
  <2>2. CASE j = n + 1
    BY <1>4, <1>8, <2>2
  <2>3. CASE j \in S /\ j # n + 1
    <3>1. j \in 1 .. n
      BY <1>3, <1>4, <2>3
    <3>2. CASE r[j] = Meta /\ j + 1 \in S
      BY <1>3, <1>5, <3>1, <3>2
    <3>3. ASSUME NEW item \in Items, NEW v \in Long, NEW next \in S,
                 <<item, v>> \in A, Asks(r, j, item, v, next)
          PROVE  \E x \in Items, w \in Long, z \in U :
                    <<x, w>> \in A \cup B /\ Asks(t, j, x, w, z)
      BY <1>6, <2>3, <3>3
    <3> QED BY <1>1, <2>3, <3>2, <3>3 DEF Splits
  <2> QED BY <2>1, <2>2, <2>3 DEF U
<1>10. ASSUME NEW pair \in A \cup B
       PROVE  \E j \in U, item \in Items, v \in Long, next \in U :
                 pair = <<item, v>> /\ Asks(t, j, item, v, next)
  <2>1. CASE pair \in A
    <3>1. PICK j \in S, item \in Items, v \in Long, next \in S :
                 pair = <<item, v>> /\ Asks(r, j, item, v, next)
      BY <1>1, <2>1 DEF Splits
    <3> QED BY <1>6, <3>1
  <2>2. CASE pair \in B
    <3>1. PICK j \in T, item \in Items, v \in Long, next \in T :
                 pair = <<item, v>> /\ Asks(s, j, item, v, next)
      BY <1>2, <2>2 DEF Splits
    <3> QED BY <1>7, <3>1
  <2> QED BY <2>1, <2>2
<1>11. Splits(t, A \cup B, U)
  BY <1>5, <1>9, <1>10 DEF Splits
<1> QED BY <1>11 DEF Regular, t

\* So do any number of them.
LEMMA RegularFlat ==
    ASSUME NEW seqs \in Seq(Seq(Params)), NEW P,
           \A k \in DOMAIN seqs : Regular(seqs[k], P[k])
    PROVE  /\ FlattenSeq(seqs) \in Seq(Params)
           /\ Regular(FlattenSeq(seqs), UNION {P[k] : k \in DOMAIN seqs})
<1>1. CASE seqs = <<>> /\ FlattenSeq(seqs) = <<>>
  <2>1. UNION {P[k] : k \in DOMAIN seqs} = {}
    BY <1>1
  <2>2. <<>> \in Seq(Params)
    OBVIOUS
  <2> QED BY <1>1, <2>1, <2>2, RegularEmpty
<1>2. ASSUME Len(seqs) \in Nat \ {0}, NEW f \in [1 .. Len(seqs) -> Seq(Params)],
             f[1] = seqs[1], \A k \in 2 .. Len(seqs) : f[k] = f[k - 1] \o seqs[k],
             FlattenSeq(seqs) = f[Len(seqs)]
      PROVE  /\ FlattenSeq(seqs) \in Seq(Params)
             /\ Regular(FlattenSeq(seqs), UNION {P[k] : k \in DOMAIN seqs})
  <2> DEFINE n == Len(seqs)
             Q(m) == UNION {P[k] : k \in 1 .. m}
             T == {m \in 1 .. n : ~Regular(f[m], Q(m))}
  <2>1. n \in Nat /\ n >= 1 /\ DOMAIN seqs = 1 .. n /\ T \subseteq Nat
        /\ \A k \in 1 .. n : seqs[k] \in Seq(Params)
    BY <1>2
  <2>2. Q(1) = P[1]
    OBVIOUS
  <2>3. \A m \in 2 .. n : Q(m) = Q(m - 1) \cup P[m]
    <3> TAKE m \in 2 .. n
    <3>1. 1 .. m = (1 .. m - 1) \cup {m}
      BY <2>1
    <3> QED BY <3>1
  <2> HIDE DEF Q, n
  <2>4. T = {}
    <3> SUFFICES ASSUME T # {} PROVE FALSE
      OBVIOUS
    <3>1. PICK m \in T : \A j \in T : m <= j
      <4> HIDE DEF T
      <4> QED BY <2>1, LeastNumber
    <3>2. m \in 1 .. n /\ ~Regular(f[m], Q(m))
      BY <3>1
    <3>3. m # 1
      BY <1>2, <2>1, <2>2, <3>2
    <3>4. m \in 2 .. n /\ m - 1 \in 1 .. n /\ m - 1 \notin T
      BY <2>1, <3>1, <3>2, <3>3
    <3>5. Regular(f[m - 1], Q(m - 1)) /\ Regular(seqs[m], P[m])
      BY <2>1, <3>2, <3>4
    <3>6. f[m] = f[m - 1] \o seqs[m] /\ f[m - 1] \in Seq(Params) /\ seqs[m] \in Seq(Params)
      BY <1>2, <2>1, <3>2, <3>4 DEF n
    <3>7. Regular(f[m - 1] \o seqs[m], Q(m - 1) \cup P[m])
      BY <3>5, <3>6, RegularConcat, Zenon
    <3> QED BY <2>3, <3>2, <3>4, <3>6, <3>7
  <2>5. Regular(f[n], Q(n)) /\ f[n] \in Seq(Params)
    BY <1>2, <2>1, <2>4 DEF n
  <2> QED BY <1>2, <2>1, <2>5 DEF Q, n
<1> QED BY <1>1, <1>2, FlattenSteps

-----------------------------------------------------------------------------
(* What the fields and the lines send. *)

\* A power of ten is a positive number.
LEMMA PowersOfTen == \A k \in 0 .. 9 : 10 ^ k \in Nat \ {0}
<1>1. /\ 10 ^ 0 = 1 /\ 10 ^ 1 = 10 /\ 10 ^ 2 = 100 /\ 10 ^ 3 = 1000 /\ 10 ^ 4 = 10000
      /\ 10 ^ 5 = 100000 /\ 10 ^ 6 = 1000000 /\ 10 ^ 7 = 10000000 /\ 10 ^ 8 = 100000000
      /\ 10 ^ 9 = 1000000000
  OBVIOUS
<1>2. \A k \in 0 .. 9 : k = 0 \/ k = 1 \/ k = 2 \/ k = 3 \/ k = 4 \/ k = 5 \/ k = 6 \/ k = 7
                        \/ k = 8 \/ k = 9
  OBVIOUS
<1>3. /\ 10 ^ 0 \in Nat \ {0} /\ 10 ^ 1 \in Nat \ {0} /\ 10 ^ 2 \in Nat \ {0}
      /\ 10 ^ 3 \in Nat \ {0} /\ 10 ^ 4 \in Nat \ {0} /\ 10 ^ 5 \in Nat \ {0}
      /\ 10 ^ 6 \in Nat \ {0} /\ 10 ^ 7 \in Nat \ {0} /\ 10 ^ 8 \in Nat \ {0}
      /\ 10 ^ 9 \in Nat \ {0}
  BY <1>1
<1> TAKE k \in 0 .. 9
<1> QED BY <1>2, <1>3, Zenon

\* What is printed of a number is a number.
LEMMA PrintedType ==
    ASSUME NEW n \in Long
    PROVE  Printed(n) \in Int
<1> DEFINE W == WORD \div 2
<1>1. W \in Nat /\ n \in Int /\ -W <= n /\ n <= W
  BY LongFacts, FormsAssumption DEF FormsAssumption, Long
<1>2. \A d \in {VAL_DIGITS - 1, VAL_DIGITS} : d \in Nat /\ W \div (10 ^ 9) < 10 ^ d
  BY FormsAssumption DEF FormsAssumption
<1>3. ASSUME NEW m \in 0 .. W, NEW d \in {VAL_DIGITS - 1, VAL_DIGITS}
      PROVE  Leading(m, d) \in Nat
  <2> DEFINE cuts == { k \in 0 .. 9 : m \div (10 ^ k) < 10 ^ d }
             cut  == CHOOSE k \in cuts : \A l \in cuts : k <= l
  <2>1. m \div (10 ^ 9) <= W \div (10 ^ 9)
    <3>1. 10 ^ 9 = 1000000000
      OBVIOUS
    <3>2. \A a, b \in Nat : a <= b => a \div 1000000000 <= b \div 1000000000
      OBVIOUS
    <3> HIDE DEF W
    <3> QED BY <1>1, <3>1, <3>2
  <2>2. m \div (10 ^ 9) \in Int /\ W \div (10 ^ 9) \in Int /\ 10 ^ d \in Int
    <3>1. 10 ^ 9 = 1000000000 /\ \A k \in Nat : 10 ^ k \in Int
      OBVIOUS
    <3> HIDE DEF W
    <3> QED BY <1>1, <1>2, <3>1
  <2>3. m \div (10 ^ 9) < 10 ^ d
    <3>1. W \div (10 ^ 9) < 10 ^ d
      BY <1>2
    <3>2. \A a, b, c \in Int : a <= b /\ b < c => a < c
      OBVIOUS
    <3> HIDE DEF W
    <3> QED BY <2>1, <2>2, <3>1, <3>2
  <2>4. 9 \in cuts /\ cuts \subseteq 0 .. 9
    BY <2>3
  <2>5. cut \in cuts
    <3>1. cuts \subseteq Nat /\ cuts # {}
      <4> HIDE DEF cuts
      <4> QED BY <2>4
    <3>2. \E k \in cuts : \A l \in cuts : k <= l
      <4> HIDE DEF cuts
      <4> QED BY <3>1, LeastNumber
    <3> HIDE DEF cuts
    <3> QED BY <3>2
  <2>6. cut \in 0 .. 9
    BY <2>4, <2>5
  <2>7. 10 ^ cut \in Nat \ {0}
    BY <2>6, PowersOfTen
  <2>8. m \in Nat
    BY <1>1
  <2>9. \A a \in Nat, b \in Nat \ {0} : a \div b \in Nat
    OBVIOUS
  <2>10. Leading(m, d) = m \div (10 ^ cut)
    BY DEF Leading
  <2> HIDE DEF cut
  <2> QED BY <2>7, <2>8, <2>9, <2>10
<1>4. CASE n >= 0
  <2>1. n \in 0 .. W
    BY <1>1, <1>4
  <2>2. Leading(n, VAL_DIGITS) \in Nat
    BY <1>3, <2>1
  <2> QED BY <1>4, <2>2 DEF Printed
<1>5. CASE ~(n >= 0)
  <2>1. -n \in 0 .. W
    BY <1>1, <1>5
  <2>2. Leading(-n, VAL_DIGITS - 1) \in Nat
    BY <1>3, <2>1
  <2> QED BY <1>5, <2>2 DEF Printed
<1> QED BY <1>4, <1>5

-----------------------------------------------------------------------------
(* The parameters of one field or line. *)

\* A field sends parameters.
LEMMA FieldType ==
    ASSUME NEW field \in Fields, NEW script \in BOOLEAN
    PROVE  FieldParams(field, script) \in Seq(Params)
<1> DEFINE texts == IF script /\ field.type = "checkbox" /\ field.present
                    THEN <<On>> ELSE field.texts
<1>1. field.texts \in Seq(FieldText) /\ field.item \in Items /\ field.type \in Types
  BY DEF Fields
<1>2. texts \in Seq(FieldText)
  BY <1>1, NumberTexts
<1>3. Prefix(field.type) \in {"f_", "t_", ""}
  BY DEF Prefix
<1> HIDE DEF texts
<1>4. /\ Len(texts) \in Nat /\ DOMAIN texts = 1 .. Len(texts)
      /\ \A k \in 1 .. Len(texts) : texts[k] \in FieldText
  BY <1>2
<1>5. \A k \in 1 .. Len(texts) :
         [prefix |-> Prefix(field.type), item |-> field.item, text |-> texts[k]] \in Params
  BY <1>1, <1>3, <1>4 DEF Params
<1>6. FieldParams(field, script) =
        [k \in 1 .. Len(texts) |->
            [prefix |-> Prefix(field.type), item |-> field.item, text |-> texts[k]]]
  BY <1>4 DEF FieldParams, texts
<1> QED BY <1>4, <1>5, <1>6

\* Tuples.
LEMMA Tuples ==
    /\ \A p : Len(<<p>>) = 1 /\ <<p>>[1] = p /\ DOMAIN <<p>> = {1}
    /\ \A p, q : /\ Len(<<p, q>>) = 2 /\ <<p, q>>[1] = p /\ <<p, q>>[2] = q
                  /\ DOMAIN <<p, q>> = {1, 2}
OBVIOUS

\* One parameter that asks for a value.
AsksAlone(p, v) ==
    /\ p # Meta
    /\ \/ p.text = On /\ v = 1
       \/ p.prefix = "" /\ p.text = Number(v)
       \/ p.prefix = "f_" /\ \E a, b \in Long : p.text = Decimal(a, b) /\ v = a * 10 + b

\* A parameter that asks for a value is a piece of its own.
LEMMA RegularOne ==
    ASSUME NEW p, NEW v \in Long, p.item \in Items, AsksAlone(p, v)
    PROVE  Regular(<<p>>, {<<p.item, v>>})
<1> DEFINE r == <<p>>
<1>1. Len(r) = 1 /\ r[1] = p /\ 1 \in DOMAIN r /\ 1 + 1 = 2
  BY Tuples
<1> HIDE DEF r
<1>2. Asks(r, 1, p.item, v, 2)
  BY <1>1 DEF Asks, AsksAlone
<1>3. Splits(r, {<<p.item, v>>}, {1, 2})
  <2> DEFINE S == {1, 2}
  <2>1. /\ S \subseteq 1 .. Len(r) + 1 /\ 1 \in S /\ 2 \in S /\ Len(r) + 1 = 2
        /\ \A j \in S : j = 1 \/ j = 2
    BY <1>1
  <2> HIDE DEF S
  <2>2. Splits(r, {<<p.item, v>>}, S)
    BY <1>2, <2>1 DEF Splits
  <2> QED BY <2>2 DEF S
<1> QED BY <1>3 DEF Regular, r

\* Two that ask for a value together are a piece.
LEMMA RegularTwo ==
    ASSUME NEW p, NEW q, NEW item \in Items, NEW v \in Long, Asks(<<p, q>>, 1, item, v, 3)
    PROVE  Regular(<<p, q>>, {<<item, v>>})
<1> DEFINE r == <<p, q>>
<1>1. Len(r) = 2
  OBVIOUS
<1>2. Asks(r, 1, item, v, 3)
  OBVIOUS
<1> HIDE DEF r
<1>3. Splits(r, {<<item, v>>}, {1, 3})
  BY <1>1, <1>2 DEF Splits
<1> QED BY <1>3 DEF Regular, r

\* What is rendered for a value asks for this value.
LEMMA FieldRegular ==
    ASSUME NEW field \in Fields, NEW script \in BOOLEAN, field.present,
           field.type = "checkbox" => field.means \in {<<>>, << 0 >>, << 1 >>},
           RegularField(field)
    PROVE  Regular(FieldParams(field, script), {<<field.item, field.means[1]>>})
<1> DEFINE n == field.means[1]
           P(t) == [prefix |-> Prefix(field.type), item |-> field.item, text |-> t]
<1>1. /\ field.item \in Items /\ field.type \in Types
      /\ n \in Long /\ field.texts = Texts(field.type, n)
      /\ field.type = "checkbox" => n = 1
  BY DEF Fields, RegularField
<1>2. HOUR \in Nat \ {0} /\ 10 \in Nat \ {0} /\ n \in Int
  BY <1>1, FormsAssumption, LongFacts DEF FormsAssumption
<1>7. \A t : P(t) # Meta /\ P(t).prefix = Prefix(field.type) /\ P(t).item = field.item
             /\ P(t).text = t
  BY DEF Meta, Prefix
<1>8. ASSUME NEW t, field.texts = <<t>>, field.type = "checkbox" => t = On
      PROVE  FieldParams(field, script) = <<P(t)>>
  <2>1. (IF script /\ field.type = "checkbox" /\ field.present THEN <<On>> ELSE field.texts)
          = <<t>>
    BY <1>8
  <2>2. [k \in DOMAIN <<t>> |-> [prefix |-> Prefix(field.type), item |-> field.item,
                                text |-> <<t>>[k]]] = <<P(t)>>
    OBVIOUS
  <2> QED BY <2>1, <2>2 DEF FieldParams
<1> HIDE DEF n, P
<1>3. CASE field.type = "integer"
  <2>1. field.texts = <<Number(n)>> /\ Prefix(field.type) = ""
    BY <1>1, <1>3 DEF Texts, Prefix
  <2>2. FieldParams(field, script) = <<P(Number(n))>>
    BY <1>3, <1>8, <2>1
  <2> DEFINE p == P(Number(n))
  <2>3. /\ p # Meta /\ p.prefix = "" /\ p.item = field.item /\ p.text = Number(n)
    BY <1>7, <2>1
  <2> HIDE DEF p
  <2>4. Regular(<<p>>, {<<p.item, n>>})
    BY <1>1, <2>3, RegularOne DEF AsksAlone
  <2> QED BY <2>2, <2>3, <2>4 DEF n, p
<1>4. CASE field.type = "float"
  <2> DEFINE a == Quotient(n, 10)
             b == Remainder(n, 10)
  <2>1. field.texts = <<Decimal(a, b)>> /\ Prefix(field.type) = "f_"
    BY <1>1, <1>4 DEF Texts, FloatTexts, Prefix
  <2>2. FieldParams(field, script) = <<P(Decimal(a, b))>>
    BY <1>4, <1>8, <2>1
  <2>3. a \in Long /\ b \in Long /\ n = a * 10 + b
    <3>1. a \in Long /\ b \in Long
      BY <1>1, <1>2, QuotientLong DEF Remainder
    <3>2. b = n - 10 * a /\ a \in Int /\ n \in Int
      BY <1>2, <3>1, LongFacts DEF Remainder
    <3> HIDE DEF a, b
    <3> QED BY <3>1, <3>2
  <2> HIDE DEF a, b
  <2> DEFINE p == P(Decimal(a, b))
  <2>4. /\ p # Meta /\ p.prefix = "f_" /\ p.item = field.item /\ p.text = Decimal(a, b)
    BY <1>7, <2>1
  <2> HIDE DEF p
  <2>5. Regular(<<p>>, {<<p.item, n>>})
    BY <1>1, <2>3, <2>4, RegularOne DEF AsksAlone
  <2> QED BY <2>2, <2>4, <2>5 DEF n, p
<1>5. CASE field.type = "checkbox"
  <2>1. field.texts = <<On>> /\ n = 1
    BY <1>1, <1>5 DEF Texts, CheckboxTexts
  <2>2. FieldParams(field, script) = <<P(On)>>
    BY <1>8, <2>1
  <2> DEFINE p == P(On)
  <2>3. /\ p # Meta /\ p.item = field.item /\ p.text = On
    BY <1>7
  <2> HIDE DEF p
  <2>4. Regular(<<p>>, {<<p.item, n>>})
    BY <1>1, <2>1, <2>3, RegularOne DEF AsksAlone
  <2> QED BY <2>2, <2>3, <2>4 DEF n, p
<1>6. CASE field.type = "time"
  <2> DEFINE a == Quotient(n, HOUR)
             b == n - Quotient(n, HOUR) * HOUR
  <2>1. field.texts = <<Number(a), Number(b)>> /\ Prefix(field.type) = "t_"
    BY <1>1, <1>6 DEF Texts, TimeTexts, Prefix
  <2>2. FieldParams(field, script) = <<P(Number(a)), P(Number(b))>>
    <3>1. \A t, u : [k \in DOMAIN <<t, u>> |-> [prefix |-> Prefix(field.type),
                     item |-> field.item, text |-> <<t, u>>[k]]] = <<P(t), P(u)>>
      BY DEF P
    <3>2. FieldParams(field, script) =
            [k \in DOMAIN field.texts |-> [prefix |-> Prefix(field.type), item |-> field.item,
                                           text |-> field.texts[k]]]
      BY <1>6 DEF FieldParams
    <3> QED BY <2>1, <3>1, <3>2
  <2>3. a \in Long /\ b \in Long /\ n = a * HOUR + b
    <3>1. a \in Long /\ n - HOUR * a \in Long
      BY <1>1, <1>2, QuotientLong
    <3>2. a \in Int /\ \A x, y \in Int : x * y = y * x /\ x * y \in Int
      <4>1. \A x, y \in Int : x * y = y * x /\ x * y \in Int
        OBVIOUS
      <4> HIDE DEF a
      <4> QED BY <3>1, <4>1, LongFacts
    <3>3. HOUR * a = a * HOUR /\ a * HOUR \in Int
      BY <1>2, <3>2
    <3>4. b = n - a * HOUR
      OBVIOUS
    <3> HIDE DEF a, b
    <3> QED BY <1>2, <3>1, <3>3, <3>4
  <2> HIDE DEF a, b
  <2>4. Asks(<<P(Number(a)), P(Number(b))>>, 1, field.item, n, 3)
    <3> DEFINE r == <<P(Number(a)), P(Number(b))>>
    <3>1. /\ r[1] = P(Number(a)) /\ r[2] = P(Number(b)) /\ 1 \in DOMAIN r /\ 1 + 1 \in DOMAIN r
          /\ 1 + 1 = 2 /\ 1 + 2 = 3
      BY Tuples
    <3>2. \A t : /\ P(t).prefix = "t_" /\ P(t).item = field.item /\ P(t).text = t
                 /\ P(t) # Meta
      BY <1>7, <2>1
    <3> HIDE DEF r, P
    <3>3. Asks(r, 1, field.item, n, 3)
      BY <1>1, <2>3, <3>1, <3>2 DEF Asks
    <3> QED BY <3>3 DEF r
  <2> HIDE DEF P
  <2> QED BY <1>1, <2>2, <2>4, RegularTwo DEF n
<1> QED BY <1>1, <1>3, <1>4, <1>5, <1>6 DEF Types

\* A line is sent as the number it shows.
LEMMA LineRegular ==
    ASSUME NEW line \in LoadedLines
    PROVE  /\ LineParams(line) \in Seq(Params)
           /\ ~line.present => LineParams(line) = <<>>
           /\ line.present /\ Printed(line.value) = line.value =>
                 Regular(LineParams(line), {<<line.item, line.value>>})
<1> DEFINE P(t) == [prefix |-> "", item |-> line.item, text |-> t]
<1>1. line.item \in Items /\ line.value \in Long /\ line.present \in BOOLEAN
  BY DEF LoadedLines
<1>2. \A t : P(t) # Meta /\ P(t).prefix = "" /\ P(t).item = line.item /\ P(t).text = t
  BY DEF Meta
<1>3. Number(Printed(line.value)) \in FieldText
  BY <1>1, PrintedType, NumberTexts
<1>4. P(Number(Printed(line.value))) \in Params
  BY <1>1, <1>3 DEF Params
<1>5. LineParams(line) = IF line.present THEN <<P(Number(Printed(line.value)))>> ELSE <<>>
  BY DEF LineParams
<1> HIDE DEF P
<1>6. ASSUME Printed(line.value) = line.value
      PROVE  Regular(<<P(Number(Printed(line.value)))>>, {<<line.item, line.value>>})
  <2> DEFINE p == P(Number(line.value))
  <2>1. p # Meta /\ p.prefix = "" /\ p.item = line.item /\ p.text = Number(line.value)
    BY <1>2
  <2> HIDE DEF p
  <2>2. Regular(<<p>>, {<<p.item, line.value>>})
    BY <1>1, <2>1, RegularOne DEF AsksAlone
  <2> QED BY <1>6, <2>1, <2>2 DEF p
<1> QED BY <1>1, <1>4, <1>5, <1>6

-----------------------------------------------------------------------------
(* Types of the handler. *)

(* The handler. *)

\* A parameter gets a value, or the machine rejects it.
LEMMA SetItemStep ==
    ASSUME store \in [Items -> Long], NEW item \in Items, NEW n \in Long, SetItem(item, n)
    PROVE  /\ store' \in [Items -> Long]
           /\ \A x \in Items : store'[x] = store[x] \/ (x = item /\ store'[x] = n)
           /\ store'[item] = n \/ <<item, n>> \in Refused
<1>1. CASE <<item, n>> \in Refused
  BY <1>1 DEF SetItem
<1>2. CASE store' = [store EXCEPT ![item] = n]
  BY <1>2
<1> QED BY <1>1, <1>2 DEF SetItem

\* A parameter that is no uid is one of an item.
LEMMA RequestElement ==
    ASSUME request \in Seq(Params), NEW k \in DOMAIN request
    PROVE  \/ request[k] = Meta /\ ~request[k].text.on
           \/ /\ request[k].prefix \in {"f_", "t_", ""}
              /\ request[k].item \in Items /\ request[k].text \in FieldText
<1>1. request[k] \in Params
  OBVIOUS
<1>2. ~Meta.text.on
  BY DEF Meta, Number
<1> QED BY <1>1, <1>2 DEF Params

\* What the handler reads in a text is a long.
LEMMA PiecesType ==
    ASSUME NEW text \in FieldText
    PROVE  /\ \A k \in 1 .. 2 : Pieces(text, k) \subseteq Seq(Int)
           /\ Whole(text) \in Seq(Int)
           /\ \A piece \in Seq(Int) : IsDecimal(piece) => DecimalValue(piece) \in Long
<1>1. text.pieces \in Seq(Seq(Int))
  BY DEF FieldText
<1>2. <<>> \in Seq(Int) /\ <<0>> \in Seq(Int)
  OBVIOUS
<1>3. \A k \in DOMAIN text.pieces : text.pieces[k] \in Seq(Int)
  BY <1>1
<1>4. Len(text.pieces) = 1 => 1 \in DOMAIN text.pieces
  BY <1>1
<1>5. ASSUME NEW piece \in Seq(Int), piece # <<>>
      PROVE  DecimalValue(piece) \in Long
  <2>1. piece[1] \in Int
    BY <1>5
  <2> QED BY <2>1, LongFacts DEF DecimalValue
<1> QED BY <1>2, <1>3, <1>4, <1>5 DEF Pieces, Whole, IsDecimal

\* The value of two parts is a long.
LEMMA FloatValueType ==
    ASSUME NEW a \in Seq(Int), NEW b \in Seq(Int), IsDecimal(a), IsDecimal(b)
    PROVE  FloatValue(a, b) \in Long /\ TimeValue(a, b) \in Long
<1>1. DecimalValue(a) \in Long /\ DecimalValue(b) \in Long
  <2>1. \A piece \in Seq(Int) : IsDecimal(piece) => DecimalValue(piece) \in Long
    BY PiecesType, NumberTexts
  <2> QED BY <2>1
<1>2. DecimalValue(a) \in Int /\ DecimalValue(b) \in Int /\ HOUR \in Int
  <2>1. HOUR \in Int
    BY FormsAssumption DEF FormsAssumption
  <2> QED BY <1>1, <2>1, LongFacts
<1>3. \A x, y, z \in Int : x * y + z \in Int
  OBVIOUS
<1>4. /\ DecimalValue(a) * 10 + DecimalValue(b) \in Int
      /\ DecimalValue(a) * HOUR + DecimalValue(b) \in Int
  BY <1>2, <1>3
<1> QED BY <1>4, LongFacts DEF FloatValue, TimeValue

\* The ways on from a parameter.
LEMMA GoesOn ==
    ASSUME HandlerTypes, Handling, UNCHANGED request, NEW used \in 1 .. 2,
           store' \in [Items -> Long],
           \/ i' = i + used /\ value' \in Long /\ UNCHANGED answer
           \/ \E p \in {"ok", "nok"} : Return(p)
    PROVE  HandlerTypes'
<1>1. /\ answer = "pending" /\ i \in Nat /\ i >= 1 /\ i <= Len(request) /\ Len(request) \in Nat
  BY DEF Handling, HandlerTypes
<1>2. CASE i' = i + used /\ value' \in Long /\ UNCHANGED answer
  <2>1. i' \in 1 .. Len(request) + 2
    BY <1>1, <1>2
  <2> QED BY <1>1, <1>2, <2>1 DEF HandlerTypes
<1>3. ASSUME NEW p \in {"ok", "nok"}, Return(p)
      PROVE  HandlerTypes'
  <2>1. i' = 1 /\ value' \in Long /\ answer' = p /\ 1 \in 1 .. Len(request) + 2
    BY <1>1, <1>3, LongFacts DEF Return
  <2> QED BY <1>3, <2>1 DEF HandlerTypes
<1> QED BY <1>2, <1>3

\* The handler keeps its types, and leaves the client and the request alone.
LEMMA HandlerTypesStep ==
    ASSUME HandlerTypes, SetCGIHandler
    PROVE  HandlerTypes' /\ UNCHANGED clientVars /\ UNCHANGED requestVars
<1>1. UNCHANGED clientVars /\ UNCHANGED requestVars /\ UNCHANGED request
  BY DEF SetCGIHandler, IgnoreParam, SetCheckbox, SetFloat, SetTime, SetInteger, Finish,
         requestVars
<1>2. /\ store \in [Items -> Long] /\ value \in Long /\ i \in Int
      /\ request \in Seq(Params)
  BY DEF HandlerTypes
<1>3. ASSUME Handling, NEW used \in 1 .. 2, Skip(used)
      PROVE  HandlerTypes'
  <2>1. i' = i + used /\ value' \in Long /\ UNCHANGED answer /\ store' \in [Items -> Long]
    BY <1>2, <1>3 DEF Skip
  <2> QED BY <1>1, <1>3, <2>1, GoesOn
<1>4. ASSUME Handling, NEW item \in Items, NEW n \in Long, NEW m \in Long,
             NEW used \in 1 .. 2, SetItem(item, n), Rereads(item, m, used)
      PROVE  HandlerTypes'
  <2>1. store' \in [Items -> Long]
    BY <1>2, <1>4, SetItemStep
  <2>2. \/ i' = i + used /\ value' \in Long /\ UNCHANGED answer
        \/ Return("nok")
    BY <1>4 DEF Rereads
  <2> QED BY <1>1, <1>4, <2>1, <2>2, GoesOn
<1>5. ASSUME Handling, Return("nok"), UNCHANGED store
      PROVE  HandlerTypes'
  BY <1>1, <1>2, <1>5, GoesOn
<1>14. ASSUME Handling, NEW item \in Items, NEW n \in Long, NEW used \in 1 .. 2,
              SetTo(item, n, used)
       PROVE  HandlerTypes'
  BY <1>4, <1>14 DEF SetTo
<1>6. Handling => i \in DOMAIN request
  BY <1>2 DEF Handling, HandlerTypes
<1>7. CASE IgnoreParam
  BY <1>3, <1>7 DEF IgnoreParam
<1>8. CASE SetCheckbox
  <2>1. request[i].item \in Items
    BY <1>2, <1>6, <1>8, RequestElement DEF SetCheckbox
  <2> QED BY <1>2, <1>4, <1>8, <2>1, LongFacts DEF SetCheckbox
<1>9. ASSUME AtPlainParam
      PROVE  request[i].item \in Items /\ request[i].text \in FieldText /\ Handling
  BY <1>2, <1>6, <1>9, RequestElement DEF AtPlainParam
<1>10. CASE SetFloat
  <2>1. PICK decimal \in Pieces(request[i].text, 2), whole \in Pieces(request[i].text, 1) :
            IF IsDecimal(decimal) /\ IsDecimal(whole)
            THEN SetTo(request[i].item, FloatValue(whole, decimal), 1)
            ELSE Return("nok") /\ UNCHANGED store
    BY <1>10 DEF SetFloat
  <2>2. AtPlainParam
    BY <1>10 DEF SetFloat
  <2>3. decimal \in Seq(Int) /\ whole \in Seq(Int)
    BY <1>9, <2>2, PiecesType
  <2>4. CASE IsDecimal(decimal) /\ IsDecimal(whole)
    <3>1. FloatValue(whole, decimal) \in Long
      BY <2>3, <2>4, FloatValueType
    <3>2. SetTo(request[i].item, FloatValue(whole, decimal), 1)
      BY <2>1, <2>4
    <3> QED BY <1>1, <1>9, <1>14, <2>2, <3>1, <3>2
  <2>5. CASE ~(IsDecimal(decimal) /\ IsDecimal(whole))
    <3>1. Return("nok") /\ UNCHANGED store
      BY <2>1, <2>5
    <3> QED BY <1>1, <1>5, <1>9, <2>2, <3>1
  <2> QED BY <2>4, <2>5
<1>11. CASE SetTime
  <2>1. AtPlainParam
    BY <1>11 DEF SetTime
  <2>2. \/ Skip(1) \/ Skip(2)
        \/ Return("nok") /\ UNCHANGED store
        \/ /\ IsDecimal(Whole(request[i].text)) /\ ~(i + 1 > Len(request))
           /\ request[i + 1].prefix = "t_" /\ IsDecimal(Whole(request[i + 1].text))
           /\ SetTo(request[i].item,
                    TimeValue(Whole(request[i].text), Whole(request[i + 1].text)), 2)
    BY <1>11 DEF SetTime
  <2>3. ASSUME IsDecimal(Whole(request[i].text)), ~(i + 1 > Len(request)),
               request[i + 1].prefix = "t_", IsDecimal(Whole(request[i + 1].text)),
               SetTo(request[i].item,
                     TimeValue(Whole(request[i].text), Whole(request[i + 1].text)), 2)
        PROVE  HandlerTypes'
    <3>1. i + 1 \in DOMAIN request /\ Meta.prefix # "t_"
      BY <1>2, <1>6, <1>9, <2>1, <2>3 DEF Meta
    <3>2. request[i + 1].text \in FieldText
      BY <1>2, <2>3, <3>1, RequestElement
    <3>3. Whole(request[i].text) \in Seq(Int) /\ Whole(request[i + 1].text) \in Seq(Int)
      BY <1>9, <2>1, <3>2, PiecesType
    <3>4. TimeValue(Whole(request[i].text), Whole(request[i + 1].text)) \in Long
      BY <2>3, <3>3, FloatValueType
    <3> QED BY <1>1, <1>9, <1>14, <2>1, <2>3, <3>4
  <2>4. Handling
    BY <1>9, <2>1
  <2>5. CASE Skip(1) \/ Skip(2)
    BY <1>1, <1>3, <2>4, <2>5
  <2>6. CASE Return("nok") /\ UNCHANGED store
    BY <1>1, <1>5, <2>4, <2>6
  <2> QED BY <1>1, <2>2, <2>3, <2>5, <2>6
<1>12. CASE SetInteger
  <2>1. AtPlainParam
    BY <1>12 DEF SetInteger
  <2>2. \/ Skip(1)
        \/ /\ IsDecimal(Whole(request[i].text))
           /\ SetTo(request[i].item, DecimalValue(Whole(request[i].text)), 1)
    BY <1>12 DEF SetInteger
  <2>3. IsDecimal(Whole(request[i].text)) => DecimalValue(Whole(request[i].text)) \in Long
    BY <1>9, <2>1, PiecesType
  <2>4. Handling /\ request[i].item \in Items
    BY <1>9, <2>1
  <2>5. CASE Skip(1)
    BY <1>1, <1>3, <2>4, <2>5
  <2>6. CASE /\ IsDecimal(Whole(request[i].text))
             /\ SetTo(request[i].item, DecimalValue(Whole(request[i].text)), 1)
    <3>1. DecimalValue(Whole(request[i].text)) \in Long
      BY <2>3, <2>6
    <3> QED BY <1>1, <1>14, <2>4, <2>6, <3>1
  <2> QED BY <2>2, <2>5, <2>6
<1>13. CASE Finish
  <2>1. Return("ok") /\ UNCHANGED store
    BY <1>13 DEF Finish
  <2>2. i' = 1 /\ value' \in Long /\ answer' = "ok" /\ 1 \in 1 .. Len(request) + 2
    BY <1>2, <2>1, LongFacts DEF Return
  <2> QED BY <1>1, <1>2, <2>1, <2>2 DEF HandlerTypes
<1> QED BY <1>1, <1>7, <1>8, <1>10, <1>11, <1>12, <1>13 DEF SetCGIHandler

-----------------------------------------------------------------------------
(* A request is carried out piece by piece. *)

\* At a place where the request is cut, the handler does what is asked for.
LEMMA HandlesAsked ==
    ASSUME HandlerTypes, Handling, SetCGIHandler, NEW item, NEW v, NEW next,
           Asks(request, i, item, v, next)
    PROVE  \/ /\ request[i].text.on /\ v = 1 /\ next = i + 1
              /\ SetItem(item, 1) /\ Rereads(item, value, 1)
           \/ /\ ~request[i].text.on
              /\ \E used \in 1 .. 2 : next = i + used /\ SetTo(item, v, used)
<1>1. /\ i \in DOMAIN request /\ request[i] # Meta /\ request[i].item = item /\ v \in Long
      /\ v \in Int /\ i \in Nat /\ answer = "pending"
      /\ ~Finish /\ ~IgnoreParam
  <2>1. /\ i \in DOMAIN request /\ request[i] # Meta /\ request[i].item = item /\ v \in Long
    BY DEF Asks
  <2>2. /\ answer = "pending" /\ i <= Len(request) /\ i \in Nat /\ Len(request) \in Nat
    BY DEF Handling, HandlerTypes
  <2>3. ~Finish
    BY <2>2 DEF Finish
  <2>4. ~IgnoreParam
    BY <2>1 DEF IgnoreParam
  <2> QED BY <2>1, <2>2, <2>3, <2>4, LongFacts
<1>0. Len(request) \in Nat /\ DOMAIN request = 1 .. Len(request)
  BY DEF HandlerTypes
<1>2. \A a \in Long : a \in Int /\ Wrap(a) = a
  BY LongFacts
<1>3. CASE request[i].text = On /\ v = 1 /\ next = i + 1
  <2>1. request[i].text.on
    BY <1>3 DEF On
  <2>2. SetCheckbox
    BY <1>1, <2>1 DEF SetCGIHandler, SetFloat, SetTime, SetInteger, AtPlainParam
  <2> QED BY <1>1, <1>3, <2>1, <2>2 DEF SetCheckbox
<1>4. \A a, b : /\ ~Number(a).on /\ Whole(Number(a)) = <<a>> /\ IsDecimal(<<a>>)
                /\ ~Decimal(a, b).on /\ Pieces(Decimal(a, b), 1) = {<<a>>}
                /\ Pieces(Decimal(a, b), 2) = {<<b>>}
                /\ <<a>>[1] = a
  BY DEF Number, Decimal, Whole, IsDecimal, Pieces
<1>5. CASE request[i].prefix = "" /\ request[i].text = Number(v) /\ next = i + 1
  <2>1. ~request[i].text.on /\ Whole(request[i].text) = <<v>>
    BY <1>4, <1>5
  <2>2. SetInteger
    BY <1>1, <1>5, <2>1 DEF SetCGIHandler, SetFloat, SetTime, SetCheckbox
  <2>3. DecimalValue(<<v>>) = v
    BY <1>1, <1>2, <1>4 DEF DecimalValue
  <2>4. SetTo(item, v, 1)
    <3>1. IsDecimal(Whole(request[i].text))
      BY <1>4, <2>1
    <3>2. SetTo(request[i].item, DecimalValue(Whole(request[i].text)), 1)
      BY <2>2, <3>1 DEF SetInteger
    <3> QED BY <1>1, <2>1, <2>3, <3>2
  <2>5. 1 \in 1 .. 2
    OBVIOUS
  <2> QED BY <1>5, <2>1, <2>4, <2>5
<1>6. ASSUME request[i].prefix = "f_", next = i + 1, NEW a \in Long, NEW b \in Long,
             request[i].text = Decimal(a, b), v = a * 10 + b
      PROVE  ~request[i].text.on /\ SetTo(item, v, 1)
  <2>1. /\ ~request[i].text.on
        /\ Pieces(request[i].text, 1) = {<<a>>} /\ Pieces(request[i].text, 2) = {<<b>>}
    BY <1>4, <1>6
  <2>2. SetFloat
    BY <1>1, <1>6, <2>1 DEF SetCGIHandler, SetInteger, SetTime, SetCheckbox
  <2>3. DecimalValue(<<a>>) = a /\ DecimalValue(<<b>>) = b
    BY <1>2, <1>4 DEF DecimalValue
  <2>4. FloatValue(<<a>>, <<b>>) = v
    BY <1>1, <1>2, <1>6, <2>3 DEF FloatValue
  <2>5. SetTo(item, FloatValue(<<a>>, <<b>>), 1)
    BY <1>1, <1>4, <2>1, <2>2 DEF SetFloat
  <2> QED BY <2>1, <2>4, <2>5
<1>7. ASSUME request[i].prefix = "t_", next = i + 2, i + 1 \in DOMAIN request,
             request[i + 1].prefix = "t_", NEW a \in Long, NEW b \in Long,
             request[i].text = Number(a), request[i + 1].text = Number(b), v = a * HOUR + b
      PROVE  ~request[i].text.on /\ SetTo(item, v, 2)
  <2>1. /\ ~request[i].text.on /\ Whole(request[i].text) = <<a>>
        /\ Whole(request[i + 1].text) = <<b>> /\ ~(i + 1 > Len(request))
    <3>1. ~(i + 1 > Len(request))
      BY <1>0, <1>1, <1>7
    <3> QED BY <1>4, <1>7, <3>1
  <2>2. SetTime
    BY <1>1, <1>7, <2>1 DEF SetCGIHandler, SetInteger, SetFloat, SetCheckbox
  <2>3. DecimalValue(<<a>>) = a /\ DecimalValue(<<b>>) = b
    BY <1>2, <1>4 DEF DecimalValue
  <2>4. TimeValue(<<a>>, <<b>>) = v
    BY <1>1, <1>2, <1>7, <2>3 DEF TimeValue
  <2>5. SetTo(item, TimeValue(<<a>>, <<b>>), 2)
    BY <1>1, <1>4, <1>7, <2>1, <2>2 DEF SetTime
  <2> QED BY <2>1, <2>4, <2>5
<1> QED
  <2>1. 1 \in 1 .. 2 /\ 2 \in 1 .. 2
    OBVIOUS
  <2> QED BY <1>3, <1>5, <1>6, <1>7, <2>1 DEF Asks

\* The handler deals with the next piece of a request that is cut at starts.
LEMMA PieceHandled ==
    ASSUME FormsInv, Handling, SetCGIHandler, regular, NEW starts,
           Splits(request, asked, starts), i \in starts,
           \A j \in starts : j < i => Done(j),
           NEW item \in Items, NEW v \in Long, NEW next \in starts,
           <<item, v>> \in asked, Asks(request, i, item, v, next)
    PROVE  HandledSoFar' /\ SetsOnlyAsked' /\ AnswerIsTrue'
<1>1. /\ store \in [Items -> Long] /\ request \in Seq(Params) /\ value \in Long
      /\ i \in Nat /\ i <= Len(request) /\ Len(request) \in Nat
      /\ DOMAIN request = 1 .. Len(request) /\ answer = "pending"
  BY DEF FormsInv, HandlerTypes, Handling
<1>2. /\ UNCHANGED <<request, asked, regular, before>>
  BY HandlerTypesStep DEF FormsInv, requestVars
<1>3. \/ /\ request[i].text.on /\ v = 1 /\ next = i + 1
         /\ SetItem(item, 1) /\ Rereads(item, value, 1)
      \/ /\ ~request[i].text.on
         /\ \E used \in 1 .. 2 : next = i + used /\ SetTo(item, v, used)
  BY HandlesAsked DEF FormsInv
<1>4. SetItem(item, v)
  BY <1>3 DEF SetTo
<1>5. /\ \A x \in Items : store'[x] = store[x] \/ (x = item /\ store'[x] = v)
      /\ store'[item] = v \/ <<item, v>> \in Refused
  BY <1>1, <1>4, SetItemStep
<1>6. SetsOnlyAsked'
  BY <1>2, <1>5 DEF FormsInv, SetsOnlyAsked
<1>7. \/ answer' = "pending" /\ i' = next
      \/ answer' = "nok"
  BY <1>1, <1>3 DEF SetTo, Rereads, Return
<1>8. ~request[i].text.on /\ answer' = "nok" => <<item, v>> \in Refused
  BY <1>1, <1>3, <1>5 DEF SetTo, Rereads
<1>9. i \in DOMAIN request
  BY <1>1 DEF Asks
<1>10. AnswerIsTrue'
  <2>1. OkMeansStored'
    BY <1>7 DEF OkMeansStored
  <2>2. NokMeansRefused'
    BY <1>2, <1>7, <1>8, <1>9 DEF NokMeansRefused
  <2> QED BY <2>1, <2>2 DEF AnswerIsTrue
<1>11. ASSUME answer' = "pending", NEW j \in starts, j < next
       PROVE  Done(j)'
  <2>1. j \in Nat /\ next \in Nat /\ next \in {i + 1, i + 2}
    <3>1. starts \subseteq 1 .. Len(request) + 1
      BY DEF Splits
    <3>2. next = i + 1 \/ next = i + 2
      BY DEF Asks
    <3> QED BY <1>1, <3>1, <3>2
  <2>2. CASE j < i
    <3>1. Done(j) /\ j \in DOMAIN request
      BY <1>1, <2>1, <2>2 DEF Splits
    <3>2. request[j] = Meta \/ request[j].item \in Items
      BY <1>1, <3>1, RequestElement
    <3> QED BY <1>2, <1>5, <3>1, <3>2 DEF Done
  <2>3. CASE j = i
    <3>1. request[i].item = item
      BY DEF Asks
    <3>2. CASE request[i].text.on
      <4>1. v = 1
        BY <1>3, <3>2
      <4> QED BY <1>2, <1>5, <2>3, <3>1, <3>2, <4>1 DEF Done
    <3>3. CASE ~request[i].text.on
      <4>1. store'[item] = v
        BY <1>1, <1>3, <3>3, <1>11 DEF SetTo, Rereads, Return
      <4> QED BY <1>2, <2>3, <3>1, <4>1 DEF Done
    <3> QED BY <3>2, <3>3
  <2>4. CASE j = i + 1 /\ next = i + 2
    <3>1. request[j].item = item /\ ~request[i].text.on
      <4>1. \A a : ~Number(a).on
        BY DEF Number
      <4>2. next # i + 1
        BY <1>1, <2>4
      <4> QED BY <2>4, <4>1, <4>2 DEF Asks
    <3>2. store'[item] = v
      BY <1>1, <1>3, <3>1, <1>11 DEF SetTo, Rereads, Return
    <3> QED BY <1>2, <3>1, <3>2 DEF Done
  <2> QED BY <1>1, <1>11, <2>1, <2>2, <2>3, <2>4
<1>12. HandledSoFar'
  <2>1. Splits(request', asked', starts)
    BY <1>2
  <2> QED BY <1>7, <1>11, <2>1 DEF HandledSoFar
<1> QED BY <1>6, <1>10, <1>12

\* The handler, from piece to piece of the request to its end.
LEMMA HandlerStep ==
    ASSUME FormsInv, SetCGIHandler
    PROVE  HandledSoFar' /\ SetsOnlyAsked' /\ AnswerIsTrue'
<1>1. UNCHANGED <<request, asked, regular, before>>
  BY HandlerTypesStep DEF FormsInv, requestVars
<1>2. CASE ~regular
  BY <1>1, <1>2 DEF HandledSoFar, SetsOnlyAsked, AnswerIsTrue, OkMeansStored, NokMeansRefused
<1>3. CASE regular
  <2>1. answer = "pending"
    BY DEF SetCGIHandler, IgnoreParam, SetCheckbox, SetFloat, SetTime, SetInteger, Finish,
           AtPlainParam, Handling
  <2>2. PICK starts : /\ Splits(request, asked, starts)
                      /\ i \in starts
                      /\ \A j \in starts : j < i => Done(j)
    BY <1>3, <2>1 DEF FormsInv, HandledSoFar
  <2>3. /\ request \in Seq(Params) /\ Len(request) \in Nat /\ i \in Nat
        /\ DOMAIN request = 1 .. Len(request)
    BY DEF FormsInv, HandlerTypes
  <2>4. CASE i > Len(request)
    <3>1. Finish
      <4>1. ~Handling
        BY <2>3, <2>4 DEF Handling
      <4> QED BY <4>1 DEF SetCGIHandler, IgnoreParam, SetCheckbox, SetFloat, SetTime,
                          SetInteger, AtPlainParam
    <3>2. UNCHANGED store /\ answer' = "ok"
      BY <3>1 DEF Finish, Return
    <3>3. ASSUME ~Contradictory, ~TickRefused, NEW pair \in asked
          PROVE  store[pair[1]] = pair[2]
      <4>1. PICK j \in starts, item \in Items, v \in Long, next \in starts :
                pair = <<item, v>> /\ Asks(request, j, item, v, next)
        BY <2>2 DEF Splits
      <4>2. j \in DOMAIN request /\ request[j] # Meta /\ request[j].item = item
        BY <4>1 DEF Asks
      <4>3. Done(j)
        BY <2>2, <2>3, <2>4, <4>2
      <4>4. <<item, store[item]>> \in asked
        BY <3>3, <4>2, <4>3 DEF Done, TickRefused
      <4> DEFINE a == <<item, store[item]>>
      <4>5. a \in asked /\ a[1] = item /\ a[2] = store[item]
        BY <4>4
      <4> HIDE DEF a
      <4>6. pair[1] = item
        BY <4>1
      <4> QED BY <3>3, <4>5, <4>6 DEF Contradictory
    <3>4. OkMeansStored'
      BY <1>1, <3>2, <3>3 DEF OkMeansStored, Contradictory, TickRefused
    <3> QED BY <1>1, <3>2, <3>4 DEF FormsInv, HandledSoFar, SetsOnlyAsked, AnswerIsTrue,
                                    NokMeansRefused
  <2>5. CASE i <= Len(request)
    <3>1. Handling
      BY <2>1, <2>5 DEF Handling
    <3>2. CASE request[i] = Meta /\ i + 1 \in starts
      <4>1. ~Meta.text.on
        BY DEF Meta, Number
      <4>2. IgnoreParam
        BY <2>3, <2>5, <3>2, <4>1 DEF SetCGIHandler, SetCheckbox, SetFloat, SetTime, SetInteger,
                                 AtPlainParam, Finish
      <4>3. i' = i + 1 /\ UNCHANGED <<store, value, answer>>
        BY <4>2 DEF IgnoreParam, Skip
      <4>4. ASSUME NEW j \in starts, j < i + 1
            PROVE  Done(j)'
        <5>1. j \in Nat
          BY <2>2, <2>3 DEF Splits
        <5>2. j < i \/ j = i
          BY <2>3, <4>4, <5>1
        <5>3. Done(j)
          BY <2>2, <3>2, <5>2 DEF Done
        <5> QED BY <1>1, <4>3, <5>3 DEF Done
      <4>5. Splits(request', asked', starts)
        BY <1>1, <2>2
      <4>6. HandledSoFar'
        BY <3>2, <4>3, <4>4, <4>5 DEF HandledSoFar
      <4>7. SetsOnlyAsked' /\ AnswerIsTrue'
        BY <1>1, <2>1, <4>3 DEF FormsInv, SetsOnlyAsked, AnswerIsTrue, OkMeansStored,
                           NokMeansRefused
      <4> QED BY <4>6, <4>7
    <3>3. ASSUME NEW item \in Items, NEW v \in Long, NEW next \in starts,
                 <<item, v>> \in asked, Asks(request, i, item, v, next)
          PROVE  HandledSoFar' /\ SetsOnlyAsked' /\ AnswerIsTrue'
      BY <1>3, <2>2, <3>1, <3>3, PieceHandled
    <3>4. i # Len(request) + 1
      BY <2>3, <2>5
    <3> QED BY <2>2, <3>2, <3>3, <3>4 DEF Splits
  <2> QED BY <2>3, <2>4, <2>5
<1> QED BY <1>2, <1>3

-----------------------------------------------------------------------------
(* Types of the clients. *)

(* The browser and the display. *)

\* A page's tags.
LEMMA PageTags ==
    ASSUME page \in Pages
    PROVE  /\ Len(page) \in Nat /\ DOMAIN page = 1 .. Len(page)
           /\ \A k \in DOMAIN page :
                /\ page[k].item \in Items /\ page[k].type \in Types
                /\ page[k].min \in Int /\ page[k].max \in Int /\ page[k].increment \in Int
<1> DEFINE Tags == [item : Items, min : Int, max : Int, increment : Int, type : Types]
<1>1. page \in Seq(Tags)
  BY FormsAssumption DEF FormsAssumption
<1>2. \A tag \in Tags : /\ tag.item \in Items /\ tag.type \in Types
                        /\ tag.min \in Int /\ tag.max \in Int /\ tag.increment \in Int
  OBVIOUS
<1> HIDE DEF Tags
<1> QED BY <1>1, <1>2

\* A field that has just been rendered.
LEMMA RenderedField ==
    ASSUME store \in [Items -> Long], NEW tag, tag.item \in Items, tag.type \in Types
    PROVE  LET f == RenderField(tag)
           IN  /\ f \in Fields
               /\ ~f.present => f.texts = <<>>
               /\ f.type = "checkbox" => f.means \in {<<>>, << 0 >>, << 1 >>}
<1> DEFINE n == store[tag.item]
           f == RenderField(tag)
<1>1. n \in Long /\ n \in Int
  BY LongFacts
<1>2. Texts(tag.type, n) \in Seq(FieldText) /\ <<>> \in Seq(FieldText)
  BY <1>1, TextsType
<1>3. Shown(tag.type, n) \in Int /\ (tag.type = "checkbox" => Shown(tag.type, n) \in {0, 1})
  BY <1>1 DEF Shown
<1>4. <<Shown(tag.type, n)>> \in Seq(Int) /\ <<>> \in Seq(Int)
  BY <1>3
<1>5. /\ f.item = tag.item /\ f.type = tag.type /\ f.present = (n # NoData)
      /\ f.texts = IF n = NoData THEN <<>> ELSE Texts(tag.type, n)
      /\ f.means = IF n = NoData THEN <<>> ELSE <<Shown(tag.type, n)>>
      /\ f = [item |-> f.item, type |-> f.type, present |-> f.present, texts |-> f.texts,
              means |-> f.means]
  BY DEF RenderField
<1> HIDE DEF n, f
<1>6. /\ f.present \in BOOLEAN /\ f.texts \in Seq(FieldText) /\ f.means \in Seq(Int)
      /\ f.item \in Items /\ f.type \in Types
  BY <1>2, <1>4, <1>5
<1>7. f \in Fields
  BY <1>5, <1>6 DEF Fields
<1>8. f.type = "checkbox" => f.means \in {<<>>, << 0 >>, << 1 >>}
  BY <1>3, <1>5
<1> QED BY <1>5, <1>7, <1>8 DEF f

\* A line that has just been loaded holds longs; a checkbox 0 or 1.
LEMMA LoadedLineType ==
    ASSUME store \in [Items -> Long], NEW tag, tag.item \in Items, tag.type \in Types,
           tag.min \in Int, tag.max \in Int, tag.increment \in Int
    PROVE  LET l == LoadLine(tag)
           IN  l \in LoadedLines /\ (l.type = "checkbox" => l.value \in {0, 1})
<1> DEFINE l == LoadLine(tag)
           n == store[tag.item]
<1>1. n \in Long /\ LoadedValue(tag.type, n) \in Long
      /\ (tag.type = "checkbox" => LoadedValue(tag.type, n) = 0)
  BY LongFacts DEF LoadedValue
<1>2. /\ l.item = tag.item /\ l.type = tag.type /\ l.present = (n # NoData)
      /\ l.value = LoadedValue(tag.type, n) /\ l.loaded = LoadedValue(tag.type, n)
      /\ l = [item |-> l.item, type |-> l.type, present |-> l.present, value |-> l.value,
              loaded |-> l.loaded, min |-> l.min, max |-> l.max, increment |-> l.increment]
  BY DEF LoadLine
<1>3. l.min \in Int /\ l.max \in Int /\ l.increment \in Int
  BY DEF LoadLine, Types
<1> HIDE DEF l, n
<1>4. l.present \in BOOLEAN
  BY <1>2
<1>5. l \in LoadedLines
  BY <1>1, <1>2, <1>3, <1>4 DEF LoadedLines
<1> QED BY <1>1, <1>2, <1>5 DEF l

\* A value of a line is changed.
LEMMA LineChange ==
    ASSUME ClientTypes, NEW k \in DOMAIN lines, NEW n \in Long,
           lines' = [lines EXCEPT ![k].value = n],
           lines[k].type = "checkbox" => n \in {0, 1},
           UNCHANGED <<page, form, aktElement>>
    PROVE  ClientTypes'
<1>1. /\ lines \in Seq(LoadedLines) /\ Len(lines) \in Nat /\ DOMAIN lines = 1 .. Len(lines)
      /\ lines[k] \in LoadedLines
  BY DEF ClientTypes
<1> DEFINE l == [lines[k] EXCEPT !.value = n]
<1>2. l \in LoadedLines /\ l.type = lines[k].type /\ l.value = n
  BY <1>1 DEF LoadedLines
<1>3. lines' = [lines EXCEPT ![k] = l]
  OBVIOUS
<1> HIDE DEF l
<1>4. lines' \in Seq(LoadedLines) /\ Len(lines') = Len(lines) /\ DOMAIN lines' = DOMAIN lines
  BY <1>1, <1>2, <1>3
<1>5. \A j \in DOMAIN lines' : lines'[j] = IF j = k THEN l ELSE lines[j]
  BY <1>1, <1>3
<1>6. \A j \in DOMAIN lines' : /\ lines'[j].type = lines[j].type
                               /\ lines'[j].type = "checkbox" => lines'[j].value \in {0, 1}
  BY <1>2, <1>4, <1>5 DEF ClientTypes
<1>7. aktElement # 0 => aktElement \in DOMAIN lines
  BY <1>1 DEF ClientTypes
<1> QED BY <1>4, <1>6, <1>7 DEF ClientTypes

\* The browser and the display keep their types.
LEMMA ClientTypesStep ==
    ASSUME ClientTypes, store \in [Items -> Long], Next
    PROVE  ClientTypes'
<1>1. page' = page /\ page \in Pages
  BY DEF Next, ClientTypes
<1>2. CASE UNCHANGED clientVars
  BY <1>1, <1>2 DEF clientVars, ClientTypes
<1>3. CASE SetCGIHandler
  <2>1. UNCHANGED clientVars
    BY <1>3 DEF SetCGIHandler, IgnoreParam, SetCheckbox, SetFloat, SetTime, SetInteger, Finish
  <2> QED BY <1>2, <2>1
<1>4. CASE Leave
  <2>1. form' = <<>> /\ lines' = <<>> /\ aktElement' = 0
    BY <1>4 DEF Leave
  <2>2. <<>> \in Seq(Fields) /\ <<>> \in Seq(LoadedLines) /\ Len(<<>>) = 0 /\ DOMAIN <<>> = {}
    OBVIOUS
  <2> QED BY <1>1, <2>1, <2>2 DEF ClientTypes
<1>5. CASE LoadForm
  <2>1. form' = [k \in DOMAIN page |-> RenderField(page[k])] /\ UNCHANGED <<lines, aktElement>>
    BY <1>5 DEF LoadForm
  <2>2. /\ DOMAIN form' = 1 .. Len(page) /\ Len(page) \in Nat
        /\ \A k \in 1 .. Len(page) :
             /\ form'[k] \in Fields
             /\ ~form'[k].present => form'[k].texts = <<>>
             /\ form'[k].type = "checkbox" => form'[k].means \in {<<>>, << 0 >>, << 1 >>}
    BY <1>1, <2>1, PageTags, RenderedField
  <2>3. form' \in [1 .. Len(page) -> Fields]
    BY <2>1, <2>2
  <2>4. form' \in Seq(Fields)
    BY <2>2, <2>3
  <2> QED BY <1>1, <2>1, <2>2, <2>4 DEF ClientTypes
<1>6. ASSUME NEW k \in DOMAIN form, NEW entry \in Typed[form[k].type], Enter(k, entry)
      PROVE  ClientTypes'
  <2> DEFINE f == [form[k] EXCEPT !.texts = entry.texts, !.means = entry.means]
  <2>1. /\ form \in Seq(Fields) /\ Len(form) \in Nat /\ DOMAIN form = 1 .. Len(form)
        /\ form[k] \in Fields /\ form[k].type \in Types
    <3>1. \A x \in Fields : x.type \in Types
      BY DEF Fields
    <3>2. form \in Seq(Fields)
      BY DEF ClientTypes
    <3> QED BY <3>1, <3>2
  <2>2. /\ entry.texts \in Seq(FieldText) /\ entry.means \in Seq(Int)
        /\ form[k].type = "checkbox" => entry.means \in {<< 0 >>, << 1 >>}
    <3>1. /\ entry.texts \in Seq(FieldText)
          /\ entry.means \in IF form[k].type = "checkbox" THEN { << 0 >>, << 1 >> } ELSE Seq(Int)
      BY <2>1 , FormsAssumption DEF FormsAssumption
    <3>2. <<0>> \in Seq(Int) /\ <<1>> \in Seq(Int)
      OBVIOUS
    <3> QED BY <3>1, <3>2
  <2>3. /\ f \in Fields /\ f.type = form[k].type /\ f.means = entry.means
        /\ f.present = form[k].present
    BY <2>1, <2>2 DEF Fields
  <2>4. form' = [form EXCEPT ![k] = f] /\ form[k].present /\ UNCHANGED <<lines, aktElement>>
    BY <1>6 DEF Enter
  <2> HIDE DEF f
  <2>5. form' \in Seq(Fields) /\ DOMAIN form' = DOMAIN form
    BY <2>1, <2>3, <2>4
  <2>6. \A j \in DOMAIN form' : form'[j] = IF j = k THEN f ELSE form[j]
    BY <2>1, <2>4
  <2>7. \A j \in DOMAIN form' :
             /\ ~form'[j].present => form'[j].texts = <<>>
             /\ form'[j].type = "checkbox" => form'[j].means \in {<<>>, << 0 >>, << 1 >>}
    BY <2>2, <2>3, <2>4, <2>5, <2>6 DEF ClientTypes
  <2> QED BY <1>1, <2>4, <2>5, <2>7 DEF ClientTypes
<1>7. ASSUME NEW script \in BOOLEAN, SubmitForm(script)
      PROVE  ClientTypes'
  BY <1>2, <1>7 DEF SubmitForm
<1>8. CASE LoadLines
  <2>1. lines' = [k \in DOMAIN page |-> LoadLine(page[k])] /\ UNCHANGED <<form, aktElement>>
        /\ aktElement = 0
    BY <1>8 DEF LoadLines
  <2>2. /\ DOMAIN lines' = 1 .. Len(page) /\ Len(page) \in Nat
        /\ \A k \in 1 .. Len(page) :
             /\ lines'[k] \in LoadedLines
             /\ lines'[k].type = "checkbox" => lines'[k].value \in {0, 1}
    BY <1>1, <2>1, PageTags, LoadedLineType
  <2>3. lines' \in [1 .. Len(page) -> LoadedLines]
    BY <2>1, <2>2
  <2>4. lines' \in Seq(LoadedLines) /\ Len(lines') \in Nat
    BY <2>2, <2>3
  <2> QED BY <1>1, <2>1, <2>2, <2>4 DEF ClientTypes
<1>9. ASSUME NEW k \in DOMAIN lines, CheckboxAction(k)
      PROVE  ClientTypes'
  <2>1. /\ lines[k].type = "checkbox" /\ lines[k].value \in {0, 1}
        /\ lines' = [lines EXCEPT ![k].value = 1 - lines[k].value]
        /\ UNCHANGED <<form, aktElement>>
    BY <1>9 DEF CheckboxAction, ClientTypes
  <2>2. 1 - lines[k].value \in {0, 1}
    BY <2>1
  <2>3. 1 - lines[k].value \in Long
    BY <2>2, LongFacts
  <2> QED BY <1>1, <2>1, <2>2, <2>3, LineChange
<1>10. ASSUME NEW k \in DOMAIN lines, OpenEditor(k)
       PROVE  ClientTypes'
  <2>1. lines[k].type # "checkbox" /\ aktElement' = k /\ UNCHANGED <<form, lines>>
    BY <1>10 DEF OpenEditor
  <2>2. k \in 0 .. Len(lines)
    BY DEF ClientTypes
  <2> QED BY <1>1, <2>1, <2>2 DEF ClientTypes
<1>11. ASSUME NEW n, aktElement # 0, ChangeValue(n)
       PROVE  ClientTypes'
  <2>1. /\ lines' = [lines EXCEPT ![aktElement].value = n] /\ n \in Long
        /\ UNCHANGED <<form, aktElement>>
    BY <1>11, LongFacts DEF ChangeValue
  <2>2. aktElement \in DOMAIN lines /\ lines[aktElement].type # "checkbox"
    BY <1>11 DEF ClientTypes
  <2> QED BY <1>1, <2>1, <2>2, LineChange
<1>12. ASSUME NEW first \in BOOLEAN, IncreaseValue(first) \/ DecreaseValue(first)
       PROVE  ClientTypes'
  BY <1>11, <1>12 DEF IncreaseValue, DecreaseValue
<1>13. CASE ExitEditor
  <2>1. aktElement' = 0 /\ UNCHANGED <<form, lines>>
    BY <1>13 DEF ExitEditor
  <2>2. 0 \in 0 .. Len(lines)
    BY DEF ClientTypes
  <2> QED BY <1>1, <2>1, <2>2 DEF ClientTypes
<1>14. CASE TouchStoreValues
  <2>1. lines' = <<>> /\ UNCHANGED <<form, aktElement>> /\ aktElement = 0
    BY <1>14 DEF TouchStoreValues
  <2>2. <<>> \in Seq(LoadedLines) /\ Len(<<>>) = 0 /\ DOMAIN <<>> = {}
    OBVIOUS
  <2> QED BY <1>1, <2>1, <2>2 DEF ClientTypes
<1>15. CASE Clients
  BY <1>4, <1>5, <1>6, <1>7, <1>15 DEF Clients
<1>16. CASE Display
  BY <1>8, <1>9, <1>10, <1>12, <1>13, <1>14, <1>16 DEF Display
<1> QED BY <1>3, <1>15, <1>16 DEF Next

\* What the browser sends asks for the values of the fields, if they are regular.
LEMMA SubmitFormAsks ==
    ASSUME ClientTypes, NEW script \in BOOLEAN
    PROVE  /\ FormParams(script) \in Seq(Params)
           /\ (\A k \in {j \in DOMAIN form : form[j].present} : RegularField(form[k])) =>
                Regular(FormParams(script),
                        { <<form[k].item, form[k].means[1]>> :
                          k \in { j \in {h \in DOMAIN form : form[h].present} :
                                  form[j].means # <<>> } })
<1> DEFINE seqs == [k \in DOMAIN form |-> FieldParams(form[k], script)]
           P    == [k \in DOMAIN form |-> IF form[k].present
                                          THEN { <<form[k].item, form[k].means[1]>> } ELSE {}]
           tail == IF script THEN <<Meta, Meta>> ELSE <<>>
           asks == { <<form[k].item, form[k].means[1]>> :
                     k \in { j \in {h \in DOMAIN form : form[h].present} :
                             form[j].means # <<>> } }
<1>1. /\ form \in Seq(Fields) /\ Len(form) \in Nat /\ DOMAIN form = 1 .. Len(form)
      /\ \A k \in DOMAIN form : form[k] \in Fields
  BY DEF ClientTypes
<1>2. \A k \in DOMAIN form : seqs[k] \in Seq(Params)
  BY <1>1, FieldType
<1>3. seqs \in Seq(Seq(Params)) /\ DOMAIN seqs = DOMAIN form
  <2>1. seqs \in [1 .. Len(form) -> Seq(Params)]
    BY <1>1, <1>2
  <2> QED BY <1>1, <2>1
<1>4. tail \in Seq(Params) /\ Regular(tail, {})
  <2>1. <<Meta, Meta>> \in Seq(Params) /\ <<>> \in Seq(Params)
    BY DEF Params
  <2> QED BY <2>1, RegularMeta, RegularEmpty
<1>5. FormParams(script) = FlattenSeq(seqs) \o tail
  BY DEF FormParams
<1>6. FlattenSeq(seqs) \in Seq(Params)
  <2> HIDE DEF seqs
  <2> QED BY <1>3, FlattenType
<1>7. ASSUME \A k \in {j \in DOMAIN form : form[j].present} : RegularField(form[k])
      PROVE  Regular(FormParams(script), asks)
  <2>1. ASSUME NEW k \in DOMAIN form
        PROVE  Regular(seqs[k], P[k])
    <3>1. CASE form[k].present
      <4>1. Regular(FieldParams(form[k], script), {<<form[k].item, form[k].means[1]>>})
        BY <1>1, <1>7, <3>1, FieldRegular DEF ClientTypes
      <4> QED BY <3>1, <4>1
    <3>2. CASE ~form[k].present
      <4>1. form[k].texts = <<>>
        BY <3>2 DEF ClientTypes
      <4>2. FieldParams(form[k], script) = <<>>
        BY <3>2, <4>1 DEF FieldParams
      <4> QED BY <3>2, <4>2, RegularEmpty
    <3> QED BY <3>1, <3>2
  <2>2. Regular(FlattenSeq(seqs), UNION {P[k] : k \in DOMAIN seqs})
    <3> HIDE DEF seqs, P
    <3> QED BY <1>3, <2>1, RegularFlat
  <2>3. UNION {P[k] : k \in DOMAIN seqs} = asks
    <3>1. \A k \in DOMAIN form : form[k].present => form[k].means # <<>>
      BY <1>7 DEF RegularField
    <3>2. ASSUME NEW x
          PROVE  x \in UNION {P[k] : k \in DOMAIN form} <=> x \in asks
      <4>1. x \in UNION {P[k] : k \in DOMAIN form} <=> \E k \in DOMAIN form : x \in P[k]
        OBVIOUS
      <4>2. \A k \in DOMAIN form : x \in P[k] <=> /\ form[k].present
                                                  /\ x = <<form[k].item, form[k].means[1]>>
        OBVIOUS
      <4>3. x \in asks <=> \E k \in DOMAIN form : /\ form[k].present /\ form[k].means # <<>>
                                                  /\ x = <<form[k].item, form[k].means[1]>>
        OBVIOUS
      <4> HIDE DEF P, asks
      <4> QED BY <3>1, <4>1, <4>2, <4>3
    <3> HIDE DEF P, asks, seqs
    <3> QED BY <1>3, <3>2
  <2> HIDE DEF seqs, tail, P, asks
  <2>4. Regular(FlattenSeq(seqs) \o tail, asks \cup {})
    BY <1>4, <1>6, <2>2, <2>3, RegularConcat
  <2>5. asks \cup {} = asks
    OBVIOUS
  <2> QED BY <1>5, <2>4, <2>5
<1>8. FormParams(script) \in Seq(Params)
  <2> HIDE DEF seqs, tail
  <2> QED BY <1>4, <1>5, <1>6, ConcatProperties
<1> QED BY <1>7, <1>8

\* What the display sends asks for the values of the lines, if none was cut.
LEMMA LinesAsk ==
    ASSUME ClientTypes
    PROVE  LET params == FlattenSeq([k \in DOMAIN lines |-> LineParams(lines[k])])
           IN  /\ params \in Seq(Params)
               /\ (\A k \in {j \in DOMAIN lines : lines[j].present} :
                      Printed(lines[k].value) = lines[k].value) =>
                    Regular(params, { <<lines[k].item, lines[k].value>> :
                                      k \in {j \in DOMAIN lines : lines[j].present} })
<1> DEFINE seqs == [k \in DOMAIN lines |-> LineParams(lines[k])]
           P    == [k \in DOMAIN lines |-> IF lines[k].present
                                           THEN { <<lines[k].item, lines[k].value>> } ELSE {}]
           asks == { <<lines[k].item, lines[k].value>> :
                     k \in {j \in DOMAIN lines : lines[j].present} }
<1>1. /\ lines \in Seq(LoadedLines) /\ Len(lines) \in Nat /\ DOMAIN lines = 1 .. Len(lines)
      /\ \A k \in DOMAIN lines : lines[k] \in LoadedLines
  BY DEF ClientTypes
<1>2. \A k \in DOMAIN lines : seqs[k] \in Seq(Params)
  BY <1>1, LineRegular
<1>3. seqs \in Seq(Seq(Params)) /\ DOMAIN seqs = DOMAIN lines
  <2>1. seqs \in [1 .. Len(lines) -> Seq(Params)]
    BY <1>1, <1>2
  <2> QED BY <1>1, <2>1
<1>4. FlattenSeq(seqs) \in Seq(Params)
  <2> HIDE DEF seqs
  <2> QED BY <1>3, FlattenType
<1>5. ASSUME \A k \in {j \in DOMAIN lines : lines[j].present} :
                Printed(lines[k].value) = lines[k].value
      PROVE  Regular(FlattenSeq(seqs), asks)
  <2>1. ASSUME NEW k \in DOMAIN lines
        PROVE  Regular(seqs[k], P[k])
    <3>1. CASE lines[k].present
      <4>1. Regular(LineParams(lines[k]), {<<lines[k].item, lines[k].value>>})
        BY <1>1, <1>5, <3>1, LineRegular
      <4> QED BY <3>1, <4>1
    <3>2. CASE ~lines[k].present
      BY <1>1, <3>2, LineRegular, RegularEmpty
    <3> QED BY <3>1, <3>2
  <2>2. Regular(FlattenSeq(seqs), UNION {P[k] : k \in DOMAIN seqs})
    <3> HIDE DEF seqs, P
    <3> QED BY <1>3, <2>1, RegularFlat
  <2>3. UNION {P[k] : k \in DOMAIN lines} = asks
    OBVIOUS
  <2> HIDE DEF seqs, P, asks
  <2> QED BY <1>3, <2>2, <2>3
<1> QED BY <1>4, <1>5

-----------------------------------------------------------------------------
(* The invariant. *)

\* At the beginning nothing is asked for.
LEMMA InitForms == Init => FormsInv
<1> SUFFICES ASSUME Init PROVE FormsInv
  OBVIOUS
<1>1. /\ page \in Pages /\ store \in [Items -> Long] /\ form = <<>> /\ lines = <<>>
      /\ aktElement = 0 /\ request = <<>> /\ i = 1 /\ value = 0 /\ answer = "none"
      /\ asked = {} /\ before = store /\ MAX_CGI_PARAMETERS \in Nat
  BY FormsAssumption DEF Init, FormsAssumption
<1>2. /\ <<>> \in Seq(Fields) /\ <<>> \in Seq(LoadedLines) /\ <<>> \in Seq(Params)
      /\ Len(<<>>) = 0 /\ DOMAIN <<>> = {}
  OBVIOUS
<1>3. ClientTypes
  BY <1>1, <1>2 DEF ClientTypes
<1>4. HandlerTypes
  BY <1>1, <1>2, LongFacts DEF HandlerTypes
<1>5. HandledSoFar /\ SetsOnlyAsked /\ AnswerIsTrue
  BY <1>1 DEF HandledSoFar, SetsOnlyAsked, AnswerIsTrue, OkMeansStored, NokMeansRefused
<1> QED BY <1>3, <1>4, <1>5 DEF FormsInv

HandlerInv == HandlerTypes /\ HandledSoFar /\ SetsOnlyAsked /\ AnswerIsTrue

\* The answer of the last request is forgotten.
LEMMA GoneStep ==
    ASSUME HandlerTypes, Idle, RequestGone, UNCHANGED store
    PROVE  HandlerInv'
<1>1. /\ request' = <<>> /\ asked' = {} /\ before' = store /\ answer' = "none"
      /\ i' = 1 /\ value' = value /\ value \in Long /\ store' \in [Items -> Long] /\ store' = store
      /\ MAX_CGI_PARAMETERS \in Nat
  BY FormsAssumption DEF RequestGone, Idle, HandlerTypes, FormsAssumption
<1>2. <<>> \in Seq(Params) /\ Len(<<>>) = 0
  OBVIOUS
<1>3. HandlerTypes'
  BY <1>1, <1>2 DEF HandlerTypes
<1>4. HandledSoFar' /\ SetsOnlyAsked' /\ AnswerIsTrue'
  BY <1>1 DEF HandledSoFar, SetsOnlyAsked, AnswerIsTrue, OkMeansStored, NokMeansRefused
<1> QED BY <1>3, <1>4 DEF HandlerInv

\* A request comes.
LEMMA CallStep ==
    ASSUME HandlerTypes, NEW params \in Seq(Params), NEW pairs, NEW reg,
           CallSetCGI(params, pairs, reg), reg => Regular(params, pairs)
    PROVE  HandlerInv'
<1>1. /\ request' = IF Len(params) <= MAX_CGI_PARAMETERS THEN params
                    ELSE SubSeq(params, 1, MAX_CGI_PARAMETERS)
      /\ asked' = pairs /\ regular' = (reg /\ Len(params) <= MAX_CGI_PARAMETERS)
      /\ before' = store /\ i' = 1 /\ value' = 0 /\ answer' = "pending" /\ store' = store
      /\ store \in [Items -> Long]
  BY DEF CallSetCGI, HandlerTypes
<1>2. MAX_CGI_PARAMETERS \in Nat /\ Len(params) \in Nat
  BY FormsAssumption DEF FormsAssumption
<1>3. request' \in Seq(Params) /\ Len(request') \in Nat /\ Len(request') <= MAX_CGI_PARAMETERS
  <2>1. CASE Len(params) <= MAX_CGI_PARAMETERS
    BY <1>1, <1>2, <2>1
  <2>2. CASE ~(Len(params) <= MAX_CGI_PARAMETERS)
    <3>1. \A k \in 1 .. MAX_CGI_PARAMETERS : params[k] \in Params
      BY <1>2, <2>2
    <3>2. /\ SubSeq(params, 1, MAX_CGI_PARAMETERS) \in Seq(Params)
          /\ Len(SubSeq(params, 1, MAX_CGI_PARAMETERS)) = MAX_CGI_PARAMETERS
      BY <1>2, <2>2, <3>1
    <3> QED BY <1>1, <1>2, <2>2, <3>2
  <2> QED BY <2>1, <2>2
<1>4. HandlerTypes'
  BY <1>1, <1>3, LongFacts DEF HandlerTypes
<1>5. SetsOnlyAsked' /\ AnswerIsTrue'
  BY <1>1 DEF SetsOnlyAsked, AnswerIsTrue, OkMeansStored, NokMeansRefused
<1>6. HandledSoFar'
  <2>1. CASE ~regular'
    BY <2>1 DEF HandledSoFar
  <2>2. CASE regular'
    <3>1. request' = params /\ Regular(params, pairs)
      BY <1>1, <2>2
    <3>2. PICK starts : Splits(params, pairs, starts)
      BY <3>1 DEF Regular
    <3>3. /\ Splits(request', asked', starts) /\ i' \in starts
          /\ \A j \in starts : ~(j < i')
      <4>1. request' = params /\ asked' = pairs /\ i' = 1
        BY <1>1, <3>1
      <4>2. 1 \in starts /\ starts \subseteq 1 .. Len(params) + 1
        BY <3>2 DEF Splits
      <4>3. \A j \in starts : ~(j < 1)
        BY <1>2, <4>2
      <4> QED BY <3>2, <4>1, <4>2, <4>3
    <3> QED BY <3>3 DEF HandledSoFar
  <2> QED BY <2>1, <2>2
<1> QED BY <1>4, <1>5, <1>6 DEF HandlerInv

\* The invariant, from step to step.
LEMMA NextForms == FormsInv /\ [Next]_vars => FormsInv'
<1> SUFFICES ASSUME FormsInv, [Next]_vars PROVE FormsInv'
  OBVIOUS
<1>0. ClientTypes /\ HandlerTypes /\ store \in [Items -> Long]
  BY DEF FormsInv, HandlerTypes
<1>1. CASE UNCHANGED vars
  <2>1. UNCHANGED <<page, store, form, lines, aktElement, request, asked, regular, before,
                    i, value, answer>>
    BY <1>1 DEF vars, clientVars, requestVars
  <2>2. ClientTypes'
    BY <1>0, <2>1 DEF ClientTypes
  <2>3. HandlerTypes'
    BY <1>0, <2>1 DEF HandlerTypes
  <2>4. HandledSoFar'
    BY <2>1 DEF FormsInv, HandledSoFar, Done
  <2>5. SetsOnlyAsked' /\ AnswerIsTrue'
    BY <2>1 DEF FormsInv, SetsOnlyAsked, AnswerIsTrue, OkMeansStored, NokMeansRefused,
                Contradictory, TickRefused
  <2> QED BY <2>2, <2>3, <2>4, <2>5 DEF FormsInv
<1>2. CASE Next
  <2>1. ClientTypes'
    BY <1>0, <1>2, ClientTypesStep
  <2>2. CASE SetCGIHandler
    BY <2>1, <2>2, HandlerStep, HandlerTypesStep DEF FormsInv
  <2>3. ASSUME NEW script \in BOOLEAN, SubmitForm(script)
        PROVE  HandlerInv'
    <3> DEFINE present == { k \in DOMAIN form : form[k].present }
               pairs == { <<form[k].item, form[k].means[1]>> :
                          k \in { k \in present : form[k].means # <<>> } }
               reg == \A k \in present : RegularField(form[k])
    <3>1. CallSetCGI(FormParams(script), pairs, reg)
      BY <2>3 DEF SubmitForm
    <3>2. FormParams(script) \in Seq(Params) /\ (reg => Regular(FormParams(script), pairs))
      BY <1>0, SubmitFormAsks
    <3> HIDE DEF pairs, reg
    <3> QED BY <1>0, <3>1, <3>2, CallStep
  <2>4. ASSUME TouchStoreValues PROVE HandlerInv'
    <3> DEFINE present == { k \in DOMAIN lines : lines[k].present }
               params == FlattenSeq([k \in DOMAIN lines |-> LineParams(lines[k])])
               pairs == { <<lines[k].item, lines[k].value>> : k \in present }
               reg == \A k \in present : Printed(lines[k].value) = lines[k].value
    <3>1. CallSetCGI(params, pairs, reg)
      BY <2>4 DEF TouchStoreValues
    <3>2. params \in Seq(Params) /\ (reg => Regular(params, pairs))
      BY <1>0, LinesAsk
    <3> HIDE DEF params, pairs, reg
    <3> QED BY <1>0, <3>1, <3>2, CallStep
  <2>5. ASSUME Idle, RequestGone, UNCHANGED store PROVE HandlerInv'
    BY <1>0, <2>5, GoneStep
  <2>6. Clients => \/ \E script \in BOOLEAN : SubmitForm(script)
                   \/ Idle /\ RequestGone /\ UNCHANGED store
    BY DEF Clients, Leave, LoadForm, Enter
  <2>7. Display => \/ TouchStoreValues
                   \/ Idle /\ RequestGone /\ UNCHANGED store
    BY DEF Display, LoadLines, CheckboxAction, OpenEditor, IncreaseValue, DecreaseValue,
           ChangeValue, ExitEditor
  <2>8. CASE Clients \/ Display
    BY <2>1, <2>3, <2>4, <2>5, <2>6, <2>7, <2>8 DEF HandlerInv, FormsInv
  <2> QED BY <1>2, <2>2, <2>8 DEF Next
<1> QED BY <1>1, <1>2

\* What joins the handler's parameters to the values meant holds throughout (io.c).
THEOREM FormsAlwaysInv == Spec => []FormsInv
<1> QED BY InitForms, NextForms, PTL DEF Spec

(***************************************************************************)
(* io.c, valueEditor.c: a parameter of the machine, in whatever text it is *)
(* typed and however many digits it has, is a long, and so is the value    *)
(* the handler compares with; it does not read behind the parameters that  *)
(* extract_uri_parameters has found by more than a pair of a time's.       *)
(***************************************************************************)
THEOREM FormsTypeCorrect == Spec => []TypeOK
<1>1. FormsInv => TypeOK
  <2> SUFFICES ASSUME FormsInv PROVE TypeOK
    OBVIOUS
  <2>1. Len(request) \in Nat /\ Len(request) <= MAX_CGI_PARAMETERS /\ MAX_CGI_PARAMETERS \in Nat
        /\ i \in 1 .. Len(request) + 2
    BY FormsAssumption DEF FormsInv, HandlerTypes, FormsAssumption
  <2>2. i \in 1 .. MAX_CGI_PARAMETERS + 2
    BY <2>1
  <2> QED BY <2>2 DEF FormsInv, HandlerTypes, ClientTypes, TypeOK
<1> QED BY <1>1, FormsAlwaysInv, PTL

(***************************************************************************)
(* SetCGIHandler: for any page, texts and parameters that the machine      *)
(* rejects, at no step of a request in the notation of the page does a     *)
(* parameter have another value than before or the one meant for it.       *)
(***************************************************************************)
THEOREM OnlyAskedIsSet == Spec => []SetsOnlyAsked
<1>1. FormsInv => SetsOnlyAsked
  BY DEF FormsInv
<1> QED BY <1>1, FormsAlwaysInv, PTL

(***************************************************************************)
(* SetCGIHandler: for any page, texts and parameters that the machine      *)
(* rejects, "ok" means that all values meant are stored, and "not ok" that *)
(* one of them was rejected, as far as no checkbox hides it.               *)
(***************************************************************************)
THEOREM AnswersAreTrue == Spec => []AnswerIsTrue
<1>1. FormsInv => AnswerIsTrue
  BY DEF FormsInv
<1> QED BY <1>1, FormsAlwaysInv, PTL
=============================================================================
