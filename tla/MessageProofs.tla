--------------------------- MODULE MessageProofs ---------------------------
(***************************************************************************)
(* What truncate achieves for every text and every limit, and what it and  *)
(* Format promise of every message.                                        *)
(*                                                                         *)
(* oneLine, Join and multiLine are folds: FoldLeft and FlattenSeq choose a *)
(* function that satisfies a recursive equation.  To reason about one, the *)
(* lemmas show by induction that a function exists which takes the fold's  *)
(* steps (FoldExists), and that the chosen one takes the same (FoldResult, *)
(* FoldStays).  Induction itself is NatInduct, over a set of numbers.      *)
(***************************************************************************)
EXTENDS MessageFormat, SequenceTheorems, WellFoundedInduction, TLAPS

-----------------------------------------------------------------------------
(* Induction, and folds over sequences. *)

\* The order of the natural numbers, as a set of pairs.
Less == {p \in Nat \X Nat : p[1] < p[2]}

\* Induction over the natural numbers, for a set of them.
LEMMA NatInduct ==
    ASSUME NEW S, 0 \in S, \A n \in Nat : n \in S => n + 1 \in S
    PROVE  \A n \in Nat : n \in S
<1> DEFINE T == Nat \ S
<1>1. IsWellFoundedOn(Less, Nat)
  BY NatLessThanWellFounded DEF OpToRel, Less
<1>2. SUFFICES ASSUME T # {} PROVE FALSE
  OBVIOUS
<1>3. PICK x \in T : \A y \in T : <<y, x>> \notin Less
  <2>1. T \subseteq Nat
    OBVIOUS
  <2> HIDE DEF T, Less
  <2> QED
    BY <1>1, <1>2, <2>1, WFMin
<1>4. x - 1 \in T /\ x - 1 < x
  OBVIOUS
<1> QED
  BY <1>3, <1>4 DEF Less

\* A set of positions that is not empty has a greatest element, and Max is it.
LEMMA MaxOf ==
    ASSUME NEW n \in Nat, NEW T \in SUBSET (1..n), T # {}
    PROVE  Max(T) \in T /\ \A y \in T : y <= Max(T)
<1> DEFINE Has(U) == U # {} => \E x \in U : \A y \in U : x >= y
           S == {m \in Nat : \A U \in SUBSET (1..m) : Has(U)}
<1>1. 0 \in S
  <2>1. \A U \in SUBSET (1..0) : U = {}
    OBVIOUS
  <2> QED
    BY <2>1
<1>2. ASSUME NEW m \in Nat, m \in S PROVE m + 1 \in S
  <2> SUFFICES ASSUME NEW U \in SUBSET (1..(m + 1)) PROVE Has(U)
    OBVIOUS
  <2>1. CASE m + 1 \in U
    <3>1. \A y \in U : m + 1 >= y
      OBVIOUS
    <3> QED
      BY <2>1, <3>1
  <2>2. CASE m + 1 \notin U
    <3>1. U \in SUBSET (1..m)
      BY <2>2
    <3> QED
      BY <1>2, <3>1
  <2> QED
    BY <2>1, <2>2
<1>3. \A m \in Nat : m \in S
  <2> HIDE DEF S
  <2> QED
    BY <1>1, <1>2, NatInduct
<1>4. PICK x \in T : \A y \in T : x >= y
  BY <1>3
<1>5. Max(T) \in T /\ \A y \in T : Max(T) >= y
  BY <1>4 DEF Max
<1> QED
  BY <1>5

\* A set of positions up to n + 1 that holds n + 1 has it as its greatest element.
LEMMA TopIsMax ==
    ASSUME NEW n \in Nat, NEW T \in SUBSET (1..(n + 1)), n + 1 \in T
    PROVE  Max(T) = n + 1
<1>1. T # {} /\ n + 1 \in Nat
  OBVIOUS
<1>2. Max(T) \in T /\ \A y \in T : y <= Max(T)
  BY <1>1, MaxOf
<1>3. Max(T) \in 1..(n + 1) /\ n + 1 <= Max(T)
  <2>1. n + 1 <= Max(T)
    BY <1>2, Zenon
  <2>2. Max(T) \in 1..(n + 1)
    BY <1>2, Zenon
  <2> QED
    BY <2>1, <2>2
<1> QED
  BY <1>3

\* h folds every set of positions of s, as FoldLeft does for all of them.
Folding(h, s, base, step) ==
    \A T \in SUBSET (1..Len(s)) :
        h[T] = IF T = {} THEN base ELSE step[<<h[T \ {Max(T)}], s[Max(T)]>>]

\* g[m] is the fold of the first m elements of s, and result that of all.
Stepping(g, s, base, step, result) ==
    /\ g[0] = base
    /\ \A m \in 1..Len(s) : g[m] = step[<<g[m - 1], s[m]>>]
    /\ result = g[Len(s)]

\* Whatever the step, there is a function that folds s by it.
LEMMA FoldExists ==
    ASSUME NEW X, NEW D, NEW s \in Seq(D), NEW base \in X, NEW step \in [X \X D -> X]
    PROVE  \E h \in [SUBSET (1..Len(s)) -> X] : Folding(h, s, base, step)
<1> DEFINE Folds(h, n) == \A T \in SUBSET (1..n) :
              h[T] = IF T = {} THEN base ELSE step[<<h[T \ {Max(T)}], s[Max(T)]>>]
           Exists(n) == \E h \in [SUBSET (1..n) -> X] : Folds(h, n)
           S == {n \in Nat : n <= Len(s) => Exists(n)}
<1>1. 0 \in S
  <2> DEFINE h == [T \in SUBSET (1..0) |-> base]
  <2>1. h \in [SUBSET (1..0) -> X] /\ \A T \in SUBSET (1..0) : T = {} /\ h[T] = base
    OBVIOUS
  <2>2. Folds(h, 0)
    BY <2>1
  <2> HIDE DEF h
  <2> QED
    BY <2>1, <2>2
<1>2. ASSUME NEW n \in Nat, n \in S PROVE n + 1 \in S
  <2> HIDE DEF Exists
  <2> SUFFICES ASSUME n + 1 <= Len(s)
               PROVE  Exists(n + 1)
    OBVIOUS
  <2>0. Exists(n)
    BY <1>2
  <2> USE DEF Exists
  <2> HIDE DEF Folds
  <2>1. PICK h \in [SUBSET (1..n) -> X] : Folds(h, n)
    BY <2>0
  <2> DEFINE k == [T \in SUBSET (1..(n + 1)) |->
                     IF n + 1 \in T THEN step[<<h[T \ {n + 1}], s[n + 1]>>] ELSE h[T]]
  <2>2. ASSUME NEW T \in SUBSET (1..(n + 1)), n + 1 \in T
        PROVE  /\ T \ {n + 1} \in SUBSET (1..n) /\ n + 1 \notin T \ {n + 1}
               /\ Max(T) = n + 1
               /\ k[T] = step[<<h[T \ {n + 1}], s[n + 1]>>]
               /\ k[T] \in X
               /\ k[T \ {n + 1}] = h[T \ {n + 1}]
    <3>1. T \ {n + 1} \in SUBSET (1..n) /\ T # {} /\ T \ {n + 1} \in SUBSET (1..(n + 1))
      BY <2>2
    <3>2. Max(T) = n + 1
      BY <2>2, TopIsMax
    <3>3. k[T] = step[<<h[T \ {n + 1}], s[n + 1]>>]
      BY <2>2
    <3>4. h[T \ {n + 1}] \in X /\ s[n + 1] \in D
      BY <2>1, <3>1
    <3> QED
      BY <3>1, <3>2, <3>3, <3>4
  <2>3. ASSUME NEW T \in SUBSET (1..(n + 1)), n + 1 \notin T
        PROVE  /\ T \in SUBSET (1..n)
               /\ k[T] = h[T] /\ k[T] \in X
               /\ T # {} => T \ {Max(T)} \in SUBSET (1..n) /\ k[T \ {Max(T)}] = h[T \ {Max(T)}]
    <3>0. T \in SUBSET (1..n)
      BY <2>3
    <3>1. T \in SUBSET (1..n) /\ \A y : T \ {y} \in SUBSET (1..n)
      BY <3>0, Zenon
    <3>2. \A U \in SUBSET (1..n) : k[U] = h[U] /\ h[U] \in X
      OBVIOUS
    <3> QED
      BY <3>1, <3>2
  <2>4. k \in [SUBSET (1..(n + 1)) -> X]
    <3>1. \A T \in SUBSET (1..(n + 1)) : k[T] \in X
      BY <2>2, <2>3
    <3> QED
      BY <3>1
  <2>5. Folds(k, n + 1)
    <3> USE DEF Folds
    <3> SUFFICES ASSUME NEW T \in SUBSET (1..(n + 1))
                 PROVE  k[T] = IF T = {} THEN base ELSE step[<<k[T \ {Max(T)}], s[Max(T)]>>]
      OBVIOUS
    <3> HIDE DEF k
    <3>1. CASE n + 1 \in T
      BY <2>2, <3>1
    <3>2. CASE n + 1 \notin T
      BY <2>1, <2>3, <3>2
    <3> QED
      BY <3>1, <3>2
  <2> HIDE DEF k
  <2> QED
    BY <2>4, <2>5
<1>3. Len(s) \in S
  <2> HIDE DEF S
  <2> QED
    <3>1. Len(s) \in Nat
      OBVIOUS
    <3> QED
      BY <1>1, <1>2, <3>1, NatInduct
<1>4. Exists(Len(s))
  <2> HIDE DEF Exists
  <2> QED
    BY <1>3
<1> QED
  BY <1>4 DEF Folding

\* The positions up to m are those up to m - 1 and m, their greatest.
LEMMA Initials ==
    ASSUME NEW m \in Nat \ {0}
    PROVE  1..m # {} /\ Max(1..m) = m /\ (1..m) \ {m} = 1..(m - 1)
<1>1. m - 1 \in Nat /\ 1..m \in SUBSET (1..((m - 1) + 1)) /\ (m - 1) + 1 \in 1..m
  OBVIOUS
<1>2. Max(1..m) = (m - 1) + 1
  BY <1>1, TopIsMax
<1> QED
  BY <1>2

\* A set that holds the base and is closed under the step holds every result.
LEMMA FoldStays ==
    ASSUME NEW X, NEW n \in Nat, NEW f, f[{}] \in X,
           \A T \in SUBSET (1..n) : T # {} /\ f[T \ {Max(T)}] \in X => f[T] \in X
    PROVE  \A m \in 0..n : f[1..m] \in X
<1> DEFINE S == {m \in Nat : m <= n => f[1..m] \in X}
<1>1. 0 \in S
  <2>1. 1..0 = {}
    OBVIOUS
  <2> QED
    BY <2>1
<1>2. ASSUME NEW m \in Nat, m \in S PROVE m + 1 \in S
  <2> SUFFICES ASSUME m + 1 <= n PROVE f[1..(m + 1)] \in X
    OBVIOUS
  <2> DEFINE T == 1..(m + 1)
  <2>1. T \in SUBSET (1..n)
    OBVIOUS
  <2>2. T # {} /\ T \ {Max(T)} = 1..m
    <3>1. m + 1 \in Nat \ {0} /\ (m + 1) - 1 = m
      OBVIOUS
    <3> QED
      BY <3>1, Initials
  <2>3. f[1..m] \in X
    BY <1>2
  <2> HIDE DEF T
  <2>4. f[T] \in X
    BY <2>1, <2>2, <2>3
  <2> QED
    BY <2>4 DEF T
<1>3. \A m \in Nat : m \in S
  <2> HIDE DEF S
  <2> QED
    BY <1>1, <1>2, NatInduct
<1> QED
  BY <1>3
\* F folds s by step as long as the results stay in X.
Unfolds(F, X, s, base, step) ==
    /\ F[{}] = base
    /\ \A T \in SUBSET (1..Len(s)) : T # {} /\ F[T \ {Max(T)}] \in X
          => F[T] = step[<<F[T \ {Max(T)}], s[Max(T)]>>]

\* A function that folds s by step takes the steps one by one.
LEMMA FoldResult ==
    ASSUME NEW X, NEW D, NEW s \in Seq(D), NEW base \in X, NEW step \in [X \X D -> X],
           NEW F, Unfolds(F, X, s, base, step)
    PROVE  \E g \in [0..Len(s) -> X] : Stepping(g, s, base, step, F[1..Len(s)])
<1> DEFINE n == Len(s)
           g == [m \in 0..n |-> F[1..m]]
<1>1. n \in Nat
  OBVIOUS
<1>2. /\ F[{}] = base
      /\ \A T \in SUBSET (1..Len(s)) : T # {} /\ F[T \ {Max(T)}] \in X
             => F[T] = step[<<F[T \ {Max(T)}], s[Max(T)]>>]
  BY DEF Unfolds
<1>3. ASSUME NEW T \in SUBSET (1..n), T # {}, F[T \ {Max(T)}] \in X
      PROVE  F[T] \in X
  <2>1. Max(T) \in 1..n
    BY <1>1, <1>3, MaxOf
  <2>2. s[Max(T)] \in D
    BY <2>1, ElementOfSeq
  <2>3. step[<<F[T \ {Max(T)}], s[Max(T)]>>] \in X
    BY <1>3, <2>2
  <2> QED
    BY <1>2, <1>3, <2>3
<1> HIDE DEF n
<1>4. \A m \in 0..n : F[1..m] \in X
  BY <1>1, <1>2, <1>3, FoldStays
<1>5. g \in [0..n -> X] /\ g[0] = base /\ F[1..n] = g[n]
  <2>1. 1..0 = {}
    OBVIOUS
  <2> QED
    BY <1>1, <1>2, <1>4, <2>1
<1>6. ASSUME NEW m \in 1..n PROVE g[m] = step[<<g[m - 1], s[m]>>]
  <2>1. m \in Nat \ {0} /\ 1..m \in SUBSET (1..n) /\ m - 1 \in 0..n /\ m \in 0..n
    BY <1>1
  <2>2. 1..m # {} /\ Max(1..m) = m /\ (1..m) \ {m} = 1..(m - 1)
    BY <2>1, Initials
  <2>3. g[m - 1] = F[1..(m - 1)] /\ g[m] = F[1..m]
    BY <2>1
  <2>4. F[1..(m - 1)] \in X
    BY <1>4, <2>1
  <2> HIDE DEF g
  <2> QED
    BY <1>2, <2>1, <2>2, <2>3, <2>4 DEF n
<1> HIDE DEF g
<1> QED
  BY <1>5, <1>6 DEF n, Stepping

\* A sequence can be run through step by step.
LEMMA StepsExist ==
    ASSUME NEW X, NEW D, NEW s \in Seq(D), NEW base \in X, NEW step \in [X \X D -> X]
    PROVE  \E result : \E g \in [0..Len(s) -> X] : Stepping(g, s, base, step, result)
<1>1. PICK h \in [SUBSET (1..Len(s)) -> X] : Folding(h, s, base, step)
  BY FoldExists
<1>2. Unfolds(h, X, s, base, step)
  BY <1>1 DEF Folding, Unfolds
<1> QED
  BY <1>2, FoldResult

\* What holds at the beginning and is kept by every step holds throughout.
LEMMA StepsStay ==
    ASSUME NEW n \in Nat, NEW g, NEW X, g[0] \in X,
           \A m \in 1..n : g[m - 1] \in X => g[m] \in X
    PROVE  \A m \in 0..n : g[m] \in X
<1> DEFINE S == {m \in Nat : m <= n => g[m] \in X}
<1>1. 0 \in S
  OBVIOUS
<1>2. ASSUME NEW m \in Nat, m \in S PROVE m + 1 \in S
  <2> SUFFICES ASSUME m + 1 <= n PROVE g[m + 1] \in X
    OBVIOUS
  <2>1. m + 1 \in 1..n /\ (m + 1) - 1 = m /\ g[m] \in X
    BY <1>2
  <2> QED
    BY <2>1
<1>3. \A m \in Nat : m \in S
  <2> HIDE DEF S
  <2> QED
    BY <1>1, <1>2, NatInduct
<1> QED
  BY <1>3
-----------------------------------------------------------------------------
(* Texts. *)

\* A set of positions that is not empty has a smallest element, and Min is it.
LEMMA MinOf ==
    ASSUME NEW n \in Nat, NEW T \in SUBSET (1..n), T # {}
    PROVE  Min(T) \in T /\ \A y \in T : Min(T) <= y
<1>1. IsWellFoundedOn(Less, Nat)
  BY NatLessThanWellFounded DEF OpToRel, Less
<1>2. T \subseteq Nat
  OBVIOUS
<1>3. PICK x \in T : \A y \in T : <<y, x>> \notin Less
  <2> HIDE DEF Less
  <2> QED
    BY <1>1, <1>2, WFMin
<1>4. \A y \in T : x =< y
  <2> TAKE y \in T
  <2>1. x \in Nat /\ y \in Nat /\ <<y, x>> \notin Less
    BY <1>2, <1>3
  <2> QED
    BY <2>1 DEF Less
<1>5. Min(T) \in T /\ \A y \in T : Min(T) =< y
  BY <1>4 DEF Min
<1> QED
  BY <1>5

\* Two texts, one after the other, are a text.
LEMMA TextConcat ==
    ASSUME NEW t \in Text, NEW u \in Text PROVE t \o u \in Text
BY ConcatProperties DEF Text

\* Of three texts in a row it does not matter which two are put together first.
LEMMA TextAssociative ==
    ASSUME NEW t \in Text, NEW u \in Text, NEW v \in Text
    PROVE  (t \o u) \o v = t \o (u \o v)
<1>1. t \in Seq(Characters) /\ u \in Seq(Characters) /\ v \in Seq(Characters)
  BY DEF Text
<1> QED
  BY <1>1, ConcatAssociative

\* A part of a text is a text.
LEMMA TextPart ==
    ASSUME NEW t \in Text, NEW i \in 1..(Len(t) + 1), NEW j \in 0..Len(t)
    PROVE  SubSeq(t, i, j) \in Text
<1>1. \A k \in i..j : t[k] \in Characters
  BY DEF Text
<1> QED
  BY <1>1, SubSeqProperties DEF Text

\* strings.TrimSpace makes a text of a text.
LEMMA TextTrimmed ==
    ASSUME NEW t \in Text
    PROVE  TrimSpace(t) \in Text
<1> DEFINE n == Len(t)
           V == Visible(t)
<1>1. n \in Nat /\ V \in SUBSET (1..n)
  BY DEF Text, Visible
<1>2. CASE V = {}
  BY <1>2 DEF TrimSpace, Text
<1>3. CASE V # {}
  <2> HIDE DEF n, V
  <2>1. Min(V) \in 1..n /\ Max(V) \in 1..n
    BY <1>1, <1>3, MinOf, MaxOf
  <2>2. SubSeq(t, Min(V), Max(V)) \in Text
    BY <1>1, <2>1, TextPart DEF n
  <2> QED
    BY <1>3, <2>2 DEF TrimSpace, V
<1> QED
  BY <1>2, <1>3

\* A line break is a text, and so is a space.
LEMMA NewLine == <<"nl">> \in Text /\ <<"sp">> \in Text
BY CharactersAssumption DEF Text

\* Join appends the lines one by one.
LEMMA Joining ==
    ASSUME NEW lines \in Seq(Text), lines # <<>>
    PROVE  \E g \in [0..Len(Tail(lines)) -> Text] :
              /\ g[0] = Head(lines)
              /\ \A m \in 1..Len(Tail(lines)) : g[m] = g[m - 1] \o <<"nl">> \o Tail(lines)[m]
              /\ Join(lines) = g[Len(Tail(lines))]
<1> DEFINE base == Head(lines)
           s == Tail(lines)
           Op(text, line) == text \o <<"nl">> \o line
           step == [p \in Text \X Text |-> Op(p[1], p[2])]
           Raw(f) == f = [T \in SUBSET DOMAIN s |->
                             IF T = {} THEN base ELSE Op(f[T \ {Max(T)}], s[Max(T)])]
           F == CHOOSE f : Raw(f)
<1>1. base \in Text /\ s \in Seq(Text) /\ DOMAIN s = 1..Len(s) /\ Len(s) \in Nat
  BY HeadTailProperties, LenProperties
<1>2. ASSUME NEW t \in Text, NEW u \in Text PROVE Op(t, u) \in Text /\ step[<<t, u>>] = Op(t, u)
  <2>1. t \o <<"nl">> \in Text
    BY NewLine, TextConcat
  <2>2. (t \o <<"nl">>) \o u \in Text
    BY <2>1, TextConcat
  <2> QED
    BY <2>2
<1>3. step \in [Text \X Text -> Text]
  BY <1>2
<1>4. Join(lines) = F[DOMAIN s]
  BY DEF Join, FoldLeft, MapThenFoldSet
<1>5. \A T \in SUBSET (1..Len(s)) : T # {} => s[Max(T)] \in Text
  <2>1. \A T \in SUBSET (1..Len(s)) : T # {} => Max(T) \in 1..Len(s)
    BY <1>1, MaxOf
  <2> QED
    BY <1>1, <2>1, ElementOfSeq
<1> HIDE DEF base, s, Op, step
<1>6. Raw(F)
  <2>1. PICK h \in [SUBSET (1..Len(s)) -> Text] : Folding(h, s, base, step)
    BY <1>1, <1>3, FoldExists
  <2>2. ASSUME NEW T \in SUBSET (1..Len(s)), T # {}
        PROVE  step[<<h[T \ {Max(T)}], s[Max(T)]>>] = Op(h[T \ {Max(T)}], s[Max(T)])
    BY <1>2, <1>5, <2>2
  <2>3. Raw(h)
    BY <1>1, <2>1, <2>2 DEF Folding
  <2> HIDE DEF Raw
  <2> QED
    BY <2>3
<1> HIDE DEF F
<1>7. Unfolds(F, Text, s, base, step)
  <2>1. F[{}] = base
    BY <1>1, <1>6
  <2>2. ASSUME NEW T \in SUBSET (1..Len(s)), T # {}, F[T \ {Max(T)}] \in Text
        PROVE  F[T] = step[<<F[T \ {Max(T)}], s[Max(T)]>>]
    <3>1. F[T] = Op(F[T \ {Max(T)}], s[Max(T)])
      BY <1>1, <1>6, <2>2
    <3>2. step[<<F[T \ {Max(T)}], s[Max(T)]>>] = Op(F[T \ {Max(T)}], s[Max(T)])
      BY <1>2, <1>5, <2>2
    <3> QED
      BY <3>1, <3>2
  <2> HIDE DEF Raw
  <2> QED
    BY <2>1, <2>2 DEF Unfolds
<1>8. PICK g \in [0..Len(s) -> Text] : Stepping(g, s, base, step, F[1..Len(s)])
  BY <1>1, <1>3, <1>7, FoldResult
<1>9. \A m \in 1..Len(s) : g[m - 1] \in Text /\ s[m] \in Text
  BY <1>1, ElementOfSeq
<1>10. g[0] = base /\ \A m \in 1..Len(s) : g[m] = Op(g[m - 1], s[m])
  BY <1>2, <1>8, <1>9 DEF Stepping
<1>11. Join(lines) = g[Len(s)]
  BY <1>1, <1>4, <1>8 DEF Stepping
<1> QED
  BY <1>10, <1>11 DEF base, s, Op

\* What the lines have in common, and joining them keeps, the joined text has.
LEMMA Joined ==
    ASSUME NEW X \in SUBSET Text, NEW Y \in SUBSET Text,
           NEW lines \in Seq(Y), lines # <<>>, Head(lines) \in X,
           \A t \in X, u \in Y : t \o <<"nl">> \o u \in X
    PROVE  Join(lines) \in X
<1> DEFINE n == Len(Tail(lines))
<1>1. lines \in Seq(Text) /\ n \in Nat /\ \A m \in 1..n : Tail(lines)[m] \in Y
  BY HeadTailProperties
<1>2. PICK g \in [0..n -> Text] :
              /\ g[0] = Head(lines)
              /\ \A m \in 1..n : g[m] = g[m - 1] \o <<"nl">> \o Tail(lines)[m]
              /\ Join(lines) = g[n]
  BY <1>1, Joining
<1> HIDE DEF n
<1>3. \A m \in 1..n : g[m - 1] \in X => g[m] \in X
  BY <1>1, <1>2
<1>4. \A m \in 0..n : g[m] \in X
  <2>1. g[0] \in X
    BY <1>2
  <2> QED
    BY <1>1, <1>3, <2>1, StepsStay
<1> QED
  BY <1>1, <1>2, <1>4

\* The empty text adds nothing, before or after another.
LEMMA EmptyFirst ==
    ASSUME NEW t \in Text
    PROVE  <<>> \o t = t /\ t \o <<>> = t
BY DEF Text

\* Flattening appends one text after the other.
LEMMA Flattened ==
    ASSUME NEW q \in Seq(Text)
    PROVE  \E g \in [0..Len(q) -> Text] :
              /\ g[0] = <<>>
              /\ \A m \in 1..Len(q) : g[m] = g[m - 1] \o q[m]
              /\ FlattenSeq(q) = g[Len(q)]
<1> DEFINE n == Len(q)
           step == [p \in Text \X Text |-> p[1] \o p[2]]
           Raw(f) == f = [i \in 1..n |-> IF i = 1 THEN q[i] ELSE f[i - 1] \o q[i]]
           F == CHOOSE f : Raw(f)
<1>1. <<>> \in Text /\ step \in [Text \X Text -> Text] /\ n \in Nat
  <2>1. step \in [Text \X Text -> Text]
    BY TextConcat
  <2> QED
    BY <2>1 DEF Text
<1>2. PICK r : \E g \in [0..n -> Text] : Stepping(g, q, <<>>, step, r)
  BY <1>1, StepsExist
<1>3. PICK g \in [0..n -> Text] : Stepping(g, q, <<>>, step, r)
  BY <1>2
<1>4. \A m \in 1..n : q[m] \in Text /\ g[m - 1] \in Text
  BY <1>1, ElementOfSeq
<1>5. g[0] = <<>> /\ \A m \in 1..n : g[m] = g[m - 1] \o q[m]
  BY <1>3, <1>4 DEF Stepping
<1>6. CASE n = 0
  <2>1. FlattenSeq(q) = <<>>
    BY <1>6 DEF FlattenSeq
  <2> QED
    BY <1>5, <1>6, <2>1
<1>7. CASE n # 0
  <2>1. FlattenSeq(q) = F[n]
    BY <1>7 DEF FlattenSeq
  <2> HIDE DEF n
  <2>2. Raw(F)
    <3> DEFINE k == [i \in 1..n |-> g[i]]
    <3>1. ASSUME NEW i \in 1..n PROVE k[i] = IF i = 1 THEN q[i] ELSE k[i - 1] \o q[i]
      <4>1. CASE i = 1
        <5>1. 1 \in 1..n /\ 1 - 1 = 0
          BY <1>1, <4>1
        <5>2. g[1] = <<>> \o q[1] /\ q[1] \in Text
          BY <1>4, <1>5, <5>1
        <5>3. g[1] = q[1]
          BY <5>2, EmptyFirst
        <5> QED
          BY <4>1, <5>1, <5>3
      <4>2. CASE i # 1
        <5>1. i - 1 \in 1..n
          BY <1>1, <4>2
        <5> QED
          BY <1>5, <4>2, <5>1
      <4> QED
        BY <4>1, <4>2
    <3>2. Raw(k)
      <4> DEFINE e(i) == IF i = 1 THEN q[i] ELSE k[i - 1] \o q[i]
      <4>1. k = [i \in 1..n |-> k[i]]
        OBVIOUS
      <4>2. \A i \in 1..n : k[i] = e(i)
        BY <3>1
      <4> HIDE DEF k, e
      <4>3. [i \in 1..n |-> k[i]] = [i \in 1..n |-> e(i)]
        BY <4>2
      <4> QED
        BY <4>1, <4>3 DEF e
    <3> HIDE DEF Raw, k
    <3> QED
      BY <3>2
  <2> HIDE DEF F
  <2>3. \A i \in 1..n : F[i] = IF i = 1 THEN q[i] ELSE F[i - 1] \o q[i]
    BY <2>2
  <2>4. \A m \in Nat : m \in {i \in Nat : i \in 1..n => F[i] = g[i]}
    <3> DEFINE S == {i \in Nat : i \in 1..n => F[i] = g[i]}
    <3>1. 0 \in S
      OBVIOUS
    <3>2. ASSUME NEW i \in Nat, i \in S PROVE i + 1 \in S
      <4> SUFFICES ASSUME i + 1 \in 1..n PROVE F[i + 1] = g[i + 1]
        OBVIOUS
      <4>1. g[i + 1] = g[i] \o q[i + 1]
        <5>1. (i + 1) - 1 = i
          OBVIOUS
        <5> QED
          BY <1>5, <5>1
      <4>2. CASE i = 0
        <5>1. 1 \in 1..n /\ i + 1 = 1 /\ 1 - 1 = 0
          BY <1>1, <4>2
        <5>2. F[1] = q[1] /\ q[1] \in Text
          BY <1>4, <2>3, <5>1
        <5>3. g[1] = <<>> \o q[1]
          BY <1>5, <5>1
        <5>4. g[1] = q[1]
          BY <5>2, <5>3, EmptyFirst
        <5> QED
          BY <4>2, <5>2, <5>4
      <4>3. CASE i # 0
        <5>1. i \in 1..n /\ i + 1 # 1 /\ (i + 1) - 1 = i
          BY <1>1, <4>3
        <5>2. F[i + 1] = F[i] \o q[i + 1]
          BY <2>3, <5>1
        <5> QED
          BY <3>2, <4>1, <5>1, <5>2
      <4> QED
        BY <4>2, <4>3
    <3> HIDE DEF S
    <3>3. \A m \in Nat : m \in S
      BY <3>1, <3>2, NatInduct
    <3> QED
      BY <3>3 DEF S
  <2>5. F[n] = g[n]
    BY <1>1, <1>7, <2>4
  <2> QED
    BY <1>5, <2>1, <2>5 DEF n
<1> QED
  BY <1>6, <1>7
-----------------------------------------------------------------------------
(* One line, or several. *)

\* What oneLine does with the next character.
Squeezed(line, c) ==
    IF c \notin Space THEN Append(line, c)
    ELSE IF Last(line) = "sp" THEN line
    ELSE Append(line, "sp")

\* A text with a character appended, or squeezed in, is a text.
LEMMA TextAppend ==
    ASSUME NEW t \in Text, NEW c \in Characters
    PROVE  Append(t, c) \in Text /\ Append(t, "sp") \in Text /\ Squeezed(t, c) \in Text
<1>1. "sp" \in Characters
  BY CharactersAssumption
<1>2. Append(t, c) \in Text /\ Append(t, "sp") \in Text
  BY <1>1, AppendProperties DEF Text
<1> QED
  BY <1>2 DEF Squeezed

\* oneLine squeezes in the characters of the trimmed text one by one.
LEMMA Squeezing ==
    ASSUME NEW t \in Text
    PROVE  \E g \in [0..Len(TrimSpace(t)) -> Text] :
              /\ g[0] = <<>>
              /\ \A m \in 1..Len(TrimSpace(t)) : g[m] = Squeezed(g[m - 1], TrimSpace(t)[m])
              /\ oneLine(t) = g[Len(TrimSpace(t))]
<1> DEFINE s == TrimSpace(t)
           step == [p \in Text \X Characters |-> Squeezed(p[1], p[2])]
           Raw(f) == f = [T \in SUBSET DOMAIN s |->
                             IF T = {} THEN <<>> ELSE Squeezed(f[T \ {Max(T)}], s[Max(T)])]
           F == CHOOSE f : Raw(f)
<1>1. <<>> \in Text /\ s \in Seq(Characters) /\ DOMAIN s = 1..Len(s) /\ Len(s) \in Nat
  BY TextTrimmed, LenProperties DEF Text
<1>2. ASSUME NEW u \in Text, NEW c \in Characters
      PROVE  Squeezed(u, c) \in Text /\ step[<<u, c>>] = Squeezed(u, c)
  BY TextAppend
<1>3. step \in [Text \X Characters -> Text]
  BY <1>2
<1>4. oneLine(t) = F[DOMAIN s]
  BY DEF oneLine, FoldLeft, MapThenFoldSet, Squeezed
<1>5. \A T \in SUBSET (1..Len(s)) : T # {} => s[Max(T)] \in Characters
  <2>1. \A T \in SUBSET (1..Len(s)) : T # {} => Max(T) \in 1..Len(s)
    BY <1>1, MaxOf
  <2> QED
    BY <1>1, <2>1, ElementOfSeq
<1> HIDE DEF s, step
<1>6. Raw(F)
  <2>1. PICK h \in [SUBSET (1..Len(s)) -> Text] : Folding(h, s, <<>>, step)
    BY <1>1, <1>3, FoldExists
  <2>2. ASSUME NEW T \in SUBSET (1..Len(s)), T # {}
        PROVE  step[<<h[T \ {Max(T)}], s[Max(T)]>>] = Squeezed(h[T \ {Max(T)}], s[Max(T)])
    BY <1>2, <1>5, <2>2
  <2>3. Raw(h)
    BY <1>1, <2>1, <2>2 DEF Folding
  <2> HIDE DEF Raw
  <2> QED
    BY <2>3
<1> HIDE DEF F
<1>7. Unfolds(F, Text, s, <<>>, step)
  <2>1. F[{}] = <<>>
    BY <1>1, <1>6
  <2>2. ASSUME NEW T \in SUBSET (1..Len(s)), T # {}, F[T \ {Max(T)}] \in Text
        PROVE  F[T] = step[<<F[T \ {Max(T)}], s[Max(T)]>>]
    <3>1. F[T] = Squeezed(F[T \ {Max(T)}], s[Max(T)])
      BY <1>1, <1>6, <2>2
    <3>2. step[<<F[T \ {Max(T)}], s[Max(T)]>>] = Squeezed(F[T \ {Max(T)}], s[Max(T)])
      BY <1>2, <1>5, <2>2
    <3> QED
      BY <3>1, <3>2
  <2> HIDE DEF Raw
  <2> QED
    BY <2>1, <2>2 DEF Unfolds
<1>8. PICK g \in [0..Len(s) -> Text] : Stepping(g, s, <<>>, step, F[1..Len(s)])
  BY <1>1, <1>3, <1>7, FoldResult
<1>9. \A m \in 1..Len(s) : g[m - 1] \in Text /\ s[m] \in Characters
  BY <1>1, ElementOfSeq
<1>10. g[0] = <<>> /\ \A m \in 1..Len(s) : g[m] = Squeezed(g[m - 1], s[m])
  BY <1>2, <1>8, <1>9 DEF Stepping
<1>11. oneLine(t) = g[Len(s)]
  BY <1>1, <1>4, <1>8 DEF Stepping
<1> QED
  BY <1>10, <1>11 DEF s

\* gatus.oneLine makes a text of a text.
LEMMA OneLineText ==
    ASSUME NEW t \in Text
    PROVE  oneLine(t) \in Text
<1>1. Len(TrimSpace(t)) \in Nat
  BY TextTrimmed DEF Text
<1> QED
  BY <1>1, Squeezing

\* Texts, one after the other, are a text.
LEMMA FlatText ==
    ASSUME NEW q \in Seq(Text)
    PROVE  FlattenSeq(q) \in Text
<1>1. Len(q) \in 0..Len(q)
  OBVIOUS
<1>2. PICK g \in [0..Len(q) -> Text] : FlattenSeq(q) = g[Len(q)]
  BY Flattened
<1> QED
  BY <1>1, <1>2

\* What becomes of the i-th character.
Broken(t, i) ==
    IF t[i] = "cr" THEN <<"nl">>
    ELSE IF t[i] = "nl" /\ i > 1 /\ t[i - 1] = "cr" THEN <<>>
    ELSE <<t[i]>>

\* gatus.multiLine makes a text of a text.
LEMMA MultiLineText ==
    ASSUME NEW t \in Text
    PROVE  multiLine(t) \in Text
<1> DEFINE q == [i \in DOMAIN t |-> Broken(t, i)]
<1>1. multiLine(t) = TrimSpace(FlattenSeq(q))
  BY DEF multiLine, Broken
<1>2. ASSUME NEW i \in DOMAIN t PROVE Broken(t, i) \in Text
  <2>1. <<t[i]>> \in Text /\ <<>> \in Text
    BY DEF Text
  <2> QED
    BY <2>1, NewLine DEF Broken
<1>3. q \in Seq(Text)
  <2>1. DOMAIN t = 1..Len(t) /\ Len(t) \in Nat
    BY DEF Text
  <2> QED
    BY <1>2, <2>1
<1> HIDE DEF q
<1> QED
  BY <1>1, <1>3, FlatText, TextTrimmed
-----------------------------------------------------------------------------
(* What Format joins. *)

\* What Format joins.
FormatLines(a) ==
    << oneLine(a.state), Labelled("Endpoint", oneLine(LogValue(a))) >>
    \o IfAny("URL", oneLine(a.url))
    \o IfAny("Description", multiLine(a.description))
    \o IfAny("Errors", multiLine(a.errors))

\* Alert.LogValue is a text.
LEMMA LogValueText ==
    ASSUME NEW a \in Alert
    PROVE  LogValue(a) \in Text
<1>1. TrimSpace(a.group) \in Text /\ TrimSpace(a.name) \in Text
  BY TextTrimmed DEF Alert
<1>2. <<>> \in Text /\ <<"sp", "/", "sp">> \in Text
  BY CharactersAssumption DEF Text
<1> QED
  BY <1>1, <1>2, TextConcat DEF LogValue

\* A labelled value is a text, and IfAny gives at most one.
LEMMA LineText ==
    ASSUME NEW label \in Characters, NEW value \in Text
    PROVE  Labelled(label, value) \in Text /\ IfAny(label, value) \in Seq(Text)
<1>1. <<label, ":", "sp">> \in Text
  BY CharactersAssumption DEF Text
<1>2. Labelled(label, value) \in Text
  BY <1>1, TextConcat DEF Labelled
<1> QED
  BY <1>2 DEF IfAny

\* The lines that Format joins are texts, the state first.
LEMMA LinesText ==
    ASSUME NEW a \in Alert
    PROVE  /\ FormatLines(a) \in Seq(Text) /\ FormatLines(a) # <<>>
           /\ Head(FormatLines(a)) = oneLine(a.state)
<1> DEFINE two == << oneLine(a.state), Labelled("Endpoint", oneLine(LogValue(a))) >>
           u == IfAny("URL", oneLine(a.url))
           d == IfAny("Description", multiLine(a.description))
           e == IfAny("Errors", multiLine(a.errors))
<1>1. "Endpoint" \in Characters /\ "URL" \in Characters /\ "Description" \in Characters
      /\ "Errors" \in Characters
  BY CharactersAssumption
<1>2. oneLine(a.state) \in Text /\ oneLine(a.url) \in Text /\ oneLine(LogValue(a)) \in Text
      /\ multiLine(a.description) \in Text /\ multiLine(a.errors) \in Text
  BY OneLineText, MultiLineText, LogValueText DEF Alert
<1>3. Labelled("Endpoint", oneLine(LogValue(a))) \in Text
      /\ u \in Seq(Text) /\ d \in Seq(Text) /\ e \in Seq(Text)
  BY <1>1, <1>2, LineText
<1>4. two \in Seq(Text) /\ Len(two) = 2 /\ two[1] = oneLine(a.state)
  BY <1>2, <1>3
<1> HIDE DEF two, u, d, e
<1> DEFINE Starts(q) == q \in Seq(Text) /\ Len(q) >= 2 /\ q[1] = two[1]
<1>5. ASSUME NEW q, Starts(q), NEW r \in Seq(Text)
      PROVE  Starts(q \o r)
  BY <1>5, ConcatProperties
<1>6. Starts(two \o u \o d \o e)
  <2>1. Starts(two)
    BY <1>4
  <2> HIDE DEF Starts
  <2> QED
    BY <1>3, <1>5, <2>1
<1>7. FormatLines(a) = two \o u \o d \o e
  BY DEF FormatLines, two, u, d, e
<1> QED
  BY <1>4, <1>6, <1>7, HeadTailProperties

\* gatus.withPrefix makes a text of two.
LEMMA PrefixText ==
    ASSUME NEW value \in Text, NEW p \in Text
    PROVE  withPrefix(value, p) \in Text
BY TextTrimmed, TextConcat, NewLine DEF withPrefix

\* What Format makes of an alert before it is cut to size.
LEMMA Formatted ==
    ASSUME NEW a \in Alert, NEW p \in Text
    PROVE  /\ Join(FormatLines(a)) \in Text
           /\ \A max : Format(a, p, max) = truncate(withPrefix(Join(FormatLines(a)), p), max)
<1>1. Join(FormatLines(a)) \in Text
  <2>1. Head(FormatLines(a)) \in Text
    BY LinesText, OneLineText DEF Alert
  <2>2. \A t \in Text, u \in Text : t \o <<"nl">> \o u \in Text
    BY NewLine, TextConcat
  <2> QED
    BY <2>1, <2>2, LinesText, Joined
<1>2. \A max : Format(a, p, max) = truncate(withPrefix(Join(FormatLines(a)), p), max)
  BY DEF Format, FormatLines
<1> QED
  BY <1>1, <1>2
-----------------------------------------------------------------------------
(* Shortening. *)

\* The first n characters of a text are n characters.
LEMMA Beginning ==
    ASSUME NEW S, NEW value \in Seq(S), NEW n \in 0..Len(value)
    PROVE  SubSeq(value, 1, n) \in Seq(S) /\ Len(SubSeq(value, 1, n)) = n
<1>1. \A i \in 1..n : value[i] \in S
  OBVIOUS
<1>2. /\ SubSeq(value, 1, n) \in Seq(S)
      /\ Len(SubSeq(value, 1, n)) = IF 1 <= n THEN n - 1 + 1 ELSE 0
  BY <1>1, SubSeqProperties
<1> QED
  BY <1>2

\* gatus.truncate leaves a text within its limit alone and otherwise uses the
\* limit exactly, keeps the beginning and marks the cut, for every text and
\* every value of message.max_length, the ones below the suffix's length included.
THEOREM TruncateIsBestFit ==
    ASSUME NEW S, NEW value \in Seq(S), NEW max \in Int
    PROVE  BestFit(value, max, truncate(value, max))
<1> DEFINE result == truncate(value, max)
           Char == S \cup {"."}
<1>0. /\ value \in Seq(Char) /\ Len(value) \in Nat
      /\ suffix \in Seq(Char) /\ Len(suffix) = 3
  <2>1. S \subseteq Char
    OBVIOUS
  <2>2. value \in Seq(Char)
    BY <2>1, SeqMonotonic
  <2> QED
    BY <2>2 DEF suffix
<1>1. CASE max < 1 \/ Len(value) <= max
  <2>1. result = value
    BY <1>1 DEF truncate
  <2> QED
    BY <1>0, <1>1, <2>1 DEF BestFit
<1>2. CASE max >= 1 /\ Len(value) > max /\ max <= 3
  <2>1. result = SubSeq(suffix, 1, max)
    BY <1>0, <1>2 DEF truncate
  <2>2. SubSeq(suffix, 1, max) \in Seq(Char) /\ Len(SubSeq(suffix, 1, max)) = max
    <3>1. max \in 0..Len(suffix)
      BY <1>0, <1>2
    <3> QED
      BY <1>0, <3>1, Beginning
  <2>3. SubSeq(value, 1, 0) = <<>>
    BY <1>0
  <2>4. result = SubSeq(value, 1, 0) \o SubSeq(suffix, 1, max - 0)
    BY <1>2, <2>1, <2>2, <2>3
  <2>5. 0 \in 0..max /\ max - 0 <= Len(suffix)
    BY <1>0, <1>2
  <2>6. Len(result) = max
    BY <2>1, <2>2
  <2> QED
    BY <1>2, <2>4, <2>5, <2>6 DEF BestFit
<1>3. CASE max >= 1 /\ Len(value) > max /\ max > 3
  <2> DEFINE n == max - 3
  <2>1. n \in 0..max /\ max - n = Len(suffix)
    BY <1>0, <1>3
  <2>2. SubSeq(suffix, 1, max - n) = suffix
    BY <1>0, <2>1
  <2>3. result = SubSeq(value, 1, n) \o suffix
    BY <1>0, <1>3 DEF truncate
  <2>4. SubSeq(value, 1, n) \in Seq(Char) /\ Len(SubSeq(value, 1, n)) = n
    <3>1. n \in 0..Len(value)
      BY <1>0, <1>3
    <3> QED
      BY <1>0, <3>1, Beginning
  <2>5. Len(result) = max
    <3> DEFINE head == SubSeq(value, 1, n)
    <3>1. Len(head \o suffix) = Len(head) + Len(suffix)
      BY <1>0, <2>4, ConcatProperties
    <3>2. Len(head) + Len(suffix) = max
      BY <1>0, <2>4
    <3> QED
      BY <2>3, <3>1, <3>2
  <2>6. max - n <= Len(suffix)
    BY <1>0, <1>3
  <2> QED
    BY <1>3, <2>1, <2>2, <2>3, <2>5, <2>6 DEF BestFit
<1> QED
  BY <1>0, <1>1, <1>2, <1>3
-----------------------------------------------------------------------------
(* The inductive invariant: a message that is ready is what Format makes of the body. *)

\* What is known of every state that Spec reaches.
MessageInv ==
    /\ prefix \in Text
    /\ limit \in Int
    /\ IF kind = "json" THEN body \in Alert ELSE body \in Text
    /\ status = "ready" =>
           message = IF kind = "json" THEN Format(body, prefix, limit)
                     ELSE FormatText(body, prefix, limit)
    /\ status = "ready" /\ kind = "json" =>
           Validate(body) /\ logged.endpoint = LogValue(body)

\* The invariant holds in every reachable state: nothing but the two Prepare
\* actions makes a message ready, and none changes the body, prefix or limit.
LEMMA MessageInvHolds == Spec => []MessageInv
<1>1. Init => MessageInv
  BY BodiesAssumption, PrefixesAssumption, LimitsAssumption DEF Init, MessageInv
<1>2. MessageInv /\ [Next]_vars => MessageInv'
  <2> SUFFICES ASSUME MessageInv, [Next]_vars PROVE MessageInv'
    OBVIOUS
  <2>1. CASE PrepareAlert
    BY <2>1 DEF PrepareAlert, MessageInv
  <2>2. CASE PrepareText
    BY <2>2 DEF PrepareText, MessageInv
  <2>3. CASE Refuse
    BY <2>3 DEF Refuse, MessageInv
  <2>4. CASE Prepared \/ UNCHANGED vars
    BY <2>4 DEF Prepared, MessageInv, vars
  <2> QED
    BY <2>1, <2>2, <2>3, <2>4 DEF Next
<1> QED
  BY <1>1, <1>2, PTL DEF Spec

\* The full message is a text, and the message is that text cut to size.
LEMMA Shortened ==
    ASSUME MessageInv
    PROVE  /\ FullMessage \in Text
           /\ status = "ready" => message = truncate(FullMessage, limit)
<1>0. \A t : truncate(t, Unlimited) = t
  BY DEF truncate, Unlimited
<1>1. CASE kind = "json"
  <2> DEFINE full == withPrefix(Join(FormatLines(body)), prefix)
  <2>1. body \in Alert /\ prefix \in Text
    BY <1>1 DEF MessageInv
  <2>2. full \in Text /\ \A max : Format(body, prefix, max) = truncate(full, max)
    BY <2>1, Formatted, PrefixText
  <2> HIDE DEF full
  <2>3. FullMessage = full
    BY <1>0, <1>1, <2>2 DEF FullMessage
  <2> QED
    BY <1>1, <2>2, <2>3 DEF MessageInv
<1>2. CASE kind # "json"
  <2> DEFINE full == withPrefix(multiLine(body), prefix)
  <2>1. body \in Text /\ prefix \in Text
    BY <1>2 DEF MessageInv
  <2>2. full \in Text
    BY <2>1, MultiLineText, PrefixText
  <2>3. \A max : FormatText(body, prefix, max) = truncate(full, max)
    BY DEF FormatText
  <2> HIDE DEF full
  <2>4. FullMessage = full
    BY <1>0, <1>2, <2>3 DEF FullMessage
  <2> QED
    BY <1>2, <2>2, <2>3, <2>4 DEF MessageInv
<1> QED
  BY <1>1, <1>2
-----------------------------------------------------------------------------
(* Messages fit. *)

\* No message of the handler exceeds message.max_length or loses more than it
\* must, for every alert, text, prefix and limit (gatus.Format, FormatText).
THEOREM MessagesFit == Spec => []MessageIsBestFit
<1>1. MessageInv => MessageIsBestFit
  <2> SUFFICES ASSUME MessageInv, status = "ready"
               PROVE  BestFit(FullMessage, limit, message)
    BY DEF MessageIsBestFit
  <2>1. FullMessage \in Seq(Characters) /\ limit \in Int
    BY Shortened DEF Text, MessageInv
  <2> QED
    BY <2>1, Shortened, TruncateIsBestFit
<1> QED
  BY <1>1, MessageInvHolds, PTL
-----------------------------------------------------------------------------
(* What shows of a text. *)

\* g and k begin alike, and while they agree both take the same step.
InStep(g, k, n) ==
    /\ g[0] = k[0]
    /\ \A m \in 1..n : g[m - 1] = k[m - 1] => g[m] = k[m]

\* Functions that begin alike and stay in step agree everywhere.
LEMMA SameSteps ==
    ASSUME NEW n \in Nat, NEW g, NEW k, InStep(g, k, n)
    PROVE  \A m \in 0..n : g[m] = k[m]
<1> DEFINE S == {m \in Nat : m <= n => g[m] = k[m]}
<1>1. 0 \in S
  BY DEF InStep
<1>2. ASSUME NEW m \in Nat, m \in S PROVE m + 1 \in S
  <2> SUFFICES ASSUME m + 1 <= n PROVE g[m + 1] = k[m + 1]
    OBVIOUS
  <2>1. m + 1 \in 1..n /\ (m + 1) - 1 = m /\ g[m] = k[m]
    BY <1>2
  <2> QED
    BY <2>1 DEF InStep
<1>3. \A m \in Nat : m \in S
  <2> HIDE DEF S
  <2> QED
    BY <1>1, <1>2, NatInduct
<1> QED
  BY <1>3

\* What is shown of one character.
Piece(c) == IF c \in Space THEN <<>> ELSE <<c>>

\* What is shown of a character is a text.
LEMMA PieceText == \A c \in Characters : Piece(c) \in Text
BY DEF Piece, Text

\* Shown appends what is shown of the characters one by one.
LEMMA Showing ==
    ASSUME NEW t \in Text
    PROVE  \E g \in [0..Len(t) -> Text] :
              /\ g[0] = <<>>
              /\ \A m \in 1..Len(t) : g[m] = g[m - 1] \o Piece(t[m])
              /\ Shown(t) = g[Len(t)]
<1> DEFINE q == [i \in DOMAIN t |-> Piece(t[i])]
<1>1. Shown(t) = FlattenSeq(q)
  BY DEF Shown, Piece
<1>2. DOMAIN t = 1..Len(t) /\ Len(t) \in Nat /\ \A i \in DOMAIN t : t[i] \in Characters
  BY DEF Text
<1>3. q \in Seq(Text) /\ Len(q) = Len(t)
  BY <1>2, PieceText
<1>4. \A m \in 1..Len(t) : q[m] = Piece(t[m])
  BY <1>2
<1> HIDE DEF q
<1>5. PICK g \in [0..Len(q) -> Text] :
              /\ g[0] = <<>>
              /\ \A m \in 1..Len(q) : g[m] = g[m - 1] \o q[m]
              /\ FlattenSeq(q) = g[Len(q)]
  BY <1>3, Flattened
<1> QED
  BY <1>1, <1>3, <1>4, <1>5

\* What shows of a text is a text.
LEMMA ShownText == \A t \in Text : Shown(t) \in Text
<1> TAKE t \in Text
<1>1. Len(t) \in 0..Len(t)
  BY DEF Text
<1>2. PICK g \in [0..Len(t) -> Text] : Shown(t) = g[Len(t)]
  BY Showing
<1> QED
  BY <1>1, <1>2

\* Of two texts shows what shows of the first, then what shows of the second.
LEMMA ShownConcat ==
    ASSUME NEW t \in Text, NEW u \in Text
    PROVE  Shown(t \o u) = Shown(t) \o Shown(u)
<1> DEFINE all == t \o u
           n == Len(t)
           l == Len(u)
<1>1. /\ all \in Text /\ n \in Nat /\ l \in Nat /\ Len(all) = n + l
      /\ \A m \in 1..n : all[m] = t[m]
      /\ \A m \in 1..l : all[n + m] = u[m]
  BY ConcatProperties DEF Text
<1> HIDE DEF all
<1>2. PICK g \in [0..Len(all) -> Text] :
              /\ g[0] = <<>>
              /\ \A m \in 1..Len(all) : g[m] = g[m - 1] \o Piece(all[m])
              /\ Shown(all) = g[Len(all)]
  BY <1>1, Showing
<1>3. PICK a \in [0..n -> Text] :
              /\ a[0] = <<>>
              /\ \A m \in 1..n : a[m] = a[m - 1] \o Piece(t[m])
              /\ Shown(t) = a[n]
  BY Showing
<1>4. PICK b \in [0..l -> Text] :
              /\ b[0] = <<>>
              /\ \A m \in 1..l : b[m] = b[m - 1] \o Piece(u[m])
              /\ Shown(u) = b[l]
  BY Showing
<1> HIDE DEF n, l
<1>5. ASSUME NEW m \in 1..n, a[m - 1] = g[m - 1]
      PROVE  a[m] = g[m]
  <2>1. m \in 1..Len(all) /\ all[m] = t[m]
    BY <1>1
  <2>2. a[m] = a[m - 1] \o Piece(t[m])
    BY <1>3
  <2>3. g[m] = g[m - 1] \o Piece(all[m])
    BY <1>2, <2>1
  <2> QED
    BY <1>5, <2>1, <2>2, <2>3
<1>6. \A m \in 0..n : a[m] = g[m]
  <2>1. a[0] = g[0]
    BY <1>2, <1>3
  <2>2. \A m \in 1..n : a[m - 1] = g[m - 1] => a[m] = g[m]
    BY <1>5
  <2>3. InStep(a, g, n) /\ n \in Nat
    BY <1>1, <2>1, <2>2 DEF InStep
  <2> QED
    BY <2>3, SameSteps
<1> DEFINE left == [m \in 0..l |-> g[n + m]]
           right == [m \in 0..l |-> a[n] \o b[m]]
<1>7. left[0] = right[0]
  <2>1. a[n] \in Text /\ a[n] = g[n]
    BY <1>1, <1>6
  <2> QED
    BY <1>1, <1>4, <2>1, EmptyFirst
<1>8. ASSUME NEW m \in 1..l, left[m - 1] = right[m - 1]
      PROVE  left[m] = right[m]
  <2>1. /\ m \in 0..l /\ m - 1 \in 0..l /\ n + m \in 1..Len(all)
        /\ (n + m) - 1 = n + (m - 1)
    BY <1>1
  <2>2. g[n + m] = g[n + (m - 1)] \o Piece(u[m])
    <3>1. all[n + m] = u[m]
      BY <1>1
    <3>2. g[n + m] = g[(n + m) - 1] \o Piece(all[n + m])
      BY <1>2, <2>1
    <3> QED
      BY <2>1, <3>1, <3>2
  <2>3. g[n + (m - 1)] = a[n] \o b[m - 1]
    BY <1>8, <2>1
  <2>4. b[m] = b[m - 1] \o Piece(u[m])
    BY <1>4
  <2>5. (a[n] \o b[m - 1]) \o Piece(u[m]) = a[n] \o (b[m - 1] \o Piece(u[m]))
    <3>1. u[m] \in Characters
      BY <1>1 DEF l, Text
    <3> DEFINE x == a[n]
               y == b[m - 1]
               z == Piece(u[m])
    <3>2. n \in 0..n
      BY <1>1
    <3>3. x \in Text /\ y \in Text /\ z \in Text
      BY <1>3, <1>4, <2>1, <3>1, <3>2, PieceText
    <3> HIDE DEF x, y, z
    <3>4. (x \o y) \o z = x \o (y \o z)
      BY <3>3, TextAssociative
    <3> QED
      BY <3>4 DEF x, y, z
  <2> QED
    BY <2>1, <2>2, <2>3, <2>4, <2>5
<1>9. \A m \in 0..l : left[m] = right[m]
  <2>1. \A m \in 1..l : left[m - 1] = right[m - 1] => left[m] = right[m]
    BY <1>8
  <2> HIDE DEF left, right
  <2>2. InStep(left, right, l) /\ l \in Nat
    BY <1>1, <1>7, <2>1 DEF InStep
  <2> QED
    BY <2>2, SameSteps
<1>10. g[n + l] = a[n] \o b[l]
  BY <1>1, <1>9
<1> QED
  BY <1>1, <1>2, <1>3, <1>4, <1>10 DEF all

\* One character shows as its piece.
LEMMA ShownOne == \A c \in Characters : Shown(<<c>>) = Piece(c)
<1> TAKE c \in Characters
<1>1. <<c>> \in Text /\ Len(<<c>>) = 1 /\ <<c>>[1] = c
  BY DEF Text
<1>2. PICK g \in [0..1 -> Text] :
              /\ g[0] = <<>>
              /\ \A m \in 1..1 : g[m] = g[m - 1] \o Piece(<<c>>[m])
              /\ Shown(<<c>>) = g[1]
  BY <1>1, Showing
<1>3. g[1] = g[0] \o Piece(c)
  <2>1. 1 \in 1..1 /\ 1 - 1 = 0
    OBVIOUS
  <2>2. g[1] = g[1 - 1] \o Piece(<<c>>[1])
    BY <1>2, <2>1
  <2> QED
    BY <1>1, <2>1, <2>2
<1> QED
  BY <1>2, <1>3, PieceText, EmptyFirst

\* White space does not show.
LEMMA ShownBlank ==
    ASSUME NEW t \in Text, \A i \in 1..Len(t) : t[i] \in Space
    PROVE  Shown(t) = <<>>
<1> DEFINE none == [m \in 0..Len(t) |-> <<>>]
<1>1. Len(t) \in Nat
  BY DEF Text
<1>2. PICK g \in [0..Len(t) -> Text] :
              /\ g[0] = <<>>
              /\ \A m \in 1..Len(t) : g[m] = g[m - 1] \o Piece(t[m])
              /\ Shown(t) = g[Len(t)]
  BY Showing
<1>3. g[0] = none[0]
  BY <1>1, <1>2
<1>4. ASSUME NEW m \in 1..Len(t), g[m - 1] = none[m - 1]
      PROVE  g[m] = none[m]
  <2>1. m \in 0..Len(t) /\ m - 1 \in 0..Len(t)
    BY <1>1
  <2>2. none[m - 1] = <<>> /\ none[m] = <<>>
    BY <2>1
  <2>3. Piece(t[m]) = <<>>
    BY DEF Piece
  <2>4. <<>> \o <<>> = <<>>
    BY EmptyFirst DEF Text
  <2> HIDE DEF none
  <2>5. g[m] = g[m - 1] \o Piece(t[m])
    BY <1>2
  <2> QED
    BY <1>4, <2>2, <2>3, <2>4, <2>5
<1>5. InStep(g, none, Len(t))
  <2>1. \A m \in 1..Len(t) : g[m - 1] = none[m - 1] => g[m] = none[m]
    BY <1>4
  <2> HIDE DEF none
  <2> QED
    BY <1>3, <2>1 DEF InStep
<1>6. g[Len(t)] = none[Len(t)]
  <2> HIDE DEF none
  <2>1. \A m \in 0..Len(t) : g[m] = none[m]
    BY <1>1, <1>5, SameSteps
  <2> QED
    BY <1>1, <2>1
<1> QED
  BY <1>1, <1>2, <1>6

\* Nothing that shows is trimmed.
LEMMA ShownTrimmed ==
    ASSUME NEW t \in Text
    PROVE  Shown(TrimSpace(t)) = Shown(t)
<1> DEFINE n == Len(t)
           V == Visible(t)
<1>1. n \in Nat /\ V \in SUBSET (1..n)
  BY DEF Text, Visible
<1>2. \A i \in 1..n : i \notin V => t[i] \in Space
  BY DEF Text, Visible
<1>3. CASE V = {}
  <2>1. Shown(t) = <<>>
    BY <1>2, <1>3, ShownBlank
  <2>2. <<>> \in Text /\ \A i \in 1..Len(<<>>) : <<>>[i] \in Space
    BY DEF Text
  <2>3. Shown(<<>>) = <<>>
    BY <2>2, ShownBlank
  <2> QED
    BY <1>3, <2>1, <2>3 DEF TrimSpace
<1>4. CASE V # {}
  <2> DEFINE i == Min(V)
             j == Max(V)
             before == SubSeq(t, 1, i - 1)
             middle == SubSeq(t, i, j)
             after == SubSeq(t, j + 1, n)
  <2>1. /\ i \in V /\ j \in V
        /\ \A k \in V : i <= k /\ k <= j
    <3> HIDE DEF n, V
    <3> QED
      BY <1>1, <1>4, MinOf, MaxOf
  <2>2. i \in 1..n /\ j \in 1..n /\ i <= j
    BY <1>1, <2>1
  <2>3. TrimSpace(t) = middle
    BY <1>4 DEF TrimSpace
  <2> HIDE DEF i, j, V
  <2>4. before \in Text /\ middle \in Text /\ after \in Text
    <3>1. /\ 1 \in 1..(Len(t) + 1) /\ i \in 1..(Len(t) + 1) /\ j + 1 \in 1..(Len(t) + 1)
          /\ i - 1 \in 0..Len(t) /\ j \in 0..Len(t) /\ n \in 0..Len(t)
      BY <1>1, <2>2
    <3>2. before \in Text
      BY <3>1, TextPart
    <3>3. middle \in Text
      BY <3>1, TextPart
    <3>4. after \in Text
      BY <3>1, TextPart
    <3> QED
      BY <3>2, <3>3, <3>4
  <2>5. \A k \in 1..Len(before) : before[k] \in Space
    <3>1. \A k \in 1..(i - 1) : t[k] \in Space /\ t[k] \in Characters
      <4>1. \A k \in 1..(i - 1) : k \in 1..n /\ k \notin V
        BY <1>1, <2>1, <2>2
      <4> QED
        BY <1>2, <4>1 DEF Text
    <3>2. /\ Len(before) = IF 1 <= i - 1 THEN (i - 1) - 1 + 1 ELSE 0
          /\ \A k \in 1..((i - 1) - 1 + 1) : before[k] = t[1 + k - 1]
      BY <2>2, <3>1, SubSeqProperties
    <3>3. \A k \in 1..Len(before) : /\ k \in 1..((i - 1) - 1 + 1) /\ 1 + k - 1 = k
                                   /\ k \in 1..(i - 1)
      <4> HIDE DEF before
      <4> QED
        BY <1>1, <2>2, <3>2
    <3> HIDE DEF before
    <3> QED
      BY <3>1, <3>2, <3>3
  <2>6. \A k \in 1..Len(after) : after[k] \in Space
    <3>1. \A k \in (j + 1)..n : t[k] \in Space /\ t[k] \in Characters
      <4>1. \A k \in (j + 1)..n : k \in 1..n /\ k \notin V
        BY <1>1, <2>1, <2>2
      <4> QED
        BY <1>2, <4>1 DEF Text
    <3>2. /\ Len(after) = IF j + 1 <= n THEN n - (j + 1) + 1 ELSE 0
          /\ \A k \in 1..(n - (j + 1) + 1) : after[k] = t[(j + 1) + k - 1]
      BY <1>1, <2>2, <3>1, SubSeqProperties
    <3>3. \A k \in 1..Len(after) : k \in 1..(n - (j + 1) + 1) /\ (j + 1) + k - 1 \in (j + 1)..n
      BY <1>1, <2>2, <3>2
    <3> QED
      BY <3>1, <3>2, <3>3
  <2>7. t = before \o middle \o after
    <3>1. t \in Seq(Characters) /\ SubSeq(t, 1, n) = t
      BY SubSeqFull DEF Text
    <3>2. before \o middle = SubSeq(t, 1, j)
      <4>1. 1 \in 1..(Len(t) + 1) /\ i - 1 \in (1 - 1)..Len(t) /\ j \in (i - 1)..Len(t)
            /\ (i - 1) + 1 = i
        BY <1>1, <2>2
      <4>2. SubSeq(t, 1, i - 1) \o SubSeq(t, (i - 1) + 1, j) = SubSeq(t, 1, j)
        BY <3>1, <4>1, ConcatAdjacentSubSeq
      <4> QED
        BY <4>1, <4>2
    <3>3. SubSeq(t, 1, j) \o after = SubSeq(t, 1, n)
      <4>1. 1 \in 1..(Len(t) + 1) /\ j \in (1 - 1)..Len(t) /\ n \in j..Len(t)
        BY <1>1, <2>2
      <4> QED
        BY <3>1, <4>1, ConcatAdjacentSubSeq
    <3> QED
      BY <3>1, <3>2, <3>3
  <2> HIDE DEF before, middle, after
  <2>8. Shown(t) = Shown(before) \o Shown(middle) \o Shown(after)
    <3>1. before \o middle \in Text
      BY <2>4, TextConcat
    <3>2. Shown(before \o middle) = Shown(before) \o Shown(middle)
      BY <2>4, ShownConcat
    <3>3. Shown((before \o middle) \o after) = Shown(before \o middle) \o Shown(after)
      BY <2>4, <3>1, ShownConcat
    <3> QED
      BY <2>7, <3>2, <3>3
  <2>9. Shown(before) = <<>> /\ Shown(after) = <<>>
    BY <2>4, <2>5, <2>6, ShownBlank
  <2>10. Shown(middle) \in Text
    BY <2>4, ShownText
  <2> QED
    BY <2>3, <2>8, <2>9, <2>10, EmptyFirst
<1> QED
  BY <1>3, <1>4

\* Squeezing a character in shows it, unless it is white space.
LEMMA ShownSqueezed ==
    ASSUME NEW t \in Text, NEW c \in Characters
    PROVE  Shown(Squeezed(t, c)) = Shown(t) \o Piece(c)
<1>1. ASSUME NEW d \in Characters
      PROVE  Shown(Append(t, d)) = Shown(t) \o Piece(d)
  <2>1. Append(t, d) = t \o <<d>>
    BY AppendIsConcat DEF Text
  <2>2. <<d>> \in Text
    BY DEF Text
  <2> QED
    BY <2>1, <2>2, ShownConcat, ShownOne
<1>2. CASE c \notin Space
  BY <1>1, <1>2 DEF Squeezed
<1>3. CASE c \in Space
  <2>1. Shown(t) \o Piece(c) = Shown(t)
    BY <1>3, ShownText, EmptyFirst DEF Piece
  <2>2. "sp" \in Characters /\ Piece("sp") = <<>> /\ Piece(c) = <<>>
    BY <1>3, CharactersAssumption DEF Piece, Space
  <2>3. Shown(Append(t, "sp")) = Shown(t) \o Piece(c)
    BY <1>1, <2>2
  <2> QED
    BY <1>3, <2>1, <2>3 DEF Squeezed
<1> QED
  BY <1>2, <1>3

\* A field put on one line shows what it showed before.
LEMMA ShownOneLine ==
    ASSUME NEW t \in Text
    PROVE  Shown(oneLine(t)) = Shown(t)
<1> DEFINE s == TrimSpace(t)
           n == Len(s)
<1>1. s \in Text /\ n \in Nat
  BY TextTrimmed DEF Text
<1>2. PICK g \in [0..n -> Text] :
              /\ g[0] = <<>>
              /\ \A m \in 1..n : g[m] = Squeezed(g[m - 1], s[m])
              /\ oneLine(t) = g[n]
  BY Squeezing
<1>3. Shown(s) = Shown(t)
  BY ShownTrimmed
<1> HIDE DEF s
<1>4. PICK k \in [0..n -> Text] :
              /\ k[0] = <<>>
              /\ \A m \in 1..n : k[m] = k[m - 1] \o Piece(s[m])
              /\ Shown(s) = k[n]
  BY <1>1, Showing
<1> DEFINE shown == [m \in 0..n |-> Shown(g[m])]
<1>5. shown[0] = k[0]
  <2>1. <<>> \in Text /\ \A i \in 1..Len(<<>>) : <<>>[i] \in Space
    BY DEF Text
  <2>2. Shown(<<>>) = <<>>
    BY <2>1, ShownBlank
  <2> QED
    BY <1>1, <1>2, <1>4, <2>2
<1>6. ASSUME NEW m \in 1..n, shown[m - 1] = k[m - 1]
      PROVE  shown[m] = k[m]
  <2>1. m \in 0..n /\ m - 1 \in 0..n /\ s[m] \in Characters
    BY <1>1 DEF Text
  <2>2. g[m - 1] \in Text
    BY <2>1
  <2>3. Shown(g[m]) = Shown(g[m - 1]) \o Piece(s[m])
    BY <1>2, <2>1, <2>2, ShownSqueezed
  <2>4. Shown(g[m - 1]) = k[m - 1] /\ shown[m] = Shown(g[m])
    BY <1>6, <2>1
  <2> HIDE DEF shown
  <2> QED
    BY <1>4, <2>3, <2>4
<1>7. InStep(shown, k, n)
  <2>1. \A m \in 1..n : shown[m - 1] = k[m - 1] => shown[m] = k[m]
    BY <1>6
  <2> HIDE DEF shown
  <2> QED
    BY <1>5, <2>1 DEF InStep
<1>8. shown[n] = k[n]
  <2> HIDE DEF shown, n
  <2>1. \A m \in 0..n : shown[m] = k[m]
    BY <1>1, <1>7, SameSteps
  <2> QED
    BY <1>1, <2>1
<1>9. shown[n] = Shown(oneLine(t))
  BY <1>1, <1>2
<1> HIDE DEF shown
<1> QED
  BY <1>3, <1>4, <1>8, <1>9
-----------------------------------------------------------------------------
(* The state survives. *)

\* A text followed by more begins with it, and what it shows comes first.
LEMMA ShownFirst ==
    ASSUME NEW t \in Text, NEW u \in Text
    PROVE  IsPrefix(Shown(t), Shown(t \o u))
<1> DEFINE a == Shown(t)
           b == Shown(u)
<1>1. a \in Text /\ b \in Text /\ Shown(t \o u) = a \o b
  BY ShownText, ShownConcat
<1> HIDE DEF a, b
<1>2. /\ a \in Seq(Characters) /\ b \in Seq(Characters)
      /\ Len(a) \in Nat /\ Len(b) \in Nat
  BY <1>1 DEF Text
<1>3. Len(a \o b) = Len(a) + Len(b)
  BY <1>2, ConcatProperties
<1>4. SubSeq(a, 1, Len(a)) = a
  BY <1>2, SubSeqFull
<1>5. SubSeq(a \o b, 1, Len(a)) = SubSeq(a, 1, Len(a))
  <2>1. CASE Len(a) = 0
    BY <1>2, <2>1, SubSeqEmpty
  <2>2. CASE Len(a) # 0
    <3>1. 1 \in 1..Len(a) /\ Len(a) \in 1..Len(a)
      BY <1>2, <2>2
    <3> QED
      BY <1>2, <3>1, SubSeqOfConcat1
  <2> QED
    BY <2>1, <2>2
<1>6. IsPrefix(a, a \o b)
  BY <1>2, <1>3, <1>5 DEF IsPrefix
<1> QED
  BY <1>1, <1>6 DEF a

\* The beginning of a text that was cut to size is still there if the limit has
\* room for it and the suffix.
LEMMA BeginningStays ==
    ASSUME NEW head \in Text, NEW rest \in Text, NEW max \in Int,
           max < 1 \/ max >= Len(head) + Len(suffix)
    PROVE  \E more \in Text : truncate(head \o rest, max) = head \o more
<1> DEFINE full == head \o rest
<1>1. /\ full \in Text /\ Len(head) \in Nat /\ Len(rest) \in Nat
      /\ Len(full) = Len(head) + Len(rest)
  BY ConcatProperties DEF Text
<1>2. suffix \in Text /\ Len(suffix) = 3
  BY CharactersAssumption DEF suffix, Text
<1>3. CASE max < 1 \/ Len(full) <= max
  <2>1. truncate(full, max) = head \o rest
    BY <1>3 DEF truncate
  <2> QED
    BY <2>1
<1>4. CASE max >= 1 /\ Len(full) > max /\ max <= 3
  <2>1. max = 3 /\ Len(head) = 0
    BY <1>1, <1>2, <1>4
  <2>2. head = <<>>
    BY <2>1 DEF Text
  <2>3. truncate(full, max) = SubSeq(suffix, 1, max)
    BY <1>2, <1>4 DEF truncate
  <2>4. SubSeq(suffix, 1, max) = suffix
    BY <1>2, <2>1, SubSeqFull DEF Text
  <2>5. suffix = head \o suffix
    BY <1>2, <2>2, EmptyFirst
  <2> QED
    BY <1>2, <2>3, <2>4, <2>5
<1>5. CASE max >= 1 /\ Len(full) > max /\ max > 3
  <2> DEFINE n == Len(head)
             kept == SubSeq(full, n + 1, max - 3)
  <2>1. n \in Nat /\ n <= max - 3 /\ max - 3 \in Nat /\ max - 3 <= Len(full)
    BY <1>1, <1>2, <1>5
  <2>2. truncate(full, max) = SubSeq(full, 1, max - 3) \o suffix
    BY <1>2, <1>5 DEF truncate
  <2>3. SubSeq(full, 1, max - 3) = SubSeq(full, 1, n) \o kept
    <3>1. 1 \in 1..(Len(full) + 1) /\ n \in (1 - 1)..Len(full) /\ max - 3 \in n..Len(full)
      BY <1>1, <2>1
    <3>2. full \in Seq(Characters)
      BY <1>1 DEF Text
    <3> HIDE DEF full, n
    <3> QED
      BY <3>1, <3>2, ConcatAdjacentSubSeq
  <2>4. SubSeq(full, 1, n) = head
    <3>1. head \in Seq(Characters) /\ rest \in Seq(Characters)
      BY DEF Text
    <3>2. SubSeq(head, 1, n) = head
      BY <3>1, SubSeqFull
    <3>3. CASE n = 0
      <4>1. SubSeq(full, 1, n) = <<>> /\ head = <<>>
        BY <3>1, <3>3
      <4> QED
        BY <4>1
    <3>4. CASE n # 0
      <4>1. 1 \in 1..n /\ n \in 1..n
        BY <2>1, <3>4
      <4>2. SubSeq(head \o rest, 1, n) = SubSeq(head, 1, n)
        BY <3>1, <4>1, SubSeqOfConcat1
      <4> QED
        BY <3>2, <4>2
    <3> QED
      BY <3>3, <3>4
  <2>5. kept \in Text
    <3>1. n + 1 \in 1..(Len(full) + 1) /\ max - 3 \in 0..Len(full)
      BY <1>1, <2>1
    <3> HIDE DEF full, n
    <3> QED
      BY <1>1, <3>1, TextPart
  <2>6. (head \o kept) \o suffix = head \o (kept \o suffix)
    <3> HIDE DEF kept
    <3> QED
      BY <1>2, <2>5, TextAssociative
  <2>7. kept \o suffix \in Text
    BY <1>2, <2>5, TextConcat
  <2>8. truncate(full, max) = head \o (kept \o suffix)
    BY <2>2, <2>3, <2>4, <2>6
  <2> HIDE DEF kept, full
  <2> QED
    BY <2>7, <2>8 DEF full
<1> QED
  BY <1>1, <1>3, <1>4, <1>5

\* The state is the first line of what Format joins.
LEMMA StateFirst ==
    ASSUME NEW a \in Alert
    PROVE  \E rest \in Text : Join(FormatLines(a)) = oneLine(a.state) \o rest
<1> DEFINE first == oneLine(a.state)
           X == {t \in Text : \E rest \in Text : t = first \o rest}
<1>1. first \in Text
  BY OneLineText DEF Alert
<1> HIDE DEF first
<1>2. first \in X
  <2>1. <<>> \in Text /\ first = first \o <<>>
    BY <1>1, EmptyFirst DEF Text
  <2> QED
    BY <1>1, <2>1
<1>3. ASSUME NEW t \in X, NEW u \in Text
      PROVE  t \o <<"nl">> \o u \in X
  <2>1. PICK rest \in Text : t = first \o rest
    OBVIOUS
  <2> DEFINE more == (rest \o <<"nl">>) \o u
  <2>2. rest \o <<"nl">> \in Text
    BY NewLine, TextConcat
  <2>3. more \in Text
    BY <2>2, TextConcat
  <2>4. t \o <<"nl">> \o u = first \o more
    <3> DEFINE nl == <<"nl">>
               r == rest \o nl
    <3>1. nl \in Text /\ r \in Text
      BY <2>2, NewLine
    <3> HIDE DEF nl
    <3>2. (first \o rest) \o nl = first \o r
      BY <1>1, <3>1, TextAssociative
    <3> HIDE DEF r
    <3>3. (first \o r) \o u = first \o (r \o u)
      BY <1>1, <3>1, TextAssociative
    <3> QED
      BY <2>1, <3>2, <3>3 DEF r, nl
  <2>5. first \o more \in Text
    BY <1>1, <2>3, TextConcat
  <2> HIDE DEF more
  <2> QED
    BY <2>3, <2>4, <2>5
<1>4. X \in SUBSET Text
  OBVIOUS
<1>5. Join(FormatLines(a)) \in X
  <2>1. Head(FormatLines(a)) \in X
    BY <1>2, LinesText DEF first
  <2> HIDE DEF X
  <2> QED
    BY <1>3, <1>4, <2>1, LinesText, Joined
<1> QED
  BY <1>5 DEF first

\* The prefix and the state, as the message begins.
Opening(p, state) ==
    IF TrimSpace(p) = <<>> THEN oneLine(state) ELSE TrimSpace(p) \o <<"nl">> \o oneLine(state)

\* The opening shows the prefix and the state, and is no longer than the room
\* that StateSurvives asks for.
LEMMA OpeningShown ==
    ASSUME NEW p \in Text, NEW state \in Text
    PROVE  /\ Opening(p, state) \in Text
           /\ Shown(Opening(p, state)) = Shown(p) \o Shown(state)
           /\ Len(Opening(p, state)) <= Len(TrimSpace(p)) + 1 + Len(oneLine(state))
<1> DEFINE t == TrimSpace(p)
           s == oneLine(state)
<1>1. t \in Text /\ s \in Text
  BY TextTrimmed, OneLineText
<1>2. Shown(t) = Shown(p) /\ Shown(s) = Shown(state)
  BY ShownTrimmed, ShownOneLine
<1>3. Opening(p, state) = IF t = <<>> THEN s ELSE t \o <<"nl">> \o s
  BY DEF Opening
<1> HIDE DEF t, s
<1>4. Len(t) \in Nat /\ Len(s) \in Nat
  BY <1>1 DEF Text
<1>5. CASE t = <<>>
  <2>1. Shown(t) = <<>>
    <3>1. \A i \in 1..Len(t) : t[i] \in Space
      BY <1>5
    <3> QED
      BY <1>1, <3>1, ShownBlank
  <2>2. Shown(state) \in Text
    BY ShownText
  <2>3. Shown(p) \o Shown(state) = Shown(state)
    BY <1>2, <2>1, <2>2, EmptyFirst
  <2> QED
    BY <1>1, <1>2, <1>3, <1>4, <1>5, <2>3 DEF t, s
<1>6. CASE t # <<>>
  <2>1. t \o <<"nl">> \in Text /\ Shown(t \o <<"nl">>) = Shown(t)
    <3>1. Shown(<<"nl">>) = <<>>
      <4>1. <<"nl">> \in Text /\ \A i \in 1..Len(<<"nl">>) : <<"nl">>[i] \in Space
        BY NewLine DEF Space
      <4> QED
        BY <4>1, ShownBlank
    <3> DEFINE nl == <<"nl">>
    <3>0. nl \in Text /\ Shown(nl) = <<>>
      BY <3>1, NewLine
    <3> HIDE DEF nl
    <3>2. Shown(t \o nl) = Shown(t) \o <<>>
      <4>1. Shown(t \o nl) = Shown(t) \o Shown(nl)
        BY <1>1, <3>0, ShownConcat, Zenon
      <4> QED
        BY <3>0, <4>1
    <3>3. Shown(t) \in Text
      BY <1>1, ShownText
    <3>4. t \o nl \in Text
      BY <1>1, <3>0, TextConcat
    <3>5. Shown(t) \o <<>> = Shown(t)
      BY <3>3, EmptyFirst
    <3> QED
      BY <3>2, <3>4, <3>5 DEF nl
  <2>2. Shown((t \o <<"nl">>) \o s) = Shown(t) \o Shown(s) /\ (t \o <<"nl">>) \o s \in Text
    BY <1>1, <2>1, ShownConcat, TextConcat
  <2>3. Len((t \o <<"nl">>) \o s) = Len(t) + 1 + Len(s)
    <3>1. /\ t \in Seq(Characters) /\ s \in Seq(Characters) /\ <<"nl">> \in Seq(Characters)
          /\ t \o <<"nl">> \in Seq(Characters)
      BY <1>1, <2>1, NewLine DEF Text
    <3>2. Len(t \o <<"nl">>) = Len(t) + 1
      BY <3>1, ConcatProperties
    <3>3. Len((t \o <<"nl">>) \o s) = Len(t \o <<"nl">>) + Len(s)
      BY <3>1, ConcatProperties
    <3> QED
      BY <3>2, <3>3
  <2>4. Opening(p, state) = (t \o <<"nl">>) \o s
    BY <1>3, <1>6
  <2> QED
    BY <1>2, <1>4, <2>2, <2>3, <2>4 DEF t, s
<1> QED
  BY <1>5, <1>6

\* The full message goes on after its opening.
LEMMA OpeningFirst ==
    ASSUME NEW a \in Alert, NEW p \in Text
    PROVE  \E rest \in Text :
              withPrefix(Join(FormatLines(a)), p) = Opening(p, a.state) \o rest
<1> DEFINE s == oneLine(a.state)
<1>1. PICK rest \in Text : Join(FormatLines(a)) = s \o rest
  BY StateFirst
<1>2. s \in Text /\ TrimSpace(p) \in Text
  BY OneLineText, TextTrimmed DEF Alert
<1> HIDE DEF s
<1>3. (TrimSpace(p) \o <<"nl">>) \o (s \o rest) = ((TrimSpace(p) \o <<"nl">>) \o s) \o rest
  <2> DEFINE t == TrimSpace(p) \o <<"nl">>
  <2>1. t \in Text
    BY <1>2, NewLine, TextConcat
  <2> HIDE DEF t
  <2>2. (t \o s) \o rest = t \o (s \o rest)
    BY <1>2, <2>1, TextAssociative
  <2> QED
    BY <2>2 DEF t
<1> QED
  BY <1>1, <1>3 DEF withPrefix, Opening, s

\* The state of every alert can be read in the message right after the prefix
\* when the limit has room for both, whatever white space the fields hold and
\* however long the others are (gatus.Format).
THEOREM StatesSurvive == Spec => []StateSurvives
<1>1. MessageInv => StateSurvives
  <2> DEFINE head == Opening(prefix, body.state)
  <2> SUFFICES ASSUME MessageInv, status = "ready", kind = "json",
                      limit < 1 \/ limit >= Len(TrimSpace(prefix)) + 1 + Len(oneLine(body.state))
                                             + Len(suffix)
               PROVE  IsPrefix(Shown(prefix) \o Shown(body.state), Shown(message))
    BY DEF StateSurvives
  <2>1. body \in Alert /\ prefix \in Text /\ body.state \in Text /\ limit \in Int
    BY DEF MessageInv, Alert
  <2>2. /\ head \in Text
        /\ Shown(head) = Shown(prefix) \o Shown(body.state)
        /\ Len(head) <= Len(TrimSpace(prefix)) + 1 + Len(oneLine(body.state))
    BY <2>1, OpeningShown
  <2>3. PICK rest \in Text : withPrefix(Join(FormatLines(body)), prefix) = head \o rest
    BY <2>1, OpeningFirst
  <2>4. message = truncate(head \o rest, limit)
    <3>1. Format(body, prefix, limit) = truncate(withPrefix(Join(FormatLines(body)), prefix), limit)
      BY <2>1, Formatted
    <3>2. message = Format(body, prefix, limit)
      BY DEF MessageInv
    <3> HIDE DEF head
    <3> QED
      BY <2>3, <3>1, <3>2
  <2> HIDE DEF head
  <2>5. limit < 1 \/ limit >= Len(head) + Len(suffix)
    <3>1. /\ Len(head) \in Nat /\ Len(TrimSpace(prefix)) \in Nat
          /\ Len(oneLine(body.state)) \in Nat /\ Len(suffix) = 3
      <4>1. TrimSpace(prefix) \in Text /\ oneLine(body.state) \in Text
        BY <2>1, TextTrimmed, OneLineText
      <4>2. Len(suffix) = 3
        BY DEF suffix
      <4> QED
        BY <2>2, <4>1, <4>2 DEF Text
    <3> QED
      BY <2>1, <2>2, <3>1
  <2>6. PICK more \in Text : truncate(head \o rest, limit) = head \o more
    BY <2>1, <2>2, <2>3, <2>5, BeginningStays
  <2>7. IsPrefix(Shown(head), Shown(head \o more))
    BY <2>2, ShownFirst
  <2> QED
    BY <2>2, <2>4, <2>6, <2>7
<1> QED
  BY <1>1, MessageInvHolds, PTL
-----------------------------------------------------------------------------
(* What trimming, oneLine and multiLine leave. *)

\* A text without white space at its ends.
Tight(t) == Len(t) > 0 /\ t[1] \notin Space /\ t[Len(t)] \notin Space

\* Trimming removes what precedes and follows the visible part.
LEMMA TrimKeeps ==
    ASSUME NEW t \in Text, NEW i \in 1..Len(t), NEW j \in 1..Len(t),
           t[i] \notin Space, t[j] \notin Space,
           \A k \in 1..Len(t) : t[k] \notin Space => i <= k /\ k <= j
    PROVE  TrimSpace(t) = SubSeq(t, i, j)
<1> DEFINE n == Len(t)
           V == Visible(t)
<1>1. n \in Nat /\ V \in SUBSET (1..n) /\ i \in V /\ j \in V
  BY DEF Text, Visible
<1>2. \A k \in V : i <= k /\ k <= j
  BY DEF Text, Visible
<1>3. TrimSpace(t) = SubSeq(t, Min(V), Max(V))
  BY <1>1 DEF TrimSpace
<1> HIDE DEF V
<1>4. /\ Min(V) \in V /\ \A y \in V : Min(V) <= y
      /\ Max(V) \in V /\ \A y \in V : y <= Max(V)
  <2> HIDE DEF n
  <2> QED
    BY <1>1, MinOf, MaxOf
<1>5. Min(V) = i
  <2>1. Min(V) <= i /\ i <= Min(V) /\ Min(V) \in 1..n
    BY <1>1, <1>2, <1>4
  <2> QED
    BY <2>1
<1>6. Max(V) = j
  <2>1. Max(V) <= j /\ j <= Max(V) /\ Max(V) \in 1..n
    BY <1>1, <1>2, <1>4
  <2> QED
    BY <2>1
<1> QED
  BY <1>3, <1>5, <1>6

\* A trimmed text is empty or tight, and consists of characters of the text.
LEMMA TrimTight ==
    ASSUME NEW t \in Text, TrimSpace(t) # <<>>
    PROVE  /\ Tight(TrimSpace(t))
           /\ \A k \in 1..Len(TrimSpace(t)) : \E m \in 1..Len(t) : TrimSpace(t)[k] = t[m]
<1> DEFINE n == Len(t)
           V == Visible(t)
           i == Min(V)
           j == Max(V)
<1>1. n \in Nat /\ V \in SUBSET (1..n) /\ \A k \in V : t[k] \notin Space
  BY DEF Text, Visible
<1>2. V # {} /\ TrimSpace(t) = SubSeq(t, i, j)
  BY DEF TrimSpace
<1> HIDE DEF V, n
<1>3. i \in V /\ j \in V /\ i <= j
  BY <1>1, <1>2, MinOf, MaxOf
<1> HIDE DEF i, j
<1>4. i \in 1..n /\ j \in 1..n
  BY <1>1, <1>3
<1>5. /\ Len(TrimSpace(t)) = j - i + 1
      /\ \A k \in 1..(j - i + 1) : TrimSpace(t)[k] = t[i + k - 1]
  <2>1. \A k \in i..j : t[k] \in Characters
    BY <1>1, <1>4 DEF Text, n
  <2>2. /\ Len(SubSeq(t, i, j)) = IF i <= j THEN j - i + 1 ELSE 0
        /\ \A k \in 1..(j - i + 1) : SubSeq(t, i, j)[k] = t[i + k - 1]
    BY <1>4, <2>1, SubSeqProperties
  <2> QED
    BY <1>2, <1>3, <2>2
<1>6. \A k \in 1..(j - i + 1) : i + k - 1 \in 1..n
  BY <1>1, <1>3, <1>4
<1>7. /\ 1 \in 1..(j - i + 1) /\ j - i + 1 \in 1..(j - i + 1)
      /\ i + 1 - 1 = i /\ i + (j - i + 1) - 1 = j
  BY <1>1, <1>3, <1>4
<1>8. TrimSpace(t)[1] = t[i] /\ TrimSpace(t)[j - i + 1] = t[j]
  BY <1>5, <1>7
<1>9. Tight(TrimSpace(t))
  BY <1>1, <1>3, <1>5, <1>7, <1>8 DEF Tight
<1> QED
  BY <1>5, <1>6, <1>9 DEF n

\* There is nothing to trim at the ends of a tight text.
LEMMA TightStays ==
    ASSUME NEW t \in Text, Tight(t)
    PROVE  TrimSpace(t) = t
<1>1. 1 \in 1..Len(t) /\ Len(t) \in 1..Len(t) /\ t[1] \notin Space /\ t[Len(t)] \notin Space
  BY DEF Tight, Text
<1>2. \A k \in 1..Len(t) : 1 <= k /\ k <= Len(t)
  BY <1>1
<1>3. TrimSpace(t) = SubSeq(t, 1, Len(t))
  BY <1>1, <1>2, TrimKeeps
<1> QED
  BY <1>3, SubSeqFull DEF Text

\* A text with something to see is not trimmed away.
LEMMA TrimNotEmpty ==
    ASSUME NEW t \in Text, NEW k \in 1..Len(t), t[k] \notin Space
    PROVE  TrimSpace(t) # <<>>
<1> DEFINE n == Len(t)
           V == Visible(t)
<1>1. n \in Nat /\ V \in SUBSET (1..n) /\ k \in V
  BY DEF Text, Visible
<1>2. TrimSpace(t) = SubSeq(t, Min(V), Max(V))
  BY <1>1 DEF TrimSpace
<1> HIDE DEF V
<1>3. Min(V) \in 1..n /\ Max(V) \in 1..n /\ Min(V) <= Max(V)
  <2>1. /\ Min(V) \in V /\ \A y \in V : Min(V) <= y
        /\ Max(V) \in V /\ \A y \in V : y <= Max(V)
    <3> HIDE DEF n
    <3> QED
      BY <1>1, MinOf, MaxOf
  <2> QED
    BY <1>1, <2>1
<1>4. \A m \in Min(V)..Max(V) : t[m] \in Characters
  BY <1>1, <1>3 DEF Text
<1>5. Len(SubSeq(t, Min(V), Max(V))) = Max(V) - Min(V) + 1
  BY <1>3, <1>4, SubSeqProperties
<1> QED
  BY <1>2, <1>3, <1>5

\* Words with single spaces between them: what oneLine makes of a text.
Spaced(t) == \A i \in 1..Len(t) :
                t[i] \in Space => t[i] = "sp" /\ i > 1 /\ t[i - 1] \notin Space

Neat == {t \in Text : Tight(t) /\ Spaced(t)}

\* Squeezing a character in keeps the words apart by single spaces.
LEMMA SqueezedSpaced ==
    ASSUME NEW t \in Text, Len(t) > 0, Spaced(t), t[1] \notin Space, NEW c \in Characters
    PROVE  /\ Len(Squeezed(t, c)) > 0 /\ Spaced(Squeezed(t, c)) /\ Squeezed(t, c)[1] \notin Space
           /\ c \notin Space => Squeezed(t, c)[Len(Squeezed(t, c))] \notin Space
<1> DEFINE n == Len(t)
<1>1. n \in Nat /\ n > 0
  BY DEF Text
<1>2. ASSUME NEW d \in Characters, d \in Space => d = "sp" /\ t[n] \notin Space
      PROVE  /\ Len(Append(t, d)) > 0 /\ Spaced(Append(t, d)) /\ Append(t, d)[1] \notin Space
             /\ Append(t, d)[Len(Append(t, d))] = d
  <2>1. /\ Len(Append(t, d)) = n + 1
        /\ \A i \in 1..n : Append(t, d)[i] = t[i]
        /\ Append(t, d)[n + 1] = d
    BY AppendProperties DEF Text
  <2> DEFINE u == Append(t, d)
  <2> HIDE DEF u
  <2>2. ASSUME NEW i \in 1..(n + 1), u[i] \in Space
        PROVE  u[i] = "sp" /\ i > 1 /\ u[i - 1] \notin Space
    <3>1. CASE i = n + 1
      <4>1. n \in 1..n /\ (n + 1) - 1 = n /\ u[n] = t[n]
        BY <1>1, <2>1 DEF u
      <4> QED
        BY <1>1, <1>2, <2>1, <2>2, <3>1, <4>1 DEF u
    <3>2. CASE i # n + 1
      <4>1. i \in 1..n /\ u[i] = t[i]
        BY <1>1, <2>1, <3>2 DEF u
      <4>2. t[i] = "sp" /\ i > 1 /\ t[i - 1] \notin Space
        BY <2>2, <4>1 DEF Spaced
      <4>3. i - 1 \in 1..n
        BY <1>1, <4>1, <4>2
      <4> QED
        BY <2>1, <4>1, <4>2, <4>3 DEF u
    <3> QED
      BY <3>1, <3>2
  <2>3. Spaced(u)
    BY <2>1, <2>2 DEF Spaced, u
  <2>4. u[1] \notin Space /\ Len(u) > 0 /\ u[Len(u)] = d
    BY <1>1, <2>1 DEF u
  <2> QED
    BY <2>3, <2>4 DEF u
<1>3. CASE c \notin Space
  BY <1>2, <1>3 DEF Squeezed
<1>4. CASE c \in Space /\ Last(t) = "sp"
  BY <1>4 DEF Squeezed
<1>5. CASE c \in Space /\ Last(t) # "sp"
  <2>1. t[n] # "sp" /\ n \in 1..n
    BY <1>1, <1>5 DEF Last
  <2>2. t[n] \notin Space
    BY <2>1 DEF Spaced
  <2>3. "sp" \in Characters
    BY CharactersAssumption
  <2>4. Squeezed(t, c) = Append(t, "sp")
    BY <1>5 DEF Squeezed
  <2> QED
    BY <1>2, <1>5, <2>2, <2>3, <2>4
<1> QED
  BY <1>3, <1>4, <1>5

\* gatus.oneLine leaves words with single spaces between them.
LEMMA OneLineNeat ==
    ASSUME NEW t \in Text
    PROVE  IF TrimSpace(t) = <<>> THEN oneLine(t) = <<>> ELSE oneLine(t) \in Neat
<1> DEFINE s == TrimSpace(t)
           n == Len(s)
<1>1. s \in Text /\ n \in Nat
  BY TextTrimmed DEF Text
<1>2. PICK g \in [0..n -> Text] :
              /\ g[0] = <<>>
              /\ \A m \in 1..n : g[m] = Squeezed(g[m - 1], s[m])
              /\ oneLine(t) = g[n]
  BY Squeezing
<1>3. CASE s = <<>>
  <2>1. n = 0
    BY <1>3
  <2> QED
    BY <1>2, <1>3, <2>1
<1>4. CASE s # <<>>
  <2>1. Tight(s)
    BY <1>4, TrimTight
  <2> HIDE DEF s
  <2>2. n > 0 /\ s[1] \notin Space /\ s[n] \notin Space
    BY <2>1 DEF Tight
  <2> DEFINE Good(u) == Len(u) > 0 /\ Spaced(u) /\ u[1] \notin Space
             X == {u \in Text : Good(u)}
             k == [m \in 0..(n - 1) |-> g[m + 1]]
  <2>3. k[0] \in X /\ (n = 1 => Tight(g[1]))
    <3>1. g[1] = Squeezed(<<>>, s[1])
      <4>1. 1 \in 1..n /\ 1 - 1 = 0
        BY <1>1, <2>2
      <4> QED
        BY <1>2, <4>1
    <3>2. g[1] = <<s[1]>>
      BY <2>2, <3>1 DEF Squeezed
    <3>3. Len(g[1]) = 1 /\ g[1][1] = s[1]
      BY <3>2
    <3>4. Good(g[1]) /\ Tight(g[1])
      BY <2>2, <3>3 DEF Spaced, Tight
    <3>5. 0 \in 0..(n - 1) /\ 0 + 1 = 1 /\ 1 \in 0..n
      BY <1>1, <2>2
    <3>6. k[0] = g[1]
      BY <3>5
    <3> HIDE DEF k, Good
    <3> QED
      BY <3>4, <3>5, <3>6
  <2>4. ASSUME NEW m \in 1..n, m - 1 \in 1..n, g[m - 1] \in X
        PROVE  g[m] \in X /\ (m = n => Tight(g[m]))
    <3>1. s[m] \in Characters
      BY <1>1 DEF Text
    <3>2. g[m] = Squeezed(g[m - 1], s[m]) /\ m \in 0..n
      BY <1>1, <1>2
    <3>3. /\ Len(g[m]) > 0 /\ Spaced(g[m]) /\ g[m][1] \notin Space
          /\ s[m] \notin Space => g[m][Len(g[m])] \notin Space
      BY <2>4, <3>1, <3>2, SqueezedSpaced
    <3> QED
      BY <2>2, <3>2, <3>3 DEF Tight
  <2>5. \A m \in 1..(n - 1) : k[m - 1] \in X => k[m] \in X
    <3> TAKE m \in 1..(n - 1)
    <3>1. /\ m \in 0..(n - 1) /\ m - 1 \in 0..(n - 1) /\ m + 1 \in 1..n /\ (m + 1) - 1 \in 1..n
          /\ (m + 1) - 1 = (m - 1) + 1
      BY <1>1, <2>2
    <3>2. k[m] = g[m + 1] /\ k[m - 1] = g[(m - 1) + 1]
      BY <3>1
    <3> HIDE DEF X, k
    <3> QED
      BY <2>4, <3>1, <3>2
  <2>6. \A m \in 0..(n - 1) : k[m] \in X
    <3> DEFINE top == n - 1
    <3>1. top \in Nat
      BY <1>1, <2>2
    <3>2. k[0] \in X /\ \A m \in 1..top : k[m - 1] \in X => k[m] \in X
      BY <2>3, <2>5
    <3> HIDE DEF X, k, top
    <3>3. \A m \in 0..top : k[m] \in X
      BY <3>1, <3>2, StepsStay
    <3> QED
      BY <3>3 DEF top
  <2>7. g[n] \in X /\ Tight(g[n])
    <3>1. k[n - 1] = g[n] /\ k[n - 1] \in X
      <4>1. n - 1 \in 0..(n - 1) /\ (n - 1) + 1 = n
        BY <1>1, <2>2
      <4>2. k[n - 1] = g[n]
        BY <4>1
      <4> HIDE DEF X, k
      <4> QED
        BY <2>6, <4>1, <4>2
    <3>2. CASE n = 1
      BY <2>3, <3>1, <3>2
    <3>3. CASE n # 1
      <4>1. n \in 1..n /\ n - 1 \in 1..n /\ n - 2 \in 0..(n - 1) /\ (n - 2) + 1 = n - 1
        BY <1>1, <2>2, <3>3
      <4>2. g[n - 1] \in X
        BY <2>6, <4>1
      <4> HIDE DEF X, k
      <4> QED
        BY <2>4, <4>1, <4>2
    <3> QED
      BY <3>2, <3>3
  <2> QED
    BY <1>2, <1>4, <2>7 DEF Neat, s
<1> QED
  BY <1>3, <1>4

\* oneLine changes nothing in a text that it has made, and a space before it is lost.
LEMMA NeatStays ==
    ASSUME NEW t \in Neat
    PROVE  oneLine(t) = t /\ oneLine(<<"sp">> \o t) = t
<1> DEFINE n == Len(t)
<1>1. t \in Text /\ Tight(t) /\ Spaced(t) /\ n \in Nat /\ n > 0
  BY DEF Neat, Tight, Text
<1>2. TrimSpace(t) = t
  BY <1>1, TightStays
<1>3. oneLine(t) = t
  <2>1. PICK g \in [0..n -> Text] :
              /\ g[0] = <<>>
              /\ \A m \in 1..n : g[m] = Squeezed(g[m - 1], t[m])
              /\ oneLine(t) = g[n]
    BY <1>1, <1>2, Squeezing
  <2> DEFINE k == [m \in 0..n |-> SubSeq(t, 1, m)]
  <2>2. g[0] = k[0]
    <3>1. k[0] = SubSeq(t, 1, 0)
      BY <1>1
    <3> QED
      BY <2>1, <3>1
  <2>3. ASSUME NEW m \in 1..n, g[m - 1] = k[m - 1]
        PROVE  g[m] = k[m]
    <3> DEFINE u == SubSeq(t, 1, m - 1)
    <3>1. m - 1 \in 0..n /\ m \in 0..n /\ t[m] \in Characters
      BY <1>1 DEF Text
    <3>2. k[m - 1] = u /\ k[m] = SubSeq(t, 1, m)
      BY <3>1
    <3>3. SubSeq(t, 1, m) = u \o <<t[m]>>
      <4>1. t \in Seq(Characters) /\ 1 \in 1..Len(t) /\ m \in 1..Len(t)
        BY <1>1 DEF Text
      <4> QED
        BY <4>1, SubSeqRecursiveSecond
    <3>4. u \in Text /\ Len(u) = m - 1
      <4>1. m - 1 \in 0..Len(t)
        BY <3>1
      <4> QED
        BY <1>1, <4>1, Beginning DEF Text
    <3>5. u \o <<t[m]>> = Append(u, t[m])
      <4> HIDE DEF u
      <4> QED
        BY <3>1, <3>4, AppendIsConcat DEF Text
    <3>6. g[m] = Squeezed(u, t[m])
      BY <2>1, <2>3, <3>2
    <3>7. CASE t[m] \notin Space
      BY <3>2, <3>3, <3>5, <3>6, <3>7 DEF Squeezed
    <3>8. CASE t[m] \in Space
      <4>1. t[m] = "sp" /\ m > 1 /\ t[m - 1] \notin Space
        BY <1>1, <3>8 DEF Spaced
      <4>2. u[m - 1] = t[m - 1]
        <5>1. m - 1 \in 1..(m - 1) /\ \A i \in 1..(m - 1) : t[i] \in Characters
          BY <1>1, <4>1 DEF Text
        <5>2. \A i \in 1..((m - 1) - 1 + 1) : u[i] = t[1 + i - 1]
          BY <3>1, <5>1, SubSeqProperties
        <5>3. m - 1 \in 1..((m - 1) - 1 + 1) /\ 1 + (m - 1) - 1 = m - 1
          BY <4>1
        <5> HIDE DEF u
        <5> QED
          BY <5>2, <5>3
      <4>3. Last(u) # "sp"
        BY <3>4, <4>1, <4>2 DEF Last, Space
      <4> HIDE DEF u
      <4>4. Squeezed(u, t[m]) = Append(u, "sp")
        BY <3>8, <4>3 DEF Squeezed
      <4> QED
        BY <3>2, <3>3, <3>5, <3>6, <4>1, <4>4
    <3> QED
      BY <3>7, <3>8
  <2>4. InStep(g, k, n)
    <3>1. \A m \in 1..n : g[m - 1] = k[m - 1] => g[m] = k[m]
      BY <2>3
    <3> HIDE DEF k
    <3> QED
      BY <2>2, <3>1 DEF InStep
  <2>5. g[n] = k[n]
    <3> HIDE DEF k, n
    <3>1. \A m \in 0..n : g[m] = k[m]
      BY <1>1, <2>4, SameSteps
    <3> QED
      BY <1>1, <3>1
  <2>6. k[n] = t
    <3>1. k[n] = SubSeq(t, 1, n)
      BY <1>1
    <3> QED
      BY <1>1, <3>1, SubSeqFull DEF Text
  <2> QED
    BY <2>1, <2>5, <2>6
<1>4. TrimSpace(<<"sp">> \o t) = t
  <2> DEFINE s == <<"sp">> \o t
  <2>1. /\ s \in Text /\ Len(s) = 1 + n
        /\ \A k \in 1..(1 + n) : s[k] = IF k <= 1 THEN <<"sp">>[k] ELSE t[k - 1]
    BY <1>1, NewLine, ConcatProperties DEF Text
  <2> HIDE DEF s
  <2>2. /\ 2 \in 1..Len(s) /\ 1 + n \in 1..Len(s) /\ s[1] = "sp"
        /\ s[2] = t[1] /\ s[1 + n] = t[n]
    <3>1. /\ 1 \in 1..(1 + n) /\ 2 \in 1..(1 + n) /\ 1 + n \in 1..(1 + n)
          /\ 2 - 1 = 1 /\ (1 + n) - 1 = n
      BY <1>1
    <3>2. s[1] = <<"sp">>[1] /\ s[2] = t[2 - 1] /\ s[1 + n] = t[(1 + n) - 1]
      BY <1>1, <2>1, <3>1
    <3> QED
      BY <2>1, <3>1, <3>2
  <2>3. \A k \in 1..Len(s) : s[k] \notin Space => 2 <= k /\ k <= 1 + n
    BY <1>1, <2>1, <2>2 DEF Space
  <2>4. TrimSpace(s) = SubSeq(s, 2, 1 + n)
    BY <1>1, <2>1, <2>2, <2>3, TrimKeeps DEF Tight
  <2>5. SubSeq(s, 2, 1 + n) = t
    <3>1. \A i \in 2..(1 + n) : s[i] \in Characters
      BY <1>1, <2>1 DEF Text
    <3>2. /\ SubSeq(s, 2, 1 + n) \in Seq(Characters)
          /\ Len(SubSeq(s, 2, 1 + n)) = IF 2 <= 1 + n THEN (1 + n) - 2 + 1 ELSE 0
          /\ \A i \in 1..((1 + n) - 2 + 1) : SubSeq(s, 2, 1 + n)[i] = s[2 + i - 1]
      BY <1>1, <3>1, SubSeqProperties
    <3>3. ASSUME NEW i \in 1..n
          PROVE  SubSeq(s, 2, 1 + n)[i] = t[i]
      <4>1. i \in 1..((1 + n) - 2 + 1) /\ 2 + i - 1 \in 1..(1 + n) /\ ~(2 + i - 1 <= 1)
            /\ (2 + i - 1) - 1 = i
        BY <1>1
      <4> QED
        BY <2>1, <3>2, <4>1
    <3> DEFINE u == SubSeq(s, 2, 1 + n)
    <3>4. u \in Seq(Characters) /\ Len(u) = n /\ \A i \in 1..n : u[i] = t[i]
      BY <1>1, <3>2, <3>3
    <3> HIDE DEF u
    <3>5. u = t
      BY <1>1, <3>4, SeqEqual DEF Text
    <3> QED
      BY <3>5 DEF u
  <2> QED
    BY <2>4, <2>5 DEF s
<1>5. oneLine(<<"sp">> \o t) = oneLine(t)
  BY <1>2, <1>4 DEF oneLine
<1> QED
  BY <1>3, <1>5

\* A text without white space at its ends and without CR: a line that Format
\* joins, or several of them.
Solid == {t \in Text : Tight(t) /\ \A i \in 1..Len(t) : t[i] # "cr"}

\* A tight text after another, with any text between them, has their ends.
LEMMA SolidConcat ==
    ASSUME NEW t \in Text, NEW u \in Text, Len(t) > 0, t[1] \notin Space,
           Len(u) > 0, u[Len(u)] \notin Space,
           \A i \in 1..Len(t) : t[i] # "cr", \A i \in 1..Len(u) : u[i] # "cr"
    PROVE  t \o u \in Solid
<1>1. /\ t \o u \in Text /\ Len(t) \in Nat /\ Len(u) \in Nat
      /\ Len(t \o u) = Len(t) + Len(u)
      /\ \A i \in 1..(Len(t) + Len(u)) : (t \o u)[i] = IF i <= Len(t) THEN t[i] ELSE u[i - Len(t)]
  BY ConcatProperties DEF Text
<1> DEFINE s == t \o u
           m == Len(t)
           n == Len(u)
<1> HIDE DEF s
<1>2. s[1] = t[1] /\ s[m + n] = u[n] /\ m + n > 0
  <2>1. 1 \in 1..(m + n) /\ 1 <= m /\ m + n \in 1..(m + n) /\ ~(m + n <= m) /\ (m + n) - m = n
    BY <1>1
  <2> QED
    BY <1>1, <2>1 DEF s
<1>3. ASSUME NEW i \in 1..(m + n)
      PROVE  s[i] # "cr"
  <2>1. CASE i <= m
    <3>1. i \in 1..m /\ s[i] = t[i]
      BY <1>1, <2>1 DEF s
    <3> QED
      BY <3>1
  <2>2. CASE ~(i <= m)
    <3>1. i - m \in 1..n /\ s[i] = u[i - m]
      BY <1>1, <2>2 DEF s
    <3> QED
      BY <3>1
  <2> QED
    BY <2>1, <2>2
<1>4. Tight(s)
  BY <1>1, <1>2 DEF Tight, s
<1> QED
  BY <1>1, <1>3, <1>4 DEF Solid, s

\* Solid lines that are joined are solid.
LEMMA SolidJoined ==
    ASSUME NEW t \in Solid, NEW u \in Solid
    PROVE  t \o <<"nl">> \o u \in Solid
<1>1. /\ t \in Text /\ u \in Text /\ Len(t) > 0 /\ Len(u) > 0
      /\ t[1] \notin Space /\ u[Len(u)] \notin Space
      /\ \A i \in 1..Len(t) : t[i] # "cr"
      /\ \A i \in 1..Len(u) : u[i] # "cr"
  BY DEF Solid, Tight
<1> DEFINE s == t \o <<"nl">>
<1>2. /\ s \in Text /\ Len(t) \in Nat /\ Len(s) = Len(t) + 1
      /\ \A i \in 1..(Len(t) + 1) : s[i] = IF i <= Len(t) THEN t[i] ELSE <<"nl">>[i - Len(t)]
  BY <1>1, NewLine, ConcatProperties DEF Text
<1> HIDE DEF s
<1>3. s[1] = t[1] /\ Len(s) > 0
  BY <1>1, <1>2
<1>4. ASSUME NEW i \in 1..Len(s)
      PROVE  s[i] # "cr"
  <2>1. CASE i <= Len(t)
    <3>1. i \in 1..Len(t) /\ s[i] = t[i]
      BY <1>2, <2>1
    <3> QED
      BY <1>1, <3>1
  <2>2. CASE ~(i <= Len(t))
    <3>1. i - Len(t) = 1 /\ s[i] = <<"nl">>[i - Len(t)]
      BY <1>2, <2>2
    <3> QED
      BY <3>1
  <2> QED
    BY <2>1, <2>2
<1>5. s \o u \in Solid
  BY <1>1, <1>2, <1>3, <1>4, SolidConcat
<1> QED
  BY <1>5 DEF s

\* Texts without CR.
NoReturn == {t \in Text : \A i \in 1..Len(t) : t[i] # "cr"}

\* Such texts, one after the other, are such a text.
LEMMA NoReturnConcat ==
    ASSUME NEW t \in NoReturn, NEW u \in NoReturn
    PROVE  t \o u \in NoReturn
<1>1. /\ t \in Text /\ u \in Text
      /\ \A i \in 1..Len(t) : t[i] # "cr"
      /\ \A i \in 1..Len(u) : u[i] # "cr"
  BY DEF NoReturn
<1> DEFINE s == t \o u
           m == Len(t)
           n == Len(u)
<1>2. /\ s \in Text /\ m \in Nat /\ n \in Nat /\ Len(s) = m + n
      /\ \A i \in 1..(m + n) : s[i] = IF i <= m THEN t[i] ELSE u[i - m]
  BY <1>1, ConcatProperties DEF Text
<1> HIDE DEF s
<1>3. ASSUME NEW i \in 1..(m + n)
      PROVE  s[i] # "cr"
  <2>1. CASE i <= m
    <3>1. i \in 1..m /\ s[i] = t[i]
      BY <1>2, <2>1
    <3> QED
      BY <1>1, <3>1
  <2>2. CASE ~(i <= m)
    <3>1. i - m \in 1..n /\ s[i] = u[i - m]
      BY <1>2, <2>2
    <3> QED
      BY <1>1, <3>1
  <2> QED
    BY <2>1, <2>2
<1> QED
  BY <1>2, <1>3 DEF NoReturn, s

\* gatus.multiLine leaves no CR, and no white space at the ends.
LEMMA MultiLineSolid ==
    ASSUME NEW t \in Text, multiLine(t) # <<>>
    PROVE  multiLine(t) \in Solid
<1> DEFINE q == [i \in DOMAIN t |-> Broken(t, i)]
           n == Len(t)
           flat == FlattenSeq(q)
<1>1. multiLine(t) = TrimSpace(flat)
  BY DEF multiLine, Broken
<1>2. DOMAIN t = 1..n /\ n \in Nat /\ \A i \in 1..n : t[i] \in Characters
  BY DEF Text
<1>3. ASSUME NEW i \in 1..n PROVE Broken(t, i) \in NoReturn /\ Broken(t, i) \in Text
  <2>1. <<t[i]>> \in Text /\ <<>> \in Text /\ <<"nl">> \in Text
    BY <1>2, NewLine DEF Text
  <2>2. <<>> \in NoReturn /\ <<"nl">> \in NoReturn /\ (t[i] # "cr" => <<t[i]>> \in NoReturn)
    BY <2>1 DEF NoReturn
  <2> QED
    BY <2>1, <2>2 DEF Broken
<1>4. q \in Seq(Text) /\ Len(q) = n /\ \A i \in 1..n : q[i] \in NoReturn
  BY <1>2, <1>3
<1> HIDE DEF q
<1>5. PICK g \in [0..Len(q) -> Text] :
              /\ g[0] = <<>>
              /\ \A m \in 1..Len(q) : g[m] = g[m - 1] \o q[m]
              /\ flat = g[Len(q)]
  BY <1>4, Flattened
<1>6. flat \in NoReturn
  <2>1. g[0] \in NoReturn
    BY <1>5 DEF NoReturn, Text
  <2>2. \A m \in 1..n : g[m - 1] \in NoReturn => g[m] \in NoReturn
    BY <1>4, <1>5, NoReturnConcat
  <2> HIDE DEF n
  <2>3. \A m \in 0..n : g[m] \in NoReturn
    BY <1>2, <2>1, <2>2, StepsStay
  <2> QED
    BY <1>2, <1>4, <1>5, <2>3
<1> HIDE DEF flat
<1>7. flat \in Text /\ \A i \in 1..Len(flat) : flat[i] # "cr"
  BY <1>6 DEF NoReturn
<1>8. TrimSpace(flat) \in Text
  BY <1>7, TextTrimmed
<1>9. /\ Tight(TrimSpace(flat))
      /\ \A k \in 1..Len(TrimSpace(flat)) : \E m \in 1..Len(flat) : TrimSpace(flat)[k] = flat[m]
  BY <1>1, <1>7, TrimTight
<1>10. \A k \in 1..Len(TrimSpace(flat)) : TrimSpace(flat)[k] # "cr"
  BY <1>7, <1>9, Zenon
<1> QED
  BY <1>1, <1>8, <1>9, <1>10 DEF Solid

\* gatus.multiLine changes nothing in a text without CR and white space at its ends.
LEMMA SolidStays ==
    ASSUME NEW t \in Solid
    PROVE  multiLine(t) = t
<1> DEFINE q == [i \in DOMAIN t |-> Broken(t, i)]
           n == Len(t)
           k == [m \in 0..n |-> SubSeq(t, 1, m)]
<1>0. t \in Text /\ Tight(t) /\ \A i \in 1..n : t[i] # "cr"
  BY DEF Solid
<1>1. multiLine(t) = TrimSpace(FlattenSeq(q))
  BY DEF multiLine, Broken
<1>2. DOMAIN t = 1..n /\ n \in Nat /\ \A i \in 1..n : t[i] \in Characters
  BY <1>0 DEF Text
<1>3. ASSUME NEW i \in 1..n PROVE Broken(t, i) = <<t[i]>>
  <2>1. t[i] # "cr" /\ (i > 1 => i - 1 \in 1..n)
    BY <1>0, <1>2
  <2> QED
    BY <1>0, <2>1 DEF Broken
<1>4. q \in Seq(Text) /\ Len(q) = n /\ \A i \in 1..n : q[i] = <<t[i]>>
  <2>1. \A i \in 1..n : <<t[i]>> \in Text
    BY <1>2 DEF Text
  <2> QED
    BY <1>2, <1>3, <2>1
<1> HIDE DEF q
<1>5. PICK g \in [0..Len(q) -> Text] :
              /\ g[0] = <<>>
              /\ \A m \in 1..Len(q) : g[m] = g[m - 1] \o q[m]
              /\ FlattenSeq(q) = g[Len(q)]
  BY <1>4, Flattened
<1>6. InStep(g, k, n)
  <2>1. g[0] = k[0]
    <3>1. k[0] = SubSeq(t, 1, 0)
      BY <1>2
    <3> QED
      BY <1>5, <3>1
  <2>2. ASSUME NEW m \in 1..n, g[m - 1] = k[m - 1]
        PROVE  g[m] = k[m]
    <3>1. m - 1 \in 0..n /\ m \in 0..n
      BY <1>2
    <3>2. k[m - 1] = SubSeq(t, 1, m - 1) /\ k[m] = SubSeq(t, 1, m)
      BY <3>1
    <3>3. SubSeq(t, 1, m) = SubSeq(t, 1, m - 1) \o <<t[m]>>
      <4>1. t \in Seq(Characters) /\ 1 \in 1..Len(t) /\ m \in 1..Len(t)
        BY <1>0, <1>2 DEF Text
      <4> QED
        BY <4>1, SubSeqRecursiveSecond
    <3> HIDE DEF k
    <3> QED
      BY <1>4, <1>5, <2>2, <3>2, <3>3
  <2>3. \A m \in 1..n : g[m - 1] = k[m - 1] => g[m] = k[m]
    BY <2>2
  <2> HIDE DEF k
  <2> QED
    BY <2>1, <2>3 DEF InStep
<1>7. g[n] = t
  <2>1. k[n] = SubSeq(t, 1, n)
    BY <1>2
  <2>2. g[n] = k[n]
    <3> HIDE DEF k, n
    <3>1. \A m \in 0..n : g[m] = k[m]
      BY <1>2, <1>6, SameSteps
    <3> QED
      BY <1>2, <3>1
  <2> QED
    BY <1>0, <2>1, <2>2, SubSeqFull DEF Text
<1> QED
  BY <1>0, <1>1, <1>4, <1>5, <1>7, TightStays
-----------------------------------------------------------------------------
(* The lines of a text. *)

\* Never without a line.
SomeLines == {q \in Seq(Text) : q # <<>>}

\* What becomes of the lines with the next character.
Added(lines, c) ==
    IF c = "nl" THEN Append(lines, <<>>) ELSE Append(Front(lines), Append(Last(lines), c))

\* The last line grows or a new one begins, whatever lines precede it.
LEMMA AddedLines ==
    ASSUME NEW q \in SomeLines, NEW c \in Characters
    PROVE  /\ Added(q, c) \in SomeLines
           /\ \A p \in Seq(Text) : p \o q \in SomeLines /\ Added(p \o q, c) = p \o Added(q, c)
<1> DEFINE n == Len(q)
           front == SubSeq(q, 1, n - 1)
           last == q[n]
<1>1. q \in Seq(Text) /\ n \in Nat /\ n > 0 /\ n \in 1..n
  BY DEF SomeLines
<1>2. front \in Seq(Text) /\ last \in Text
  <2>1. n - 1 \in 0..Len(q)
    BY <1>1
  <2> QED
    BY <1>1, <2>1, Beginning, ElementOfSeq
<1>3. Front(q) = front /\ Last(q) = last
  BY DEF Front, Last
<1> HIDE DEF front, last
<1>4. Append(last, c) \in Text /\ <<>> \in Text
  BY <1>2, TextAppend DEF Text
<1>5. /\ Append(q, <<>>) \in SomeLines
      /\ Append(front, Append(last, c)) \in SomeLines
  BY <1>1, <1>2, <1>4, AppendProperties DEF SomeLines
<1>6. ASSUME NEW p \in Seq(Text)
      PROVE  p \o q \in SomeLines /\ Added(p \o q, c) = p \o Added(q, c)
  <2> DEFINE s == p \o q
             l == Len(p)
  <2>1. /\ s \in Seq(Text) /\ l \in Nat /\ Len(s) = l + n
        /\ \A i \in 1..(l + n) : s[i] = IF i <= l THEN p[i] ELSE q[i - l]
    BY <1>1, ConcatProperties
  <2>2. s \in SomeLines
    <3> HIDE DEF s
    <3>1. s # <<>>
      BY <1>1, <2>1
    <3> QED
      BY <2>1, <3>1 DEF SomeLines
  <2>3. Last(s) = last
    <3>1. l + n \in 1..(l + n) /\ ~(l + n <= l) /\ (l + n) - l = n
      BY <1>1, <2>1
    <3> QED
      BY <2>1, <3>1 DEF Last, last
  <2>4. Front(s) = p \o front
    <3>1. q = front \o <<last>>
      <4>1. 1 \in 1..Len(q) /\ n \in 1..Len(q)
        BY <1>1
      <4>2. SubSeq(q, 1, n) = SubSeq(q, 1, n - 1) \o <<q[n]>>
        BY <1>1, <4>1, SubSeqRecursiveSecond
      <4> QED
        BY <1>1, <4>2, SubSeqFull DEF front, last
    <3>2. s = (p \o front) \o <<last>>
      <4>1. <<last>> \in Seq(Text)
        BY <1>2
      <4>2. (p \o front) \o <<last>> = p \o (front \o <<last>>)
        BY <1>2, <4>1, ConcatAssociative
      <4> QED
        BY <3>1, <4>2
    <3> DEFINE f == p \o front
    <3>3. f \in Seq(Text) /\ Len(f) = l + (n - 1)
      <4>1. n - 1 \in 0..Len(q)
        BY <1>1
      <4>2. Len(front) = n - 1
        BY <1>1, <4>1, Beginning DEF front
      <4> QED
        BY <1>2, <4>2, ConcatProperties
    <3> HIDE DEF f
    <3>4. f \o <<last>> = s /\ <<last>> \in Seq(Text) /\ Len(s) - 1 = Len(f)
      BY <1>1, <1>2, <2>1, <3>2, <3>3 DEF f
    <3>5. SubSeq(f \o <<last>>, 1, Len(f)) = f
      <4>1. CASE Len(f) = 0
        BY <3>3, <4>1
      <4>2. CASE Len(f) # 0
        <5>1. 1 \in 1..Len(f) /\ Len(f) \in 1..Len(f)
          BY <3>3, <4>2
        <5>2. SubSeq(f \o <<last>>, 1, Len(f)) = SubSeq(f, 1, Len(f))
          BY <3>3, <3>4, <5>1, SubSeqOfConcat1
        <5> QED
          BY <3>3, <5>2, SubSeqFull
      <4> QED
        BY <4>1, <4>2
    <3> QED
      BY <3>4, <3>5 DEF Front, f
  <2> HIDE DEF s
  <2>5. CASE c = "nl"
    <3>1. <<<<>>>> \in Seq(Text)
      BY <1>4
    <3>2. Append(s, <<>>) = s \o <<<<>>>>
      BY <1>4, <2>1, AppendIsConcat
    <3>3. Append(q, <<>>) = q \o <<<<>>>>
      BY <1>1, <1>4, AppendIsConcat
    <3>4. (p \o q) \o <<<<>>>> = p \o (q \o <<<<>>>>)
      BY <1>1, <3>1, ConcatAssociative
    <3> QED
      BY <2>2, <2>5, <3>2, <3>3, <3>4 DEF Added, s
  <2>6. CASE c # "nl"
    <3> DEFINE new == Append(last, c)
    <3>1. new \in Text /\ <<new>> \in Seq(Text)
      BY <1>4
    <3>2. Added(s, c) = Append(p \o front, new) /\ Added(q, c) = Append(front, new)
      BY <1>3, <2>3, <2>4, <2>6 DEF Added
    <3> HIDE DEF new
    <3>3. Append(p \o front, new) = (p \o front) \o <<new>>
      <4>1. p \o front \in Seq(Text)
        BY <1>2, ConcatProperties
      <4> QED
        BY <3>1, <4>1, AppendIsConcat
    <3>4. Append(front, new) = front \o <<new>>
      BY <1>2, <3>1, AppendIsConcat
    <3>5. (p \o front) \o <<new>> = p \o (front \o <<new>>)
      BY <1>2, <3>1, ConcatAssociative
    <3> QED
      BY <2>2, <3>2, <3>3, <3>4, <3>5 DEF s
  <2> QED
    BY <2>5, <2>6
<1>7. Added(q, c) \in SomeLines
  BY <1>3, <1>5 DEF Added
<1> QED
  BY <1>6, <1>7

\* Lines adds the characters one by one.
LEMMA Adding ==
    ASSUME NEW t \in Text
    PROVE  \E g \in [0..Len(t) -> SomeLines] :
              /\ g[0] = << <<>> >>
              /\ \A m \in 1..Len(t) : g[m] = Added(g[m - 1], t[m])
              /\ Lines(t) = g[Len(t)]
<1> DEFINE step == [p \in SomeLines \X Characters |-> Added(p[1], p[2])]
           base == << <<>> >>
           Raw(f) == f = [T \in SUBSET DOMAIN t |->
                             IF T = {} THEN base ELSE Added(f[T \ {Max(T)}], t[Max(T)])]
           F == CHOOSE f : Raw(f)
<1>1. /\ base \in SomeLines /\ t \in Seq(Characters)
      /\ DOMAIN t = 1..Len(t) /\ Len(t) \in Nat
  <2>1. <<>> \in Text
    BY DEF Text
  <2> QED
    BY <2>1 DEF SomeLines, Text
<1>2. ASSUME NEW u \in SomeLines, NEW c \in Characters
      PROVE  Added(u, c) \in SomeLines /\ step[<<u, c>>] = Added(u, c)
  BY AddedLines
<1>3. step \in [SomeLines \X Characters -> SomeLines]
  BY <1>2
<1>4. Lines(t) = F[DOMAIN t]
  BY DEF Lines, FoldLeft, MapThenFoldSet, Added
<1>5. \A T \in SUBSET (1..Len(t)) : T # {} => t[Max(T)] \in Characters
  <2>1. \A T \in SUBSET (1..Len(t)) : T # {} => Max(T) \in 1..Len(t)
    BY <1>1, MaxOf
  <2> QED
    BY <1>1, <2>1, ElementOfSeq
<1> HIDE DEF step, base
<1>6. Raw(F)
  <2>1. PICK h \in [SUBSET (1..Len(t)) -> SomeLines] : Folding(h, t, base, step)
    BY <1>1, <1>3, FoldExists
  <2>2. ASSUME NEW T \in SUBSET (1..Len(t)), T # {}
        PROVE  step[<<h[T \ {Max(T)}], t[Max(T)]>>] = Added(h[T \ {Max(T)}], t[Max(T)])
    BY <1>2, <1>5, <2>2
  <2>3. Raw(h)
    BY <1>1, <2>1, <2>2 DEF Folding
  <2> HIDE DEF Raw
  <2> QED
    BY <2>3
<1> HIDE DEF F
<1>7. Unfolds(F, SomeLines, t, base, step)
  <2>1. F[{}] = base
    BY <1>1, <1>6
  <2>2. ASSUME NEW T \in SUBSET (1..Len(t)), T # {}, F[T \ {Max(T)}] \in SomeLines
        PROVE  F[T] = step[<<F[T \ {Max(T)}], t[Max(T)]>>]
    <3>1. F[T] = Added(F[T \ {Max(T)}], t[Max(T)])
      BY <1>1, <1>6, <2>2
    <3>2. step[<<F[T \ {Max(T)}], t[Max(T)]>>] = Added(F[T \ {Max(T)}], t[Max(T)])
      BY <1>2, <1>5, <2>2
    <3> QED
      BY <3>1, <3>2
  <2> HIDE DEF Raw
  <2> QED
    BY <2>1, <2>2 DEF Unfolds
<1>8. PICK g \in [0..Len(t) -> SomeLines] : Stepping(g, t, base, step, F[1..Len(t)])
  BY <1>1, <1>3, <1>7, FoldResult
<1>9. \A m \in 1..Len(t) : g[m - 1] \in SomeLines /\ t[m] \in Characters
  BY <1>1, ElementOfSeq
<1>10. g[0] = base /\ \A m \in 1..Len(t) : g[m] = Added(g[m - 1], t[m])
  BY <1>2, <1>8, <1>9 DEF Stepping
<1>11. Lines(t) = g[Len(t)]
  BY <1>1, <1>4, <1>8 DEF Stepping
<1> QED
  BY <1>10, <1>11 DEF base

\* strings.Split gives at least one line.
LEMMA LinesSome ==
    ASSUME NEW t \in Text
    PROVE  Lines(t) \in SomeLines
<1>1. Len(t) \in 0..Len(t)
  BY DEF Text
<1>2. PICK g \in [0..Len(t) -> SomeLines] : Lines(t) = g[Len(t)]
  BY Adding
<1> QED
  BY <1>1, <1>2

\* The lines of two texts with a line break between are those of both.
LEMMA LinesConcat ==
    ASSUME NEW t \in Text, NEW u \in Text
    PROVE  Lines(t \o <<"nl">> \o u) = Lines(t) \o Lines(u)
<1> DEFINE first == t \o <<"nl">>
           all == first \o u
           n == Len(t)
           l == Len(u)
           p == Lines(t)
<1>0. /\ t \in Seq(Characters) /\ u \in Seq(Characters) /\ <<"nl">> \in Seq(Characters)
      /\ n \in Nat /\ l \in Nat
  BY NewLine DEF Text
<1>1. /\ first \in Seq(Characters) /\ Len(first) = n + 1
      /\ \A m \in 1..(n + 1) : first[m] = IF m <= n THEN t[m] ELSE <<"nl">>[m - n]
  BY <1>0, ConcatProperties
<1> HIDE DEF first
<1>2. /\ all \in Text /\ Len(all) = (n + 1) + l
      /\ \A m \in 1..((n + 1) + l) : all[m] = IF m <= n + 1 THEN first[m] ELSE u[m - (n + 1)]
  <2>1. /\ all \in Seq(Characters) /\ Len(all) = Len(first) + l
        /\ \A m \in 1..(Len(first) + l) : all[m] = IF m <= Len(first) THEN first[m]
                                              ELSE u[m - Len(first)]
    <3>1. first \in Seq(Characters) /\ u \in Seq(Characters)
      BY <1>0, <1>1
    <3> QED
      BY <3>1, ConcatProperties
  <2> HIDE DEF all
  <2> QED
    BY <1>1, <2>1 DEF Text
<1> HIDE DEF all
<1>3. /\ \A m \in 1..n : m \in 1..Len(all) /\ all[m] = t[m]
      /\ n + 1 \in 1..Len(all) /\ all[n + 1] = "nl"
      /\ \A m \in 1..l : (n + 1) + m \in 1..Len(all) /\ all[(n + 1) + m] = u[m]
  <2>1. ASSUME NEW m \in 1..n
        PROVE  m \in 1..Len(all) /\ all[m] = t[m]
    <3>1. m \in 1..(n + 1) /\ m <= n /\ m <= n + 1 /\ m \in 1..((n + 1) + l)
      BY <1>0
    <3> QED
      BY <1>1, <1>2, <3>1
  <2>2. n + 1 \in 1..Len(all) /\ all[n + 1] = "nl"
    <3>1. /\ n + 1 \in 1..(n + 1) /\ ~(n + 1 <= n) /\ n + 1 <= n + 1 /\ n + 1 \in 1..((n + 1) + l)
          /\ (n + 1) - n = 1
      BY <1>0
    <3> QED
      BY <1>1, <1>2, <3>1
  <2>3. ASSUME NEW m \in 1..l
        PROVE  (n + 1) + m \in 1..Len(all) /\ all[(n + 1) + m] = u[m]
    <3>1. /\ (n + 1) + m \in 1..((n + 1) + l) /\ ~((n + 1) + m <= n + 1)
          /\ ((n + 1) + m) - (n + 1) = m
      BY <1>0
    <3> QED
      BY <1>2, <3>1
  <2>4. \A m \in 1..n : m \in 1..Len(all) /\ all[m] = t[m]
    BY <2>1
  <2>5. \A m \in 1..l : (n + 1) + m \in 1..Len(all) /\ all[(n + 1) + m] = u[m]
    BY <2>3
  <2> HIDE DEF n, l
  <2> QED
    BY <2>2, <2>4, <2>5
<1>4. PICK g \in [0..Len(all) -> SomeLines] :
              /\ g[0] = << <<>> >>
              /\ \A m \in 1..Len(all) : g[m] = Added(g[m - 1], all[m])
              /\ Lines(all) = g[Len(all)]
  BY <1>2, Adding
<1>5. PICK a \in [0..n -> SomeLines] :
              /\ a[0] = << <<>> >>
              /\ \A m \in 1..n : a[m] = Added(a[m - 1], t[m])
              /\ Lines(t) = a[n]
  BY Adding
<1>6. PICK b \in [0..l -> SomeLines] :
              /\ b[0] = << <<>> >>
              /\ \A m \in 1..l : b[m] = Added(b[m - 1], u[m])
              /\ Lines(u) = b[l]
  BY Adding
<1>7. p \in SomeLines /\ p \in Seq(Text)
  BY LinesSome DEF SomeLines
<1> HIDE DEF n, l
<1>8. g[n] = p
  <2>1. ASSUME NEW m \in 1..n, a[m - 1] = g[m - 1]
        PROVE  a[m] = g[m]
    BY <1>3, <1>4, <1>5, <2>1
  <2>2. InStep(a, g, n)
    <3>1. \A m \in 1..n : a[m - 1] = g[m - 1] => a[m] = g[m]
      BY <2>1
    <3> QED
      BY <1>4, <1>5, <3>1 DEF InStep
  <2>3. \A m \in 0..n : a[m] = g[m]
    BY <1>0, <2>2, SameSteps
  <2> QED
    BY <1>0, <1>5, <2>3
<1> HIDE DEF p
<1> DEFINE left == [m \in 0..l |-> g[(n + 1) + m]]
           right == [m \in 0..l |-> p \o b[m]]
<1>9. left[0] = right[0]
  <2>1. g[n + 1] = Added(p, "nl")
    <3>1. (n + 1) - 1 = n
      BY <1>0
    <3> QED
      BY <1>3, <1>4, <1>8, <3>1
  <2>2. Added(p, "nl") = p \o << <<>> >>
    <3>1. <<>> \in Text
      BY DEF Text
    <3>2. Append(p, <<>>) = p \o << <<>> >>
      BY <1>7, <3>1, AppendIsConcat
    <3> QED
      BY <3>2 DEF Added
  <2>3. 0 \in 0..l /\ (n + 1) + 0 = n + 1
    BY <1>0
  <2>4. left[0] = g[n + 1] /\ right[0] = p \o b[0]
    BY <2>3
  <2> HIDE DEF left, right
  <2> QED
    BY <1>6, <2>1, <2>2, <2>4
<1>10. ASSUME NEW m \in 1..l, left[m - 1] = right[m - 1]
       PROVE  left[m] = right[m]
  <2>1. /\ m \in 0..l /\ m - 1 \in 0..l
        /\ ((n + 1) + m) - 1 = (n + 1) + (m - 1)
    BY <1>0
  <2>2. /\ left[m - 1] = g[(n + 1) + (m - 1)] /\ left[m] = g[(n + 1) + m]
        /\ right[m - 1] = p \o b[m - 1] /\ right[m] = p \o b[m]
    BY <2>1
  <2> HIDE DEF left, right
  <2>3. g[(n + 1) + m] = Added(g[((n + 1) + m) - 1], u[m])
    BY <1>3, <1>4
  <2>4. b[m] = Added(b[m - 1], u[m]) /\ b[m - 1] \in SomeLines /\ u[m] \in Characters
    BY <1>0, <1>6, <2>1 DEF l
  <2>5. Added(p \o b[m - 1], u[m]) = p \o Added(b[m - 1], u[m])
    BY <1>7, <2>4, AddedLines
  <2> QED
    BY <1>10, <2>1, <2>2, <2>3, <2>4, <2>5
<1>11. left[l] = right[l]
  <2>1. \A m \in 1..l : left[m - 1] = right[m - 1] => left[m] = right[m]
    BY <1>10
  <2> HIDE DEF left, right
  <2>2. InStep(left, right, l)
    BY <1>9, <2>1 DEF InStep
  <2>3. \A m \in 0..l : left[m] = right[m]
    BY <1>0, <2>2, SameSteps
  <2> QED
    BY <1>0, <2>3
<1>12. left[l] = g[(n + 1) + l] /\ right[l] = p \o b[l]
  BY <1>0
<1> HIDE DEF left, right
<1> QED
  BY <1>2, <1>4, <1>6, <1>11, <1>12 DEF all, first, p

\* A text without a line break is one line.
LEMMA LinesOne ==
    ASSUME NEW t \in Text, \A i \in 1..Len(t) : t[i] # "nl"
    PROVE  Lines(t) = <<t>>
<1> DEFINE n == Len(t)
           k == [m \in 0..n |-> << SubSeq(t, 1, m) >>]
<1>1. n \in Nat /\ t \in Seq(Characters)
  BY DEF Text
<1>2. PICK g \in [0..n -> SomeLines] :
              /\ g[0] = << <<>> >>
              /\ \A m \in 1..n : g[m] = Added(g[m - 1], t[m])
              /\ Lines(t) = g[n]
  BY Adding
<1>3. g[0] = k[0]
  <2>1. k[0] = << SubSeq(t, 1, 0) >> /\ SubSeq(t, 1, 0) = <<>>
    BY <1>1
  <2> QED
    BY <1>2, <2>1
<1>4. ASSUME NEW m \in 1..n, g[m - 1] = k[m - 1]
      PROVE  g[m] = k[m]
  <2> DEFINE u == SubSeq(t, 1, m - 1)
  <2>1. m - 1 \in 0..n /\ m \in 0..n /\ t[m] \in Characters /\ m - 1 \in 0..Len(t)
    BY <1>1
  <2>2. k[m - 1] = <<u>> /\ k[m] = << SubSeq(t, 1, m) >>
    BY <2>1
  <2>3. SubSeq(t, 1, m) = u \o <<t[m]>>
    <3>1. 1 \in 1..Len(t) /\ m \in 1..Len(t)
      BY <1>1
    <3> QED
      BY <1>1, <3>1, SubSeqRecursiveSecond
  <2>4. u \in Seq(Characters)
    BY <1>1, <2>1, Beginning
  <2>5. Append(u, t[m]) = u \o <<t[m]>>
    <3> HIDE DEF u
    <3> QED
      BY <2>1, <2>4, AppendIsConcat
  <2> HIDE DEF u, k
  <2>6. Added(<<u>>, t[m]) = << Append(u, t[m]) >>
    <3>1. Front(<<u>>) = <<>> /\ Last(<<u>>) = u
      <4>1. Len(<<u>>) = 1 /\ <<u>>[1] = u
        OBVIOUS
      <4>2. SubSeq(<<u>>, 1, 0) = <<>>
        BY SubSeqEmpty
      <4> QED
        BY <4>1, <4>2 DEF Front, Last
    <3>2. t[m] # "nl"
      OBVIOUS
    <3> DEFINE x == Append(u, t[m])
    <3>3. <<>> \in Seq({x}) /\ <<x>> \in Seq({x})
      OBVIOUS
    <3> HIDE DEF x
    <3>4. Append(<<>>, x) = <<>> \o <<x>> /\ <<>> \o <<x>> = <<x>>
      BY <3>3, AppendIsConcat, ConcatEmptySeq
    <3>5. Added(<<u>>, t[m]) = Append(Front(<<u>>), Append(Last(<<u>>), t[m]))
      BY <3>2 DEF Added
    <3> QED
      BY <3>1, <3>4, <3>5 DEF x
  <2> QED
    BY <1>2, <1>4, <2>2, <2>3, <2>5, <2>6
<1>5. g[n] = k[n]
  <2>1. \A m \in 1..n : g[m - 1] = k[m - 1] => g[m] = k[m]
    BY <1>4
  <2> HIDE DEF k, n
  <2>2. InStep(g, k, n)
    BY <1>3, <2>1 DEF InStep
  <2>3. \A m \in 0..n : g[m] = k[m]
    BY <1>1, <2>2, SameSteps
  <2> QED
    BY <1>1, <2>3
<1>6. k[n] = <<t>>
  <2>1. k[n] = << SubSeq(t, 1, n) >>
    BY <1>1
  <2> QED
    BY <1>1, <2>1, SubSeqFull
<1> QED
  BY <1>2, <1>5, <1>6
-----------------------------------------------------------------------------
(* The logs agree. *)

\* What oneLine makes of a text is one line.
LEMMA NeatSolid ==
    ASSUME NEW t \in Neat
    PROVE  t \in Solid /\ \A i \in 1..Len(t) : t[i] # "nl"
BY DEF Neat, Spaced, Solid, Space

\* A label and a value make a solid line, and one line of one line.
LEMMA LabelledSolid ==
    ASSUME NEW label \in Characters \ Space, NEW value \in Solid
    PROVE  /\ Labelled(label, value) \in Solid
           /\ IfAny(label, value) \in Seq(Solid)
           /\ (\A i \in 1..Len(value) : value[i] # "nl")
                  => \A i \in 1..Len(Labelled(label, value)) : Labelled(label, value)[i] # "nl"
<1> DEFINE l == <<label, ":", "sp">>
           n == Len(value)
<1>1. /\ l \in Text /\ Len(l) = 3 /\ l[1] = label /\ l[2] = ":" /\ l[3] = "sp"
      /\ label # "cr" /\ label # "nl"
  BY CharactersAssumption DEF Text, Space
<1>2. \A i \in 1..Len(l) : l[i] # "cr" /\ l[i] # "nl"
  BY <1>1
<1> HIDE DEF l
<1>3. /\ value \in Text /\ n \in Nat /\ n > 0 /\ value[n] \notin Space
      /\ \A i \in 1..n : value[i] # "cr"
  BY DEF Solid, Tight, Text
<1>4. l \o value \in Solid
  BY <1>1, <1>2, <1>3, SolidConcat
<1>5. Labelled(label, value) = l \o value
  BY DEF Labelled, l
<1>6. ASSUME \A i \in 1..n : value[i] # "nl", NEW i \in 1..Len(l \o value)
      PROVE  (l \o value)[i] # "nl"
  <2>1. /\ Len(l \o value) = 3 + n
        /\ \A k \in 1..(3 + n) : (l \o value)[k] = IF k <= 3 THEN l[k] ELSE value[k - 3]
    <3>1. l \in Seq(Characters) /\ value \in Seq(Characters)
      BY <1>1, <1>3 DEF Text
    <3>2. /\ Len(l \o value) = Len(l) + n
          /\ \A k \in 1..(Len(l) + n) : (l \o value)[k] = IF k <= Len(l) THEN l[k]
                                                        ELSE value[k - Len(l)]
      BY <3>1, ConcatProperties
    <3> QED
      BY <1>1, <3>2
  <2>2. CASE i <= 3
    <3>1. i \in 1..3 /\ i \in 1..(3 + n)
      BY <1>3, <2>1, <2>2
    <3>2. (l \o value)[i] = l[i] /\ l[i] # "nl"
      BY <1>1, <1>2, <2>1, <2>2, <3>1
    <3> QED
      BY <3>2
  <2>3. CASE ~(i <= 3)
    <3>1. i - 3 \in 1..n /\ i \in 1..(3 + n)
      BY <1>3, <2>1, <2>3
    <3> QED
      BY <1>6, <2>1, <2>3, <3>1
  <2> QED
    BY <2>2, <2>3
<1>7. IfAny(label, value) \in Seq(Solid)
  BY <1>4, <1>5 DEF IfAny
<1> QED
  BY <1>4, <1>5, <1>6, <1>7

\* The lines of an alert that is valid: the state, the endpoint, and others, all solid.
LEMMA SolidLines ==
    ASSUME NEW a \in Alert, Validate(a)
    PROVE  /\ oneLine(a.state) \in Neat /\ oneLine(LogValue(a)) \in Neat
           /\ FormatLines(a) \in Seq(Solid) /\ Len(FormatLines(a)) >= 2
           /\ FormatLines(a)[1] = oneLine(a.state)
           /\ FormatLines(a)[2] = Labelled("Endpoint", oneLine(LogValue(a)))
<1> DEFINE state == oneLine(a.state)
           endpoint == Labelled("Endpoint", oneLine(LogValue(a)))
           two == <<state, endpoint>>
           u == IfAny("URL", oneLine(a.url))
           d == IfAny("Description", multiLine(a.description))
           e == IfAny("Errors", multiLine(a.errors))
<1>0. /\ a.state \in Text /\ a.name \in Text /\ a.group \in Text /\ a.url \in Text
      /\ a.description \in Text /\ a.errors \in Text
  BY DEF Alert
<1>1. /\ "Endpoint" \in Characters \ Space /\ "URL" \in Characters \ Space
      /\ "Description" \in Characters \ Space /\ "Errors" \in Characters \ Space
  BY CharactersAssumption DEF Space
<1>2. state \in Neat
  BY <1>0, OneLineNeat DEF Validate
<1>3. oneLine(LogValue(a)) \in Neat
  <2> DEFINE name == TrimSpace(a.name)
             group == TrimSpace(a.group)
             v == LogValue(a)
  <2>1. name \in Text /\ group \in Text /\ name # <<>>
    BY <1>0, TextTrimmed DEF Validate
  <2>2. Tight(name)
    BY <1>0, <2>1, TrimTight
  <2>3. v \in Text
    BY LogValueText
  <2>4. \E before \in Text : v = before \o name
    <3>1. <<>> \in Text /\ <<"sp", "/", "sp">> \in Text
      BY CharactersAssumption DEF Text
    <3>2. group \o <<"sp", "/", "sp">> \in Text
      BY <2>1, <3>1, TextConcat
    <3>3. v = (IF group = <<>> THEN <<>> ELSE group \o <<"sp", "/", "sp">>) \o name
      BY DEF LogValue
    <3> HIDE DEF name, group, v
    <3> QED
      BY <3>1, <3>2, <3>3
  <2>5. PICK before \in Text : v = before \o name
    BY <2>4
  <2> HIDE DEF name, v
  <2>6. \E k \in 1..Len(v) : v[k] \notin Space
    <3>1. /\ Len(before) \in Nat /\ Len(name) \in Nat /\ Len(name) > 0 /\ name[1] \notin Space
      BY <2>1, <2>2 DEF Text, Tight
    <3>2. /\ Len(v) = Len(before) + Len(name)
          /\ \A i \in 1..(Len(before) + Len(name)) :
                v[i] = IF i <= Len(before) THEN before[i] ELSE name[i - Len(before)]
      BY <2>1, <2>5, ConcatProperties DEF Text
    <3>3. /\ Len(before) + 1 \in 1..(Len(before) + Len(name)) /\ ~(Len(before) + 1 <= Len(before))
          /\ (Len(before) + 1) - Len(before) = 1
      BY <3>1
    <3>4. v[Len(before) + 1] = name[1]
      BY <3>2, <3>3
    <3> QED
      BY <3>1, <3>2, <3>3, <3>4
  <2>7. TrimSpace(v) # <<>>
    BY <2>3, <2>6, TrimNotEmpty
  <2> QED
    BY <2>3, <2>7, OneLineNeat DEF v
<1>4. state \in Solid /\ endpoint \in Solid
  BY <1>1, <1>2, <1>3, NeatSolid, LabelledSolid
<1>5. u \in Seq(Solid)
  <2>1. oneLine(a.url) = <<>> \/ oneLine(a.url) \in Neat
    BY <1>0, OneLineNeat
  <2>2. CASE oneLine(a.url) = <<>>
    BY <2>2 DEF IfAny
  <2>3. CASE oneLine(a.url) \in Neat
    BY <1>1, <2>3, NeatSolid, LabelledSolid
  <2> QED
    BY <2>1, <2>2, <2>3
<1>6. d \in Seq(Solid)
  <2>1. CASE multiLine(a.description) = <<>>
    BY <2>1 DEF IfAny
  <2>2. CASE multiLine(a.description) # <<>>
    BY <1>0, <1>1, <2>2, MultiLineSolid, LabelledSolid
  <2> QED
    BY <2>1, <2>2
<1>7. e \in Seq(Solid)
  <2>1. CASE multiLine(a.errors) = <<>>
    BY <2>1 DEF IfAny
  <2>2. CASE multiLine(a.errors) # <<>>
    BY <1>0, <1>1, <2>2, MultiLineSolid, LabelledSolid
  <2> QED
    BY <2>1, <2>2
<1>8. FormatLines(a) = two \o u \o d \o e
  BY DEF FormatLines
<1> HIDE DEF state, endpoint
<1>9. two \in Seq(Solid) /\ Len(two) = 2 /\ two[1] = state /\ two[2] = endpoint
  BY <1>4
<1> HIDE DEF two, u, d, e
<1> DEFINE Starts(q) == q \in Seq(Solid) /\ Len(q) >= 2 /\ q[1] = state /\ q[2] = endpoint
<1>10. ASSUME NEW q, Starts(q), NEW r \in Seq(Solid)
       PROVE  Starts(q \o r)
  BY <1>10, ConcatProperties
<1>11. Starts(two \o u \o d \o e)
  <2>1. Starts(two)
    BY <1>9
  <2> HIDE DEF Starts
  <2> QED
    BY <1>5, <1>6, <1>7, <1>10, <2>1
<1> QED
  BY <1>2, <1>3, <1>8, <1>11 DEF state, endpoint

\* The first two lines of an alert, and what may follow them.
Heading(a) == oneLine(a.state) \o <<"nl">> \o Labelled("Endpoint", oneLine(LogValue(a)))

\* What Format joins of a valid alert is solid and starts with the heading.
LEMMA HeadingFirst ==
    ASSUME NEW a \in Alert, Validate(a)
    PROVE  /\ Join(FormatLines(a)) \in Solid
           /\ \/ Join(FormatLines(a)) = Heading(a)
              \/ \E rest \in Text : Join(FormatLines(a)) = Heading(a) \o <<"nl">> \o rest
<1> DEFINE lines == FormatLines(a)
           s == Tail(lines)
           n == Len(s)
           head == Heading(a)
           X == {t \in Text : t = head \/ \E rest \in Text : t = head \o <<"nl">> \o rest}
<1>1. /\ lines \in Seq(Solid) /\ Len(lines) >= 2 /\ lines[1] = oneLine(a.state)
      /\ lines[2] = Labelled("Endpoint", oneLine(LogValue(a)))
      /\ lines \in Seq(Text) /\ lines # <<>> /\ Head(lines) = oneLine(a.state)
  BY SolidLines, LinesText
<1> HIDE DEF lines
<1>2. Join(lines) \in Solid
  <2>1. Solid \in SUBSET Text
    BY DEF Solid
  <2>2. Head(lines) \in Solid
    BY <1>1, HeadTailProperties
  <2> QED
    BY <1>1, <2>1, <2>2, SolidJoined, Joined
<1>3. /\ s \in Seq(Text) /\ n \in Nat /\ n >= 1
      /\ s[1] = Labelled("Endpoint", oneLine(LogValue(a)))
  <2>1. /\ s \in Seq(Text) /\ n = Len(lines) - 1 /\ Len(lines) \in Nat
        /\ \A i \in 1..n : s[i] = lines[i + 1]
    BY <1>1, HeadTailProperties
  <2> HIDE DEF s
  <2>2. 1 \in 1..n /\ 1 + 1 = 2
    BY <1>1, <2>1
  <2> QED
    BY <1>1, <2>1, <2>2
<1>4. PICK g \in [0..n -> Text] :
              /\ g[0] = Head(lines)
              /\ \A m \in 1..n : g[m] = g[m - 1] \o <<"nl">> \o s[m]
              /\ Join(lines) = g[n]
  BY <1>1, Joining
<1> HIDE DEF s, n
<1>5. g[1] = head /\ head \in Text
  <2>1. 1 \in 1..n /\ 1 - 1 = 0 /\ 1 \in 0..n
    BY <1>3
  <2>2. g[1] = g[0] \o <<"nl">> \o s[1]
    BY <1>4, <2>1
  <2>3. g[1] \in Text
    BY <1>4, <2>1
  <2> QED
    BY <1>1, <1>3, <1>4, <2>2, <2>3 DEF Heading
<1> HIDE DEF head
<1>6. ASSUME NEW t \in X, NEW u \in Text
      PROVE  t \o <<"nl">> \o u \in X
  <2>1. t \in Text /\ t \o <<"nl">> \o u \in Text
    <3>1. t \in Text /\ t \o <<"nl">> \in Text
      BY NewLine, TextConcat
    <3> QED
      BY <3>1, TextConcat
  <2>2. CASE t = head
    BY <2>1, <2>2
  <2>3. CASE t # head
    <3>1. PICK rest \in Text : t = head \o <<"nl">> \o rest
      BY <2>3
    <3> DEFINE h == head \o <<"nl">>
               r == rest \o <<"nl">>
               more == r \o u
    <3>2. h \in Text /\ r \in Text
      BY <1>5, NewLine, TextConcat
    <3>3. more \in Text
      BY <3>2, TextConcat
    <3>4. (h \o rest) \o <<"nl">> = h \o r
      <4> DEFINE nl == <<"nl">>
      <4>1. nl \in Text
        BY NewLine
      <4> HIDE DEF h, nl
      <4>2. (h \o rest) \o nl = h \o (rest \o nl)
        BY <3>2, <4>1, TextAssociative
      <4> QED
        BY <4>2 DEF nl
    <3>5. (h \o r) \o u = h \o more
      <4> HIDE DEF h, r
      <4> QED
        BY <3>2, TextAssociative
    <3>6. t \o <<"nl">> \o u = h \o more
      BY <3>1, <3>4, <3>5
    <3> HIDE DEF more
    <3> QED
      BY <2>1, <3>3, <3>6
  <2> QED
    BY <2>2, <2>3
<1>7. g[n] \in X
  <2> DEFINE top == n - 1
             k == [m \in 0..top |-> g[m + 1]]
  <2>1. top \in Nat /\ top + 1 = n /\ top \in 0..top /\ 0 \in 0..top /\ 0 + 1 = 1
    BY <1>3
  <2>2. k[0] \in X
    <3>1. k[0] = g[1]
      BY <2>1
    <3> HIDE DEF k
    <3> QED
      BY <1>5, <3>1
  <2>3. ASSUME NEW m \in 1..top, k[m - 1] \in X
        PROVE  k[m] \in X
    <3>1. /\ m \in 0..top /\ m - 1 \in 0..top /\ m + 1 \in 1..n /\ (m + 1) - 1 = m
          /\ (m - 1) + 1 = m
      BY <1>3
    <3>2. k[m] = g[m + 1] /\ k[m - 1] = g[m]
      BY <3>1
    <3> HIDE DEF k, X
    <3>3. g[m + 1] = g[m] \o <<"nl">> \o s[m + 1] /\ s[m + 1] \in Text
      <4>1. g[m + 1] = g[(m + 1) - 1] \o <<"nl">> \o s[m + 1]
        BY <1>4, <3>1
      <4>2. s[m + 1] \in Text
        BY <1>3, <3>1, ElementOfSeq DEF n
      <4> QED
        BY <3>1, <4>1, <4>2
    <3> QED
      BY <1>6, <2>3, <3>2, <3>3
  <2>4. k[top] = g[n]
    BY <2>1
  <2>5. \A m \in 1..top : k[m - 1] \in X => k[m] \in X
    BY <2>3
  <2> HIDE DEF k, X, top
  <2>6. \A m \in 0..top : k[m] \in X
    BY <2>1, <2>2, <2>5, StepsStay
  <2> QED
    BY <2>1, <2>4, <2>6
<1> QED
  BY <1>2, <1>4, <1>7 DEF lines, head

\* The state and the endpoint are the first two lines of the formatted alert.
LEMMA HeadingLines ==
    ASSUME NEW a \in Alert, Validate(a)
    PROVE  LET lines == Lines(Join(FormatLines(a)))
           IN  /\ Len(lines) \in Nat /\ Len(lines) >= 2
               /\ lines[1] = oneLine(a.state)
               /\ lines[2] = Labelled("Endpoint", oneLine(LogValue(a)))
<1> DEFINE state == oneLine(a.state)
           e == oneLine(LogValue(a))
           endpoint == Labelled("Endpoint", e)
           head == Heading(a)
           all == Join(FormatLines(a))
<1>1. state \in Neat /\ e \in Neat
  BY SolidLines
<1> HIDE DEF e
<1>2. endpoint \in Solid /\ \A i \in 1..Len(endpoint) : endpoint[i] # "nl"
  <2>1. "Endpoint" \in Characters \ Space
    BY CharactersAssumption DEF Space
  <2>2. e \in Solid /\ \A i \in 1..Len(e) : e[i] # "nl"
    BY <1>1, NeatSolid
  <2> QED
    BY <2>1, <2>2, LabelledSolid
<1>3. state \in Text /\ endpoint \in Text /\ head = state \o <<"nl">> \o endpoint
  BY <1>1, <1>2 DEF Neat, Solid, Heading, e
<1> HIDE DEF endpoint, state
<1>4. Lines(state) = <<state>> /\ Lines(endpoint) = <<endpoint>>
  BY <1>1, <1>2, <1>3, NeatSolid, LinesOne
<1>5. Lines(head) = <<state, endpoint>>
  <2>1. Lines(head) = <<state>> \o <<endpoint>>
    BY <1>3, <1>4, LinesConcat
  <2>2. <<state>> \o <<endpoint>> = <<state, endpoint>>
    <3> DEFINE x == <<state>>
               y == <<endpoint>>
               z == <<state, endpoint>>
    <3>1. /\ x \in Seq(Text) /\ y \in Seq(Text) /\ z \in Seq(Text)
          /\ Len(x) = 1 /\ Len(y) = 1 /\ Len(z) = 2
          /\ x[1] = state /\ y[1] = endpoint /\ z[1] = state /\ z[2] = endpoint
      BY <1>3
    <3> HIDE DEF x, y, z
    <3>2. /\ x \o y \in Seq(Text) /\ Len(x \o y) = Len(x) + Len(y)
          /\ \A i \in 1..(Len(x) + Len(y)) : (x \o y)[i] = IF i <= Len(x) THEN x[i]
                                                      ELSE y[i - Len(x)]
      BY <3>1, ConcatProperties
    <3>3. Len(x \o y) = Len(z) /\ \A i \in 1..Len(x \o y) : (x \o y)[i] = z[i]
      BY <3>1, <3>2
    <3>4. x \o y = z
      BY <3>1, <3>2, <3>3, SeqEqual
    <3> QED
      BY <3>4 DEF x, y, z
  <2> QED
    BY <2>1, <2>2
<1>6. head \in Text
  <2>1. state \o <<"nl">> \in Text
    BY <1>3, NewLine, TextConcat
  <2> QED
    BY <1>3, <2>1, TextConcat
<1> HIDE DEF head, all
<1>7. CASE all = head
  BY <1>5, <1>7 DEF all, state, endpoint, e
<1>8. CASE \E rest \in Text : all = head \o <<"nl">> \o rest
  <2>1. PICK rest \in Text : all = head \o <<"nl">> \o rest
    BY <1>8
  <2> DEFINE q == <<state, endpoint>>
             r == Lines(rest)
  <2>2. Lines(all) = q \o r
    BY <1>5, <1>6, <2>1, LinesConcat
  <2>3. q \in Seq(Text) /\ Len(q) = 2 /\ q[1] = state /\ q[2] = endpoint
    BY <1>3
  <2>4. r \in Seq(Text) /\ Len(r) \in Nat
    BY LinesSome DEF SomeLines
  <2> HIDE DEF q, r
  <2>5. /\ Len(q \o r) = 2 + Len(r)
        /\ \A i \in 1..(2 + Len(r)) : (q \o r)[i] = IF i <= 2 THEN q[i] ELSE r[i - 2]
    <3>1. /\ Len(q \o r) = Len(q) + Len(r)
          /\ \A i \in 1..(Len(q) + Len(r)) : (q \o r)[i] = IF i <= Len(q) THEN q[i]
                                                      ELSE r[i - Len(q)]
      BY <2>3, <2>4, ConcatProperties
    <3> QED
      BY <2>3, <3>1
  <2>6. Len(q \o r) >= 2 /\ (q \o r)[1] = state /\ (q \o r)[2] = endpoint
    BY <2>3, <2>4, <2>5
  <2> QED
    BY <2>2, <2>4, <2>5, <2>6 DEF all, state, endpoint, e
<1>9. all = head \/ \E rest \in Text : all = head \o <<"nl">> \o rest
  BY HeadingFirst DEF all, head
<1> QED
  BY <1>7, <1>8, <1>9

\* The label of the endpoint is found, in any case, and its value is the endpoint.
LEMMA EndpointNamed ==
    ASSUME NEW e \in Neat
    PROVE  LET line == Labelled("Endpoint", e)
           IN  /\ Colon(line) = 2
               /\ ToUpper(TrimSpace(Name(line))) = <<"ENDPOINT">>
               /\ oneLine(Value(line)) = e
<1> DEFINE line == Labelled("Endpoint", e)
           label == <<"Endpoint", ":", "sp">>
           n == Len(e)
<1>1. e \in Text /\ e \in Seq(Characters) /\ n \in Nat
  BY DEF Neat, Text
<1>2. /\ label \in Text /\ label \in Seq(Characters) /\ Len(label) = 3
      /\ label[1] = "Endpoint" /\ label[2] = ":" /\ label[3] = "sp"
  BY CharactersAssumption DEF Text
<1>3. line = label \o e
  BY DEF Labelled
<1> HIDE DEF label, line
<1>4. /\ line \in Seq(Characters) /\ Len(line) = 3 + n
      /\ \A i \in 1..(3 + n) : line[i] = IF i <= 3 THEN label[i] ELSE e[i - 3]
  <2>1. /\ line \in Seq(Characters) /\ Len(line) = Len(label) + n
        /\ \A i \in 1..(Len(label) + n) : line[i] = IF i <= Len(label) THEN label[i]
                                                    ELSE e[i - Len(label)]
    BY <1>1, <1>2, <1>3, ConcatProperties
  <2> QED
    BY <1>2, <2>1
<1>5. line[1] = "Endpoint" /\ line[2] = ":" /\ line[3] = "sp"
  <2>1. 1 \in 1..(3 + n) /\ 2 \in 1..(3 + n) /\ 3 \in 1..(3 + n)
    BY <1>1
  <2> QED
    BY <1>2, <1>4, <2>1
<1>6. Colon(line) = 2
  <2> DEFINE I == {i \in 1..Len(line) : line[i] = ":"}
  <2>1. Colon(line) = IF I # {} THEN Min(I) ELSE 0
    BY DEF Colon, SelectInSeq
  <2>2. 2 \in I /\ 1 \notin I /\ I \in SUBSET (1..(3 + n))
    BY <1>1, <1>4, <1>5
  <2> HIDE DEF I
  <2>3. Min(I) \in I /\ \A y \in I : Min(I) <= y
    <3>1. 3 + n \in Nat /\ I # {}
      BY <1>1, <2>2
    <3> DEFINE top == 3 + n
    <3>2. top \in Nat /\ I \in SUBSET (1..top)
      BY <2>2, <3>1
    <3> HIDE DEF top
    <3> QED
      BY <3>1, <3>2, MinOf
  <2>4. Min(I) \in 1..(3 + n) /\ Min(I) <= 2 /\ Min(I) # 1
    BY <2>2, <2>3
  <2>5. Min(I) = 2
    BY <1>1, <2>4
  <2> QED
    BY <2>1, <2>2, <2>5
<1>7. ToUpper(TrimSpace(Name(line))) = <<"ENDPOINT">>
  <2> DEFINE name == SubSeq(line, 1, 1)
  <2>1. Name(line) = name
    BY <1>6 DEF Name
  <2>2. name \in Text /\ Len(name) = 1 /\ name[1] = "Endpoint"
    <3>1. \A i \in 1..1 : line[i] \in Characters
      BY <1>1, <1>4
    <3>2. /\ name \in Seq(Characters) /\ Len(name) = IF 1 <= 1 THEN 1 - 1 + 1 ELSE 0
          /\ \A i \in 1..(1 - 1 + 1) : name[i] = line[1 + i - 1]
      BY <3>1, SubSeqProperties
    <3> QED
      BY <1>5, <3>2 DEF Text
  <2> HIDE DEF name
  <2>3. TrimSpace(name) = name
    BY <2>2, TightStays DEF Tight, Space
  <2>4. name = <<"Endpoint">>
    BY <2>2 DEF Text
  <2>5. ToUpper(<<"Endpoint">>) = <<"ENDPOINT">>
    BY DEF ToUpper
  <2> QED
    BY <2>1, <2>3, <2>4, <2>5
<1>8. oneLine(Value(line)) = e
  <2> DEFINE v == SubSeq(line, 3, 3 + n)
             w == <<"sp">> \o e
  <2>1. Value(line) = v
    BY <1>4, <1>6 DEF Value
  <2>2. /\ v \in Seq(Characters) /\ Len(v) = 1 + n
        /\ \A i \in 1..(1 + n) : v[i] = line[3 + i - 1]
    <3>1. \A i \in 3..(3 + n) : line[i] \in Characters
      BY <1>1, <1>4
    <3>2. /\ v \in Seq(Characters) /\ Len(v) = IF 3 <= 3 + n THEN (3 + n) - 3 + 1 ELSE 0
          /\ \A i \in 1..((3 + n) - 3 + 1) : v[i] = line[3 + i - 1]
      BY <1>1, <3>1, SubSeqProperties
    <3> HIDE DEF v
    <3> QED
      BY <1>1, <3>2
  <2>3. /\ w \in Seq(Characters) /\ Len(w) = 1 + n
        /\ \A i \in 1..(1 + n) : w[i] = IF i <= 1 THEN "sp" ELSE e[i - 1]
    <3> DEFINE space == <<"sp">>
    <3>1. space \in Seq(Characters) /\ Len(space) = 1 /\ space[1] = "sp"
      BY NewLine DEF Text
    <3> HIDE DEF space
    <3>2. /\ w \in Seq(Characters) /\ Len(w) = Len(space) + n
          /\ \A i \in 1..(Len(space) + n) : w[i] = IF i <= Len(space) THEN space[i]
                                                   ELSE e[i - Len(space)]
      BY <1>1, <3>1, ConcatProperties DEF space
    <3> HIDE DEF w
    <3>3. \A i \in 1..(1 + n) : i <= 1 => i = 1
      BY <1>1
    <3> QED
      BY <1>1, <3>1, <3>2, <3>3
  <2> HIDE DEF v, w
  <2>4. ASSUME NEW i \in 1..(1 + n)
        PROVE  v[i] = w[i]
    <3>1. 3 + i - 1 \in 1..(3 + n)
      BY <1>1
    <3>2. CASE i = 1
      BY <1>5, <2>2, <2>3, <3>1, <3>2
    <3>3. CASE i # 1
      <4>1. ~(3 + i - 1 <= 3) /\ ~(i <= 1) /\ (3 + i - 1) - 3 = i - 1
        BY <1>1, <3>3
      <4> QED
        BY <1>4, <2>2, <2>3, <3>1, <4>1
    <3> QED
      BY <3>2, <3>3
  <2>5. v = w
    BY <2>2, <2>3, <2>4, SeqEqual
  <2>6. oneLine(w) = e
    BY NeatStays DEF w
  <2> QED
    BY <2>1, <2>5, <2>6
<1> QED
  BY <1>6, <1>7, <1>8 DEF line

\* What the log says of a text that Format has made of an alert.
LEMMA FormattedMetadata ==
    ASSUME NEW a \in Alert, Validate(a),
           ToUpper(Unbracketed(oneLine(a.state))) \in {<<"TRIGGERED">>, <<"RESOLVED">>}
    PROVE  TextMetadata(Join(FormatLines(a)))
               = [endpoint |-> oneLine(LogValue(a)),
                  state    |-> ToUpper(Unbracketed(oneLine(a.state)))]
<1> DEFINE e == oneLine(LogValue(a))
           st == oneLine(a.state)
           all == Join(FormatLines(a))
           lines == Lines(all)
           line == Labelled("Endpoint", e)
           named == {i \in 2..Len(lines) :
                       /\ Colon(lines[i]) # 0
                       /\ ToUpper(TrimSpace(Name(lines[i]))) = <<"ENDPOINT">>}
           state == ToUpper(Unbracketed(TrimSpace(lines[1])))
<1>1. multiLine(all) = all
  BY HeadingFirst, SolidStays
<1>2. st \in Neat /\ e \in Neat
  BY SolidLines
<1>3. TrimSpace(st) = st
  BY <1>2, TightStays DEF Neat
<1>4. /\ Len(lines) \in Nat /\ Len(lines) >= 2
      /\ lines[1] = st /\ lines[2] = line
  BY HeadingLines
<1>5. TextMetadata(all) =
          IF state \notin {<<"TRIGGERED">>, <<"RESOLVED">>} THEN NotLogged
          ELSE [endpoint |-> IF named = {} THEN <<>> ELSE oneLine(Value(lines[Min(named)])),
                state    |-> state]
  BY <1>1 DEF TextMetadata
<1> HIDE DEF e, st, lines, line
<1>6. /\ Colon(line) = 2
      /\ ToUpper(TrimSpace(Name(line))) = <<"ENDPOINT">>
      /\ oneLine(Value(line)) = e
  BY <1>2, EndpointNamed DEF line
<1>7. 2 \in named /\ named \in SUBSET (1..Len(lines))
  BY <1>4, <1>6
<1>8. \A i \in named : 2 <= i
  BY <1>4
<1> HIDE DEF named
<1>9. Min(named) \in named /\ \A y \in named : Min(named) <= y
  <2> DEFINE top == Len(lines)
  <2>1. top \in Nat /\ named \in SUBSET (1..top) /\ named # {}
    BY <1>4, <1>7
  <2> HIDE DEF top
  <2> QED
    BY <2>1, MinOf
<1>10. Min(named) = 2
  <2>1. Min(named) <= 2 /\ 2 <= Min(named) /\ Min(named) \in 1..Len(lines)
    BY <1>7, <1>8, <1>9
  <2> QED
    BY <1>4, <2>1
<1>11. state = ToUpper(Unbracketed(st))
  BY <1>3, <1>4
<1> HIDE DEF state
<1>12. state \in {<<"TRIGGERED">>, <<"RESOLVED">>}
  BY <1>11 DEF st
<1> QED
  BY <1>4, <1>5, <1>6, <1>7, <1>10, <1>11, <1>12 DEF all, e, st

\* An alert with one of the two states is logged alike whether it comes as JSON
\* or as the text that Format makes of it, whatever its fields hold
\* (gatus.Format, TextMetadata and the log fields of handler.alert).
THEOREM LogsAgreeAlways == Spec => []LogsAgree
<1>1. MessageInv => LogsAgree
  <2> DEFINE st == ToUpper(Unbracketed(oneLine(body.state)))
  <2> SUFFICES ASSUME MessageInv, status = "ready", kind = "json",
                      st \in {<<"TRIGGERED">>, <<"RESOLVED">>}
               PROVE  TextMetadata(Format(body, <<>>, Unlimited))
                          = [endpoint |-> oneLine(logged.endpoint), state |-> st]
    BY DEF LogsAgree
  <2>1. body \in Alert /\ Validate(body) /\ logged.endpoint = LogValue(body)
    BY DEF MessageInv
  <2>2. Format(body, <<>>, Unlimited) = Join(FormatLines(body))
    <3>1. <<>> \in Text /\ TrimSpace(<<>>) = <<>>
      <4>1. Visible(<<>>) = {}
        BY DEF Visible
      <4> QED
        BY <4>1 DEF TrimSpace, Text
    <3>2. Format(body, <<>>, Unlimited)
              = truncate(withPrefix(Join(FormatLines(body)), <<>>), Unlimited)
      BY <2>1, <3>1, Formatted
    <3> QED
      BY <3>1, <3>2 DEF truncate, Unlimited, withPrefix
  <2>3. TextMetadata(Join(FormatLines(body)))
            = [endpoint |-> oneLine(LogValue(body)), state |-> st]
    BY <2>1, FormattedMetadata
  <2> QED
    BY <2>1, <2>2, <2>3
<1> QED
  BY <1>1, MessageInvHolds, PTL
=============================================================================
