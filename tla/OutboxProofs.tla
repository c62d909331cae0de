---------------------------- MODULE OutboxProofs ----------------------------
(***************************************************************************)
(* Outbox and Framing, for every set of messages, queue capacity, high-     *)
(* water mark and number of sends: the outbox takes the steps of the        *)
(* abstract channel, and the reader decodes what was sent.                  *)
(*                                                                         *)
(* Frames is a concatenation of any number of frames.  What it does when a  *)
(* message is added follows by induction, which is made on the set of the   *)
(* lengths for which the statement holds (AllNumbers).                      *)
(***************************************************************************)
EXTENDS Framing, FiniteSetTheorems, SequenceTheorems, TLAPS

-----------------------------------------------------------------------------
(* Induction, on a set of numbers instead of a predicate. *)
LEMMA AllNumbers ==
    ASSUME NEW G \in SUBSET Nat, 0 \in G, \A n \in G : n + 1 \in G
    PROVE  G = Nat
<1> DEFINE R == OpToRel(<, Nat)
<1>1. IsWellFoundedOn(R, Nat)
  BY NatLessThanWellFounded
<1>2. \A x, y \in Nat : y < x => <<y, x>> \in R
  BY DEF OpToRel
<1> HIDE DEF R
<1>3. SUFFICES ASSUME Nat \ G # {} PROVE FALSE
  OBVIOUS
<1>4. PICK x \in Nat \ G : \A y \in Nat \ G : ~(<<y, x>> \in R)
  BY <1>1, <1>3, WFMin
<1>5. x # 0 /\ x - 1 \in Nat /\ x - 1 < x
  BY <1>4
<1>6. x - 1 \in G
  BY <1>2, <1>4, <1>5
<1>7. (x - 1) + 1 = x
  BY <1>4
<1> QED
  BY <1>4, <1>6, <1>7

-----------------------------------------------------------------------------
(* FlattenSeq *)

(* f holds the n first steps of flattening ss. *)
FlatTo(f, n, ss) ==
    f = [i \in 1..n |-> IF i = 1 THEN ss[i] ELSE f[i - 1] \o ss[i]]

(* The recursion FlattenSeq is defined by has a solution, ... *)
LEMMA FlatExists ==
    ASSUME NEW ss, NEW n \in Nat
    PROVE  \E f : FlatTo(f, n, ss)
<1> DEFINE G == {k \in Nat : \E f : FlatTo(f, k, ss)}
<1>1. 0 \in G
  <2> DEFINE e == [i \in 1..0 |-> 0]
  <2>1. FlatTo(e, 0, ss)
    BY DEF FlatTo
  <2> QED
    BY <2>1
<1>2. ASSUME NEW k \in G PROVE k + 1 \in G
  <2>1. PICK f : FlatTo(f, k, ss)
    OBVIOUS
  <2> DEFINE g == [i \in 1..(k + 1) |->
                      IF i = 1 THEN ss[i]
                      ELSE IF i <= k THEN f[i] ELSE f[k] \o ss[i]]
  <2> DEFINE h == [i \in 1..(k + 1) |->
                      IF i = 1 THEN ss[i] ELSE g[i - 1] \o ss[i]]
  <2>2. ASSUME NEW i \in 1..(k + 1) PROVE g[i] = h[i]
    <3>1. CASE i = 1
      BY <3>1
    <3>2. CASE i # 1 /\ i <= k
      <4>1. i - 1 \in 1..k /\ i \in 1..k /\ i - 1 \in 1..(k+1) /\ i - 1 <= k
        BY <3>2
      <4>2. f[i] = f[i - 1] \o ss[i]
        BY <3>2, <4>1, <2>1 DEF FlatTo
      <4>3. f[i - 1] = g[i - 1]
        BY <4>1, <2>1 DEF FlatTo
      <4>4. g[i] = f[i] /\ h[i] = g[i - 1] \o ss[i]
        BY <3>2
      <4> QED
        BY <4>2, <4>3, <4>4
    <3>3. CASE i # 1 /\ i = k + 1
      <4>1. i - 1 = k /\ k \in 1..k /\ k \in 1..(k+1)
        BY <3>3
      <4>3. f[k] = g[k]
        BY <4>1, <2>1 DEF FlatTo
      <4>2. i # 1 /\ ~(i <= k)
        BY <3>3
      <4>4. g[i] = f[k] \o ss[i] /\ h[i] = g[i - 1] \o ss[i]
        BY <4>2
      <4> QED
        BY <4>1, <4>3, <4>4
    <3> QED
      BY <3>1, <3>2, <3>3
  <2>3. g = h
    BY <2>2
  <2>4. FlatTo(g, k + 1, ss)
    BY <2>3 DEF FlatTo
  <2> QED
    BY <2>4
<1>3. G = Nat
  <2> HIDE DEF G
  <2> QED
    <3>1. G \in SUBSET Nat
      BY DEF G
    <3> QED
      BY <3>1, <1>1, <1>2, AllNumbers
<1> QED
  BY <1>3

SameStart(ss, tt, n) == \A i \in 1..n : ss[i] = tt[i]

(* ... whose first n steps do not depend on what follows. *)
LEMMA FlatAgree ==
    ASSUME NEW ss, NEW tt, NEW f, NEW g, NEW n \in Nat, NEW m \in Nat,
           n <= m, FlatTo(f, n, ss), FlatTo(g, m, tt),
           SameStart(ss, tt, n)
    PROVE  SameStart(f, g, n)
<1> DEFINE G == {k \in Nat : k \in 1..n => f[k] = g[k]}
<1>1. 0 \in G
  OBVIOUS
<1>2. ASSUME NEW k \in G, k + 1 \in 1..n PROVE f[k + 1] = g[k + 1]
  <2>0. k \in Nat /\ k + 1 \in 1..m /\ (k + 1) - 1 = k
    <3>1. k \in Nat /\ k + 1 \in 1..n
      BY <1>2
    <3> QED
      BY <3>1
  <2>1. CASE k = 0
    BY <2>0, <2>1, <1>2 DEF FlatTo, SameStart
  <2>2. CASE k # 0
    <3>1. k \in 1..n /\ k + 1 # 1
      BY <2>0, <2>2, <1>2
    <3>2. f[k] = g[k] /\ ss[k + 1] = tt[k + 1]
      BY <3>1, <1>2 DEF SameStart
    <3>3. f[k + 1] = f[k] \o ss[k + 1] /\ g[k + 1] = g[k] \o tt[k + 1]
      BY <2>0, <3>1, <1>2 DEF FlatTo
    <3> QED
      BY <3>2, <3>3
  <2> QED
    BY <2>1, <2>2
<1>3. G = Nat
  <2>1. G \in SUBSET Nat
    OBVIOUS
  <2>2. \A k \in G : k + 1 \in G
    BY <1>2
  <2> HIDE DEF G
  <2> QED
    BY <2>1, <2>2, <1>1, AllNumbers
<1> QED
  BY <1>3 DEF SameStart

(* FlattenSeq is the last of those steps. *)
LEMMA FlattenIs ==
    ASSUME NEW ss, Len(ss) \in Nat \ {0}
    PROVE  \E f : FlatTo(f, Len(ss), ss) /\ FlattenSeq(ss) = f[Len(ss)]
<1> DEFINE c == CHOOSE f : FlatTo(f, Len(ss), ss)
<1>1. FlatTo(c, Len(ss), ss)
  BY FlatExists
<1>2. FlattenSeq(ss) = c[Len(ss)]
  BY DEF FlattenSeq, FlatTo
<1> QED
  BY <1>1, <1>2

LEMMA FlattenEmpty == FlattenSeq(<<>>) = <<>>
BY DEF FlattenSeq

LEMMA FlattenAppend ==
    ASSUME NEW S, NEW ss \in Seq(Seq(S)), NEW t \in Seq(S)
    PROVE  FlattenSeq(Append(ss, t)) = FlattenSeq(ss) \o t
<1> DEFINE tt == Append(ss, t)
           n == Len(ss)
<1>0. /\ n \in Nat /\ Len(tt) = n + 1 /\ tt[n + 1] = t
      /\ SameStart(ss, tt, n)
  BY AppendProperties DEF SameStart
<1>1. PICK g : FlatTo(g, n + 1, tt) /\ FlattenSeq(tt) = g[n + 1]
  <2>1. Len(tt) = n + 1 /\ Len(tt) \in Nat \ {0}
    BY <1>0
  <2> HIDE DEF tt, n
  <2> QED
    BY <2>1, FlattenIs
<1>2. CASE n = 0
  <2>1. ss = <<>>
    BY <1>2, <1>0, EmptySeq
  <2>2. g[n + 1] = tt[n + 1]
    BY <1>0, <1>1, <1>2 DEF FlatTo
  <2>3. <<>> \o t = t
    BY ConcatEmptySeq
  <2> QED
    BY <1>0, <1>1, <2>1, <2>2, <2>3, FlattenEmpty
<1>3. CASE n # 0
  <2>1. PICK f : FlatTo(f, n, ss) /\ FlattenSeq(ss) = f[n]
    BY <1>0, <1>3, FlattenIs
  <2>2. f[n] = g[n]
    <3>1. n <= n + 1 /\ n + 1 \in Nat /\ n \in 1..n
      BY <1>0, <1>3
    <3> HIDE DEF tt, n
    <3>2. SameStart(f, g, n)
      BY <3>1, <1>0, <1>1, <2>1, FlatAgree
    <3> QED
      BY <3>1, <3>2 DEF SameStart
  <2>3. g[n + 1] = g[n] \o tt[n + 1]
    <3>1. n + 1 \in 1..(n + 1) /\ n + 1 # 1 /\ (n + 1) - 1 = n
      BY <1>0, <1>3
    <3> QED
      BY <3>1, <1>1 DEF FlatTo
  <2> QED
    BY <1>0, <1>1, <2>1, <2>2, <2>3
<1> QED
  BY <1>2, <1>3
LEMMA FlattenTyped ==
    ASSUME NEW S, NEW ss \in Seq(Seq(S))
    PROVE  FlattenSeq(ss) \in Seq(S)
<1> DEFINE n == Len(ss)
<1>0. n \in Nat /\ \A i \in 1..n : ss[i] \in Seq(S)
  BY ElementOfSeq, LenProperties
<1>1. CASE n = 0
  <2>1. ss = <<>>
    BY <1>1, <1>0, EmptySeq
  <2> QED
    BY <2>1, FlattenEmpty, EmptySeq
<1>2. CASE n # 0
  <2>1. PICK f : FlatTo(f, n, ss) /\ FlattenSeq(ss) = f[n]
    BY <1>0, <1>2, FlattenIs
  <2> DEFINE G == {k \in Nat : k \in 1..n => f[k] \in Seq(S)}
  <2> HIDE DEF n
  <2>2. ASSUME NEW k \in G, k + 1 \in 1..n PROVE f[k + 1] \in Seq(S)
    <3>0. k \in Nat /\ (k + 1) - 1 = k /\ ss[k + 1] \in Seq(S)
      BY <1>0, <2>2
    <3>1. CASE k = 0
      <4>1. f[k + 1] = ss[k + 1]
        BY <2>1, <2>2, <3>1 DEF FlatTo
      <4> QED
        BY <4>1, <3>0
    <3>2. CASE k # 0
      <4>1. k \in 1..n /\ k + 1 # 1
        BY <1>0, <2>2, <3>0, <3>2
      <4>2. f[k + 1] = f[k] \o ss[k + 1]
        BY <2>1, <2>2, <3>0, <4>1 DEF FlatTo
      <4>3. f[k] \in Seq(S)
        BY <4>1
      <4> QED
        BY <4>2, <4>3, <3>0, ConcatProperties
    <3> QED
      BY <3>1, <3>2
  <2>3. G = Nat
    <3>1. G \in SUBSET Nat /\ 0 \in G
      OBVIOUS
    <3>2. \A k \in G : k + 1 \in G
      BY <2>2
    <3> HIDE DEF G
    <3> QED
      BY <3>1, <3>2, AllNumbers
  <2>4. n \in 1..n
    BY <1>0, <1>2
  <2> QED
    BY <2>1, <2>3, <2>4
<1> QED
  BY <1>1, <1>2

-----------------------------------------------------------------------------
(* Frames and Fitting, from the empty sequence and by one more message *)

Pieces(messages) == [i \in 1..Len(messages) |-> Frame(messages[i])]

Fit(m) == IF m \in TooLarge THEN <<>> ELSE <<m>>

Fits(messages) == [i \in 1..Len(messages) |-> Fit(messages[i])]

LEMMA FrameTyped ==
    ASSUME NEW m \in Msg
    PROVE  /\ Frame(m) \in Seq(Unit)
           /\ Bytes(m) \in Seq(Unit)
           /\ Len(Bytes(m)) = 3
           /\ \A j \in 1..3 : Bytes(m)[j] = <<m, j>>
<1>1. <<m, 1>> \in Unit /\ <<m, 2>> \in Unit /\ <<m, 3>> \in Unit
  BY DEF Unit
<1>2. Bytes(m) \in Seq(Unit) /\ Len(Bytes(m)) = 3
  BY <1>1 DEF Bytes
<1>3. Bytes(m)[1] = <<m, 1>> /\ Bytes(m)[2] = <<m, 2>> /\ Bytes(m)[3] = <<m, 3>>
  BY DEF Bytes
<1>4. \A j \in 1..3 : j = 1 \/ j = 2 \/ j = 3
  OBVIOUS
<1>5. Frame(m) \in Seq(Unit)
  BY <1>2 DEF Frame
<1> QED
  BY <1>2, <1>3, <1>4, <1>5

LEMMA FitTyped ==
    ASSUME NEW m \in Msg
    PROVE  Fit(m) \in Seq(Msg)
BY DEF Fit

LEMMA PiecesTyped ==
    ASSUME NEW s \in Seq(Msg)
    PROVE  Pieces(s) \in Seq(Seq(Unit)) /\ Fits(s) \in Seq(Seq(Msg))
<1>1. Len(s) \in Nat /\ \A i \in 1..Len(s) : s[i] \in Msg
  OBVIOUS
<1>2. \A i \in 1..Len(s) : Frame(s[i]) \in Seq(Unit) /\ Fit(s[i]) \in Seq(Msg)
  BY <1>1, FrameTyped, FitTyped
<1>3. Pieces(s) \in Seq(Seq(Unit))
  BY <1>1, <1>2 DEF Pieces
<1>4. Fits(s) \in Seq(Seq(Msg))
  BY <1>1, <1>2 DEF Fits
<1> QED
  BY <1>3, <1>4

LEMMA PiecesAppend ==
    ASSUME NEW s \in Seq(Msg), NEW m \in Msg
    PROVE  /\ Pieces(Append(s, m)) = Append(Pieces(s), Frame(m))
           /\ Fits(Append(s, m)) = Append(Fits(s), Fit(m))
<1>1. Append(s, m) \in Seq(Msg)
  OBVIOUS
<1>2. /\ Pieces(s) \in Seq(Seq(Unit)) /\ Fits(s) \in Seq(Seq(Msg))
      /\ Pieces(Append(s, m)) \in Seq(Seq(Unit))
      /\ Fits(Append(s, m)) \in Seq(Seq(Msg))
  BY <1>1, PiecesTyped
<1>3. Frame(m) \in Seq(Unit) /\ Fit(m) \in Seq(Msg)
  BY FrameTyped, FitTyped
<1>4. Pieces(Append(s, m)) = Append(Pieces(s), Frame(m))
  BY <1>2, <1>3 DEF Pieces
<1>5. Fits(Append(s, m)) = Append(Fits(s), Fit(m))
  BY <1>2, <1>3 DEF Fits
<1> QED
  BY <1>4, <1>5

LEMMA FramesAppend ==
    ASSUME NEW s \in Seq(Msg), NEW m \in Msg
    PROVE  Frames(s) \in Seq(Unit) /\ Frames(Append(s, m)) = Frames(s) \o Frame(m)
BY PiecesTyped, PiecesAppend, FrameTyped, FlattenTyped, FlattenAppend
   DEF Frames, Pieces

LEMMA FramesTyped ==
    ASSUME NEW s \in Seq(Msg)
    PROVE  Frames(s) \in Seq(Unit)
BY PiecesTyped, FlattenTyped DEF Frames, Pieces

LEMMA FittingAppend ==
    ASSUME NEW s \in Seq(Msg), NEW m \in Msg
    PROVE  Fitting(s) \in Seq(Msg) /\ Fitting(Append(s, m)) = Fitting(s) \o Fit(m)
<1>1. \A q : Fitting(q) = FlattenSeq(Fits(q))
  BY DEF Fitting, Fits, Fit
<1> QED
  BY <1>1, PiecesTyped, PiecesAppend, FitTyped, FlattenTyped, FlattenAppend

LEMMA FittingTyped ==
    ASSUME NEW s \in Seq(Msg)
    PROVE  Fitting(s) \in Seq(Msg)
BY PiecesTyped, FlattenTyped DEF Fitting, Fits, Fit

LEMMA FramesEmpty == Frames(<<>>) = <<>> /\ Fitting(<<>>) = <<>>
<1>1. Pieces(<<>>) = <<>> /\ Fits(<<>>) = <<>>
  BY DEF Pieces, Fits
<1>2. Frames(<<>>) = FlattenSeq(Pieces(<<>>))
  BY DEF Frames, Pieces
<1>3. Fitting(<<>>) = FlattenSeq(Fits(<<>>))
  BY DEF Fitting, Fits, Fit
<1> QED
  BY <1>1, <1>2, <1>3, FlattenEmpty

-----------------------------------------------------------------------------
(* Two runs of units, one after the other *)

AnyUnit == (Msg \cup Foreign) \X (1..3)

LEMMA RegroupAny ==
    ASSUME NEW a \in Seq(AnyUnit), NEW b \in Seq(AnyUnit), NEW c \in Seq(AnyUnit)
    PROVE  (a \o b) \o c = a \o (b \o c)
<1>1. /\ Len(a) \in Nat /\ Len(b) \in Nat /\ Len(c) \in Nat
      /\ a \o b \in Seq(AnyUnit) /\ b \o c \in Seq(AnyUnit)
      /\ (a \o b) \o c \in Seq(AnyUnit) /\ a \o (b \o c) \in Seq(AnyUnit)
      /\ Len(a \o b) = Len(a) + Len(b) /\ Len(b \o c) = Len(b) + Len(c)
  OBVIOUS
<1>2. Len((a \o b) \o c) = Len(a \o (b \o c))
  BY <1>1
<1>3. \A i \in 1..Len((a \o b) \o c) : ((a \o b) \o c)[i] = (a \o (b \o c))[i]
  BY <1>1
<1> QED
  BY <1>1, <1>2, <1>3, SeqEqual

LEMMA Regroup ==
    ASSUME NEW a \in Seq(Unit), NEW b \in Seq(Unit), NEW c \in Seq(Unit)
    PROVE  (a \o b) \o c = a \o (b \o c)
<1>1. Unit \subseteq AnyUnit
  BY DEF Unit, AnyUnit
<1>2. a \in Seq(AnyUnit) /\ b \in Seq(AnyUnit) /\ c \in Seq(AnyUnit)
  BY <1>1, SeqMonotonic
<1> QED
  BY <1>2, RegroupAny

LEMMA ConcatParts ==
    ASSUME NEW S, NEW a \in Seq(S), NEW b \in Seq(S)
    PROVE  /\ a \o b \in Seq(S)
           /\ Len(a \o b) = Len(a) + Len(b)
           /\ \A i \in 1..Len(a) : (a \o b)[i] = a[i]
           /\ \A i \in 1..Len(b) : (a \o b)[Len(a) + i] = b[i]
<1>1. Len(a) \in Nat /\ Len(b) \in Nat
  OBVIOUS
<1>2. /\ a \o b \in Seq(S) /\ Len(a \o b) = Len(a) + Len(b)
      /\ \A i \in 1..Len(a) : (a \o b)[i] = a[i]
  OBVIOUS
<1>3. \A i \in 1..Len(b) : (a \o b)[Len(a) + i] = b[i]
  BY <1>1
<1> QED
  BY <1>2, <1>3

(* The frames of two runs of messages, one after the other. *)
LEMMA FramesConcat ==
    ASSUME NEW s \in Seq(Msg), NEW t \in Seq(Msg)
    PROVE  Frames(s \o t) = Frames(s) \o Frames(t)
<1> DEFINE P(u) == Frames(s \o u) = Frames(s) \o Frames(u)
           G == {k \in Nat : \A u \in Seq(Msg) : Len(u) = k => P(u)}
<1>1. 0 \in G
  <2>1. SUFFICES ASSUME NEW u \in Seq(Msg), Len(u) = 0 PROVE P(u)
    OBVIOUS
  <2>2. u = <<>>
    BY <2>1, EmptySeq
  <2>3. s \o u = s /\ Frames(s) \o <<>> = Frames(s)
    BY <2>2, ConcatEmptySeq, FramesAppend
  <2> QED
    BY <2>2, <2>3, FramesEmpty
<1>2. ASSUME NEW k \in G, NEW u \in Seq(Msg), Len(u) = k + 1 PROVE P(u)
  <2>0. k \in Nat
    OBVIOUS
  <2>1. u # <<>>
    BY <1>2, <2>0
  <2>2. PICK v \in Seq(Msg), m \in Msg : u = Append(v, m)
    BY <2>1, SequenceEmptyOrAppend
  <2>3. Len(v) = k
    BY <2>0, <2>2, <1>2
  <2>4. P(v)
    BY <2>3
  <2>5. s \o v \in Seq(Msg) /\ s \o Append(v, m) = Append(s \o v, m)
    OBVIOUS
  <2>6. Frames(s \o u) = Frames(s \o v) \o Frame(m)
    BY <2>2, <2>5, FramesAppend
  <2>7. /\ Frames(s) \in Seq(Unit) /\ Frames(v) \in Seq(Unit)
        /\ Frame(m) \in Seq(Unit) /\ Frames(u) = Frames(v) \o Frame(m)
    BY <2>2, FramesAppend, FrameTyped
  <2>8. (Frames(s) \o Frames(v)) \o Frame(m) = Frames(s) \o (Frames(v) \o Frame(m))
    BY <2>7, Regroup
  <2> QED
    BY <2>4, <2>6, <2>7, <2>8
<1>3. G = Nat
  <2>1. G \in SUBSET Nat
    OBVIOUS
  <2>2. \A k \in G : k + 1 \in G
    <3> HIDE DEF P
    <3> QED
      BY <1>2
  <2> HIDE DEF G
  <2> QED
    BY <1>1, <2>1, <2>2, AllNumbers
<1>4. Len(t) \in Nat
  OBVIOUS
<1> QED
  BY <1>3, <1>4

LEMMA FramesOne ==
    ASSUME NEW m \in Msg
    PROVE  Frames(<<m>>) = Frame(m)
<1>1. <<m>> = Append(<<>>, m) /\ <<>> \in Seq(Msg)
  OBVIOUS
<1>2. <<>> \o Frame(m) = Frame(m)
  BY FrameTyped, ConcatEmptySeq
<1> QED
  BY <1>1, <1>2, FramesAppend, FramesEmpty

(* How Frames and Fitting of the same messages lie beside each other: three *)
(* units for each message that fits, and no other.                          *)
Laid(f, q) ==
    /\ Len(f) = 3 * Len(q)
    /\ \A k \in 1..Len(q), j \in 1..3 : f[3 * (k - 1) + j] = <<q[k], j>>
    /\ \A k \in 1..Len(q) : q[k] \notin TooLarge

LEMMA LaidMore ==
    ASSUME NEW f \in Seq(Unit), NEW q \in Seq(Msg), NEW m \in Msg \ TooLarge,
           Laid(f, q)
    PROVE  Laid(f \o Bytes(m), Append(q, m))
<1> DEFINE g == f \o Bytes(m)
           r == Append(q, m)
           n == Len(q)
<1>0. n \in Nat /\ Len(f) = 3 * n
  BY DEF Laid
<1>1. /\ Bytes(m) \in Seq(Unit) /\ Len(Bytes(m)) = 3
      /\ \A j \in 1..3 : Bytes(m)[j] = <<m, j>>
  BY FrameTyped
<1>2. Len(r) = n + 1 /\ r[n + 1] = m /\ \A k \in 1..n : r[k] = q[k]
  OBVIOUS
<1>3. /\ Len(g) = 3 * n + 3
      /\ \A i \in 1..(3 * n) : g[i] = f[i]
      /\ \A j \in 1..3 : g[3 * n + j] = Bytes(m)[j]
  <2>1. /\ Len(g) = Len(f) + Len(Bytes(m))
        /\ \A i \in 1..(Len(f) + Len(Bytes(m))) :
              g[i] = IF i <= Len(f) THEN f[i] ELSE Bytes(m)[i - Len(f)]
    BY <1>1, ConcatProperties
  <2> HIDE DEF g, n
  <2>2. ASSUME NEW i \in 1..(3 * n) PROVE g[i] = f[i]
    <3>1. i \in 1..(3 * n + 3) /\ i <= 3 * n
      BY <1>0
    <3> QED
      BY <1>0, <1>1, <2>1, <3>1
  <2>3. ASSUME NEW j \in 1..3 PROVE g[3 * n + j] = Bytes(m)[j]
    <3>1. /\ 3 * n + j \in 1..(3 * n + 3) /\ ~(3 * n + j <= 3 * n)
          /\ 3 * n + j - 3 * n = j
      BY <1>0
    <3> QED
      BY <1>0, <1>1, <2>1, <3>1
  <2> QED
    BY <1>0, <1>1, <2>1, <2>2, <2>3
<1> HIDE DEF g, r, n
<1>4. ASSUME NEW k \in 1..(n + 1), NEW j \in 1..3
      PROVE  g[3 * (k - 1) + j] = <<r[k], j>>
  <2>1. CASE k = n + 1
    <3>1. 3 * (k - 1) + j = 3 * n + j
      BY <1>0, <2>1
    <3> QED
      BY <1>1, <1>2, <1>3, <2>1, <3>1
  <2>2. CASE k \in 1..n
    <3>1. 3 * (k - 1) + j \in 1..(3 * n)
      BY <1>0, <2>2
    <3>2. f[3 * (k - 1) + j] = <<q[k], j>>
      BY <2>2 DEF Laid, n
    <3> QED
      BY <1>2, <1>3, <2>2, <3>1, <3>2
  <2> QED
    BY <1>0, <2>1, <2>2
<1>5. ASSUME NEW k \in 1..(n + 1) PROVE r[k] \notin TooLarge
  <2>1. CASE k = n + 1
    BY <1>2, <2>1
  <2>2. CASE k \in 1..n
    BY <1>2, <2>2 DEF Laid, n
  <2> QED
    BY <1>0, <2>1, <2>2
<1>6. Len(g) = 3 * Len(r)
  BY <1>0, <1>2, <1>3
<1>7. Laid(g, r)
  BY <1>2, <1>4, <1>5, <1>6 DEF Laid
<1> QED
  BY <1>7 DEF g, r

LEMMA FramesLaid ==
    ASSUME NEW s \in Seq(Msg)
    PROVE  Laid(Frames(s), Fitting(s))
<1> DEFINE G == {k \in Nat : \A u \in Seq(Msg) :
                   Len(u) = k => Laid(Frames(u), Fitting(u))}
<1>1. 0 \in G
  <2>1. SUFFICES ASSUME NEW u \in Seq(Msg), Len(u) = 0
                 PROVE  Laid(Frames(u), Fitting(u))
    OBVIOUS
  <2>2. u = <<>>
    BY <2>1, EmptySeq
  <2> QED
    BY <2>2, FramesEmpty DEF Laid
<1>2. ASSUME NEW k \in G, NEW u \in Seq(Msg), Len(u) = k + 1
      PROVE  Laid(Frames(u), Fitting(u))
  <2>0. k \in Nat
    OBVIOUS
  <2>1. u # <<>>
    BY <1>2, <2>0
  <2>2. PICK v \in Seq(Msg), m \in Msg : u = Append(v, m)
    BY <2>1, SequenceEmptyOrAppend
  <2>3. Len(v) = k
    BY <2>0, <2>2, <1>2
  <2>4. Laid(Frames(v), Fitting(v))
    BY <2>3
  <2>5. /\ Frames(v) \in Seq(Unit) /\ Fitting(v) \in Seq(Msg)
        /\ Frames(u) = Frames(v) \o Frame(m)
        /\ Fitting(u) = Fitting(v) \o Fit(m)
    BY <2>2, FramesAppend, FittingAppend
  <2>6. CASE m \in TooLarge
    <3>1. Frames(v) \o <<>> = Frames(v) /\ Fitting(v) \o <<>> = Fitting(v)
      BY <2>5, ConcatEmptySeq
    <3> QED
      BY <2>4, <2>5, <2>6, <3>1 DEF Frame, Fit
  <2>7. CASE m \notin TooLarge
    <3>1. Fitting(v) \o <<m>> = Append(Fitting(v), m)
      BY <2>5
    <3>2. Laid(Frames(v) \o Bytes(m), Append(Fitting(v), m))
      BY <2>4, <2>5, <2>7, LaidMore
    <3> QED
      BY <2>5, <2>7, <3>1, <3>2 DEF Frame, Fit
  <2> QED
    BY <2>6, <2>7
<1>3. G = Nat
  <2>1. G \in SUBSET Nat
    OBVIOUS
  <2>2. \A k \in G : k + 1 \in G
    BY <1>2
  <2> HIDE DEF G
  <2> QED
    BY <1>1, <2>1, <2>2, AllNumbers
<1>4. Len(s) \in Nat
  OBVIOUS
<1> QED
  BY <1>3, <1>4
-----------------------------------------------------------------------------
(* OutboxInv.  What the socket has taken, what is buffered and what is      *)
(* queued are together the frames of everything that was sent.              *)

NothingLost == wire \o buffer \o Frames(held \o queue) = Frames(sent)

WriterInv ==
    /\ writer = "feed" => held # <<>>
    /\ writer \in {"recv", "flush", "done"} => held = <<>>
    /\ writer \in {"recv", "done"} => buffer = <<>>
    /\ writer = "done" => queue = <<>> /\ loop # "running"
    /\ loop = "closed" => ~WriterAlive

OutboxInv == OutboxTypeOK /\ NothingLost /\ WriterInv

LEMMA OutboxInvInit == Init => OutboxInv
<1>1. ASSUME Init PROVE OutboxInv
  <2>1. OutboxTypeOK
    <3>1. \A S : <<>> \in Seq(S) /\ Len(<<>>) = 0
      BY EmptySeq
    <3>2. Len(<<>>) <= MaxSends /\ Len(<<>>) <= Capacity /\ Len(<<>>) <= 1
      BY <3>1, OutboxAssumption
    <3> QED
      BY <1>1, <3>1, <3>2 DEF Init, OutboxTypeOK
  <2>2. NothingLost
    <3>1. <<>> \o <<>> = <<>> /\ <<>> \o <<>> \o <<>> = <<>>
      OBVIOUS
    <3> QED
      BY <1>1, <3>1, FramesEmpty DEF Init, NothingLost
  <2>3. WriterInv
    BY <1>1 DEF Init, WriterInv, WriterAlive
  <2> QED
    BY <2>1, <2>2, <2>3 DEF OutboxInv
<1> QED
  BY <1>1

(* Sending appends one frame to both sides. *)
LEMMA SendKeeps ==
    ASSUME OutboxInv, NEW m \in Msg, Send(m)
    PROVE  OutboxInv'
<1> USE OutboxAssumption DEF OutboxInv
<1>1. CASE UNCHANGED <<queue, sent>>
  <2>1. OutboxTypeOK'
    BY <1>1 DEF Send, OutboxTypeOK
  <2>2. NothingLost'
    BY <1>1 DEF Send, NothingLost
  <2>3. WriterInv'
    BY <1>1 DEF Send, WriterInv, WriterAlive
  <2> QED
    BY <2>1, <2>2, <2>3
<1>2. CASE /\ WriterAlive /\ Len(queue) < Capacity
           /\ queue' = Append(queue, m)
           /\ sent' = Append(sent, m)
           /\ UNCHANGED loop
  <2>1. OutboxTypeOK'
    <3>1. sent' \in Seq(Msg) /\ Len(sent') <= MaxSends
      BY <1>2 DEF Send, OutboxTypeOK
    <3>2. queue' \in Seq(Msg) /\ Len(queue') <= Capacity
      BY <1>2 DEF Send, OutboxTypeOK
    <3> QED
      BY <1>2, <3>1, <3>2 DEF Send, OutboxTypeOK
  <2>2. NothingLost'
    <3> DEFINE a == wire \o buffer
               b == Frames(held \o queue)
    <3>1. /\ queue \in Seq(Msg) /\ held \in Seq(Msg) /\ sent \in Seq(Msg)
          /\ wire \in Seq(Unit) /\ buffer \in Seq(Unit)
      BY DEF OutboxTypeOK
    <3>2. held \o queue \in Seq(Msg)
      BY <3>1
    <3>3. held \o Append(queue, m) = Append(held \o queue, m)
      BY <3>1
    <3>4. Frames(held' \o queue') = b \o Frame(m)
      BY <1>2, <3>2, <3>3, FramesAppend DEF Send
    <3>5. Frames(sent') = (a \o b) \o Frame(m)
      BY <1>2, <3>1, FramesAppend DEF NothingLost
    <3>6. a \in Seq(Unit) /\ b \in Seq(Unit) /\ Frame(m) \in Seq(Unit)
      <4>1. a \in Seq(Unit)
        BY <3>1
      <4>2. b \in Seq(Unit)
        BY <3>2, FramesAppend
      <4>3. Frame(m) \in Seq(Unit)
        BY FrameTyped
      <4> QED
        BY <4>1, <4>2, <4>3
    <3>7. (a \o b) \o Frame(m) = a \o (b \o Frame(m))
      BY <3>6, Regroup
    <3>8. wire' \o buffer' = a
      BY DEF Send
    <3> HIDE DEF a, b
    <3> QED
      BY <3>4, <3>5, <3>7, <3>8 DEF NothingLost
  <2>3. WriterInv'
    BY <1>2 DEF Send, WriterInv, WriterAlive
  <2> QED
    BY <2>1, <2>2, <2>3
<1> QED
  BY <1>1, <1>2 DEF Send

(* Encoding moves one frame from what is held to the buffer. *)
LEMMA FeedKeeps ==
    ASSUME OutboxInv, Feed
    PROVE  OutboxInv'
<1> USE OutboxAssumption DEF OutboxInv
<1>1. /\ queue \in Seq(Msg) /\ held \in Seq(Msg) /\ Len(held) <= 1 /\ held # <<>>
      /\ wire \in Seq(Unit) /\ buffer \in Seq(Unit) /\ Len(queue) <= Capacity
  BY DEF OutboxTypeOK, WriterInv, Feed
<1>2. Frames(held) \in Seq(Unit) /\ Frames(queue) \in Seq(Unit)
  BY <1>1, FramesAppend
<1>3. /\ held' \o queue' = queue
      /\ held' \in Seq(Msg) /\ Len(held') <= 1
      /\ queue' \in Seq(Msg) /\ Len(queue') <= Capacity
      /\ \/ writer' = "feed" /\ held' # <<>>
         \/ writer' = "flush" /\ held' = <<>>
  <2>1. CASE /\ queue = <<>>
             /\ held' = <<>> /\ writer' = "flush"
             /\ UNCHANGED queue
    BY <2>1, OutboxAssumption
  <2>2. CASE /\ queue # <<>>
             /\ held' = <<Head(queue)>> /\ queue' = Tail(queue)
             /\ UNCHANGED writer
    <3>1. writer' = "feed"
      BY <2>2 DEF Feed
    <3>2. Head(queue) \in Msg /\ Tail(queue) \in Seq(Msg) /\ Len(Tail(queue)) = Len(queue) - 1
      BY <1>1, <2>2
    <3>3. <<Head(queue)>> \o Tail(queue) = queue
      BY <1>1, <2>2
    <3>4. Len(queue) - 1 <= Capacity
      BY <1>1
    <3> QED
      BY <2>2, <3>1, <3>2, <3>3, <3>4
  <2> QED
    BY <2>1, <2>2 DEF Feed
<1>4. buffer' = buffer \o Frames(held) /\ wire' = wire /\ sent' = sent
  BY DEF Feed
<1>5. OutboxTypeOK'
  <2>3. buffer' \in Seq(Unit)
    BY <1>1, <1>2, <1>4
  <2>4. writer' \in {"feed", "flush"} /\ loop' = loop /\ kick' = kick
    BY DEF Feed
  <2> QED
    BY <2>3, <2>4, <1>3, <1>4 DEF OutboxTypeOK
<1>6. NothingLost'
  <2> DEFINE a == wire \o buffer
             h == Frames(held)
             q == Frames(queue)
  <2>0. a \in Seq(Unit) /\ h \in Seq(Unit) /\ q \in Seq(Unit)
    BY <1>1, <1>2
  <2>1. Frames(held \o queue) = h \o q
    BY <1>1, FramesConcat
  <2>2. Frames(sent) = a \o (h \o q)
    BY <2>1 DEF NothingLost
  <2>3. a \o (h \o q) = (a \o h) \o q
    BY <2>0, Regroup
  <2>4. wire \o (buffer \o h) = a \o h
    BY <1>1, <1>2, Regroup
  <2>5. Frames(held' \o queue') = q
    BY <1>3
  <2> HIDE DEF a, q
  <2>6. wire' \o buffer' = a \o h
    BY <2>4, <1>4
  <2>7. wire' \o buffer' \o Frames(held' \o queue') = Frames(sent')
    BY <2>2, <2>3, <2>5, <2>6, <1>4
  <2> QED
    BY <2>7 DEF NothingLost
<1>7. WriterInv'
  BY <1>3 DEF Feed, WriterInv, WriterAlive
<1> QED
  BY <1>5, <1>6, <1>7

(* Writing moves units from the buffer to the wire. *)
LEMMA WriteKeeps ==
    ASSUME OutboxInv, Write
    PROVE  /\ OutboxInv'
           /\ \E u \in Seq(Unit) : Len(u) > 0 /\ wire' = wire \o u
<1> USE DEF OutboxInv
<1>1. PICK n \in 1..Len(buffer) :
          /\ wire' = wire \o SubSeq(buffer, 1, n)
          /\ buffer' = SubSeq(buffer, n + 1, Len(buffer))
  BY DEF Write
<1> DEFINE u == SubSeq(buffer, 1, n)
           w == SubSeq(buffer, n + 1, Len(buffer))
<1>2. wire \in Seq(Unit) /\ buffer \in Seq(Unit)
  BY DEF OutboxTypeOK
<1>3. u \in Seq(Unit) /\ w \in Seq(Unit) /\ Len(u) = n /\ n > 0 /\ u \o w = buffer
  BY <1>2
<1>4. (wire \o u) \o w = wire \o (u \o w)
  BY <1>2, <1>3, Regroup
<1> HIDE DEF u, w
<1>5. wire' = wire \o u /\ buffer' = w
  BY <1>1 DEF u, w
<1>6. wire' \o buffer' = wire \o buffer
  BY <1>3, <1>4, <1>5
<1>7. OutboxTypeOK'
  <2>1. wire' \in Seq(Unit) /\ buffer' \in Seq(Unit)
    BY <1>2, <1>3, <1>5
  <2> QED
    BY <2>1 DEF OutboxTypeOK, Write
<1>8. NothingLost'
  BY <1>6 DEF NothingLost, Write
<1>9. WriterInv'
  <2>1. writer \in {"flush", "feed"} /\ UNCHANGED <<queue, held, writer, loop>>
    BY DEF Write, Writing
  <2> QED
    BY <2>1 DEF WriterInv, WriterAlive
<1> QED
  BY <1>3, <1>5, <1>7, <1>8, <1>9

LEMMA RecvKeeps ==
    ASSUME OutboxInv, Recv
    PROVE  OutboxInv'
<1> USE DEF OutboxInv
<1>1. /\ queue \in Seq(Msg) /\ queue # <<>> /\ held = <<>> /\ buffer = <<>>
      /\ Len(queue) <= Capacity
  BY DEF Recv, OutboxTypeOK, WriterInv
<1>2. held' = <<Head(queue)>> /\ queue' = Tail(queue)
  BY DEF Recv
<1>3. held' \o queue' = held \o queue
  BY <1>1, <1>2
<1>4. OutboxTypeOK'
  <2>1. held' \in Seq(Msg) /\ Len(held') <= 1
    BY <1>1, <1>2
  <2>2. queue' \in Seq(Msg) /\ Len(queue') <= Capacity
    BY <1>1, <1>2, OutboxAssumption
  <2> QED
    BY <2>1, <2>2 DEF Recv, OutboxTypeOK
<1>5. NothingLost'
  <2>1. UNCHANGED <<wire, buffer, sent>>
    BY DEF Recv
  <2> QED
    BY <1>3, <2>1 DEF NothingLost
<1>6. WriterInv'
  BY <1>2 DEF Recv, WriterInv, WriterAlive
<1> QED
  BY <1>4, <1>5, <1>6

(* What only moves the two tasks on leaves the data alone. *)
LEMMA OthersKeep ==
    ASSUME OutboxInv,
           \/ EndLoop \/ Closed \/ DrainTimeout
           \/ RecvNone \/ Flushed \/ WriteError \/ UNCHANGED vars
    PROVE  OutboxInv'
<1> USE DEF OutboxInv
<1>1. UNCHANGED <<sent, queue, held, buffer, wire>>
  BY DEF EndLoop, Closed, DrainTimeout, RecvNone, Flushed, WriteError, vars
<1>2. NothingLost'
  BY <1>1 DEF NothingLost
<1>3. /\ writer' \in {"recv", "feed", "flush", "done", "failed", "aborted"}
      /\ loop' \in {"running", "closing", "closed"} /\ kick' \in BOOLEAN
  BY DEF EndLoop, Closed, DrainTimeout, RecvNone, Flushed, WriteError, vars,
         OutboxTypeOK
<1>4. OutboxTypeOK'
  BY <1>1, <1>3 DEF OutboxTypeOK
<1>5. WriterInv'
  BY <1>1 DEF EndLoop, Closed, DrainTimeout, RecvNone, Flushed, WriteError, vars,
         WriterInv, WriterAlive, Writing
<1> QED
  BY <1>2, <1>4, <1>5

LEMMA OutboxInvNext == OutboxInv /\ [Next]_vars => OutboxInv'
<1>1. SUFFICES ASSUME OutboxInv, [Next]_vars PROVE OutboxInv'
  OBVIOUS
<1>2. ASSUME NEW m \in Msg, Send(m) PROVE OutboxInv'
  BY <1>1, <1>2, SendKeeps
<1>3. CASE WriterNext
  BY <1>1, <1>3, RecvKeeps, FeedKeeps, WriteKeeps, OthersKeep DEF WriterNext
<1>4. CASE EndLoop \/ Closed \/ DrainTimeout
  BY <1>1, <1>4, OthersKeep
<1>5. CASE Finished \/ UNCHANGED vars
  BY <1>1, <1>5, OthersKeep DEF Finished
<1> QED
  BY <1>1, <1>2, <1>3, <1>4, <1>5 DEF Next

-----------------------------------------------------------------------------
(* The step simulation of the abstract channel *)

LEMMA LongerIsStrictPrefix ==
    ASSUME NEW s \in Seq(Unit), NEW u \in Seq(Unit), Len(u) > 0
    PROVE  Channel!IsStrictPrefix(s, s \o u)
<1>1. /\ s \o u \in Seq(Unit) /\ Len(s \o u) = Len(s) + Len(u)
      /\ Len(s) \in Nat /\ Len(u) \in Nat
  OBVIOUS
<1>2. SubSeq(s, 1, Len(s)) = SubSeq(s \o u, 1, Len(s))
  BY <1>1
<1>3. Len(s) <= Len(s \o u) /\ Len(s) # Len(s \o u)
  BY <1>1
<1>4. s # s \o u
  BY <1>3
<1> QED
  BY <1>2, <1>3, <1>4 DEF Channel!IsStrictPrefix, Channel!IsPrefix

LEMMA StartIsPrefix ==
    ASSUME NEW s \in Seq(Unit), NEW u \in Seq(Unit)
    PROVE  Channel!IsPrefix(s, s \o u)
<1>1. /\ s \o u \in Seq(Unit) /\ Len(s \o u) = Len(s) + Len(u)
      /\ Len(s) \in Nat /\ Len(u) \in Nat
  OBVIOUS
<1>2. SubSeq(s, 1, Len(s)) = SubSeq(s \o u, 1, Len(s))
  BY <1>1
<1> QED
  BY <1>1, <1>2 DEF Channel!IsPrefix

(* What the socket has taken begins what was accepted. *)
WireIsStart ==
    /\ wire \in Seq(Unit) /\ Frames(sent) \in Seq(Unit)
    /\ \E u \in Seq(Unit) : Frames(sent) = wire \o u

LEMMA WireStarts == OutboxInv => WireIsStart
<1> SUFFICES ASSUME OutboxInv PROVE WireIsStart
  OBVIOUS
<1>1. /\ wire \in Seq(Unit) /\ buffer \in Seq(Unit) /\ held \o queue \in Seq(Msg)
      /\ sent \in Seq(Msg)
  <2>1. held \in Seq(Msg) /\ queue \in Seq(Msg)
    BY DEF OutboxInv, OutboxTypeOK
  <2> QED
    BY <2>1 DEF OutboxInv, OutboxTypeOK
<1> DEFINE b == Frames(held \o queue)
<1>2. b \in Seq(Unit) /\ Frames(sent) \in Seq(Unit)
  BY <1>1, FramesTyped
<1>3. Frames(sent) = (wire \o buffer) \o b
  BY DEF OutboxInv, NothingLost
<1>4. (wire \o buffer) \o b = wire \o (buffer \o b)
  BY <1>1, <1>2, Regroup
<1> HIDE DEF b
<1>5. buffer \o b \in Seq(Unit)
  BY <1>1, <1>2
<1> QED
  BY <1>1, <1>2, <1>3, <1>4, <1>5 DEF WireIsStart

LEMMA WireStartsNext == OutboxInv' => WireIsStart'
BY WireStarts, PTL

LEMMA ChannelStep ==
    ASSUME OutboxInv, OutboxInv', [Next]_vars
    PROVE  [Channel!ChannelNext]_(Channel!channelVars)
<1> USE DEF Channel!ChannelNext, Channel!channelVars
<1>0. /\ writer \in {"recv", "feed", "flush", "done", "failed", "aborted"}
      /\ loop \in {"running", "closing", "closed"}
      /\ sent \in Seq(Msg) /\ wire \in Seq(Unit) /\ Frames(sent) \in Seq(Unit)
  BY WireStarts DEF WireIsStart, OutboxInv, OutboxTypeOK
<1>1. ASSUME UNCHANGED <<sent, wire, channelState>>
      PROVE  UNCHANGED Channel!channelVars
  BY <1>1
<1>2. ASSUME NEW m \in Msg, Send(m) PROVE [Channel!ChannelNext]_(Channel!channelVars)
  <2>1. CASE ~(WriterAlive /\ Len(queue) < Capacity)
    <3>1. loop = "running" /\ loop' = "closing" /\ UNCHANGED <<sent, wire, writer>>
      BY <1>2, <2>1 DEF Send
    <3>2. CASE WriterAlive
      <4>1. channelState = "open" /\ channelState' = "closing"
        BY <3>1, <3>2 DEF channelState, WriterAlive
      <4> QED
        BY <3>1, <4>1 DEF Channel!Close
    <3>3. CASE ~WriterAlive
      <4>1. UNCHANGED channelState
        BY <1>0, <3>1, <3>3 DEF channelState, WriterAlive
      <4> QED
        BY <1>1, <3>1, <4>1
    <3> QED
      BY <3>2, <3>3
  <2>2. CASE WriterAlive /\ sent' = Append(sent, m) /\ UNCHANGED <<loop, writer, wire>>
    <3>1. Frames(sent') = Frames(sent) \o Frame(m)
      BY <1>0, <2>2, FramesAppend
    <3>2. channelState = "open" /\ channelState' = "open"
      BY <1>2, <2>2 DEF Send, channelState, WriterAlive
    <3>3. CASE m \in TooLarge
      <4>1. Frames(sent) \o <<>> = Frames(sent)
        BY <1>0, ConcatEmptySeq
      <4> QED
        BY <2>2, <3>1, <3>2, <3>3, <4>1 DEF Frame
    <3>4. CASE m \notin TooLarge
      <4>1. Frame(m) \in Seq(Unit) /\ Len(Frame(m)) > 0
        BY <3>4, FrameTyped DEF Frame
      <4>2. Channel!IsStrictPrefix(Frames(sent), Frames(sent'))
        BY <1>0, <3>1, <4>1, LongerIsStrictPrefix
      <4> QED
        BY <2>2, <3>2, <4>2 DEF Channel!Offer
    <3> QED
      BY <3>3, <3>4
  <2> QED
    BY <1>2, <2>1, <2>2 DEF Send
<1>3. CASE EndLoop
  <2>1. loop = "running" /\ loop' = "closing" /\ UNCHANGED <<sent, wire, writer>>
    BY <1>3 DEF EndLoop
  <2>2. CASE WriterAlive
    <3>1. channelState = "open" /\ channelState' = "closing"
      BY <2>1, <2>2 DEF channelState, WriterAlive
    <3> QED
      BY <2>1, <3>1 DEF Channel!Close
  <2>3. CASE ~WriterAlive
    <3>1. UNCHANGED channelState
      BY <1>0, <2>1, <2>3 DEF channelState, WriterAlive
    <3> QED
      BY <1>1, <2>1, <3>1
  <2> QED
    BY <2>2, <2>3
<1>4. CASE Closed
  BY <1>0, <1>1, <1>4 DEF Closed, channelState, WriterAlive
<1>5. CASE DrainTimeout \/ WriteError
  <2>1. WriterAlive /\ writer' \in {"failed", "aborted"} /\ UNCHANGED <<sent, wire>>
    BY <1>5 DEF DrainTimeout, WriteError, Writing, WriterAlive
  <2>2. channelState \in {"open", "closing"} /\ channelState' = "broken"
    BY <2>1 DEF channelState, WriterAlive
  <2> QED
    BY <2>1, <2>2 DEF Channel!Cut
<1>6. CASE Recv \/ Feed \/ Flushed
  <2>1. /\ WriterAlive /\ writer' \in {"recv", "feed", "flush"}
        /\ UNCHANGED <<sent, wire, loop>>
    BY <1>6 DEF Recv, Feed, Flushed, WriterAlive
  <2>2. UNCHANGED channelState
    BY <2>1 DEF channelState, WriterAlive
  <2> QED
    BY <1>1, <2>1, <2>2
<1>7. CASE RecvNone
  <2>1. /\ writer = "recv" /\ writer' = "done" /\ loop # "running"
        /\ queue = <<>> /\ held = <<>> /\ buffer = <<>>
        /\ UNCHANGED <<sent, wire, loop>>
    BY <1>7 DEF RecvNone, OutboxInv, WriterInv
  <2>2. channelState = "closing" /\ channelState' = "complete"
    BY <2>1 DEF channelState, WriterAlive
  <2>3. wire = Frames(sent)
    <3>1. wire \o <<>> = wire /\ <<>> \o <<>> = <<>>
      BY <1>0, ConcatEmptySeq
    <3>2. wire \o <<>> \o Frames(<<>> \o <<>>) = Frames(sent)
      BY <2>1 DEF OutboxInv, NothingLost
    <3> QED
      BY <3>1, <3>2, FramesEmpty
  <2> QED
    BY <2>1, <2>2, <2>3 DEF Channel!Complete
<1>8. CASE Write
  <2>1. WriterAlive /\ UNCHANGED <<sent, writer, loop>>
    BY <1>8 DEF Write, Writing, WriterAlive
  <2>2. channelState \in {"open", "closing"} /\ UNCHANGED channelState
    BY <2>1 DEF channelState, WriterAlive
  <2>3. PICK u \in Seq(Unit) : Len(u) > 0 /\ wire' = wire \o u
    BY <1>8, WriteKeeps
  <2>4. Channel!IsStrictPrefix(wire, wire')
    BY <1>0, <2>3, LongerIsStrictPrefix
  <2>5. Channel!IsPrefix(wire', Frames(sent))
    <3>1. /\ wire' \in Seq(Unit)
          /\ \E w \in Seq(Unit) : Frames(sent') = wire' \o w
      BY WireStartsNext DEF WireIsStart
    <3>2. PICK w \in Seq(Unit) : Frames(sent) = wire' \o w
      BY <2>1, <3>1
    <3> QED
      BY <3>1, <3>2, StartIsPrefix
  <2> QED
    BY <2>1, <2>2, <2>4, <2>5 DEF Channel!Deliver
<1>9. CASE Finished \/ UNCHANGED vars
  <2>1. UNCHANGED <<sent, wire, writer, loop>>
    BY <1>9 DEF Finished, vars
  <2>2. UNCHANGED channelState
    BY <2>1 DEF channelState, WriterAlive
  <2> QED
    BY <1>1, <2>1, <2>2
<1> QED
  BY <1>2, <1>3, <1>4, <1>5, <1>6, <1>7, <1>8, <1>9 DEF Next, WriterNext

LEMMA OutboxInvAlways == Spec => []OutboxInv
<1>1. Init => OutboxInv
  BY OutboxInvInit
<1>2. OutboxInv /\ [Next]_vars => OutboxInv'
  BY OutboxInvNext
<1> QED
  BY <1>1, <1>2, PTL DEF Spec

(* The outbox implements the abstract channel, but for the channel's        *)
(* fairness: what the socket takes is always a start of the frames of what  *)
(* send accepted, through every batch and partial write of write_loop; it   *)
(* is complete only when that is all of it, and nothing follows a failure   *)
(* (Outbox::send, write_loop, Writer::close).                               *)
THEOREM OutboxImplementsChannel == Spec => Channel!ChannelSteps
<1>1. Init => Channel!ChannelInit
  BY FramesEmpty DEF Init, Channel!ChannelInit, channelState, WriterAlive
<1>2. OutboxInv /\ OutboxInv' /\ [Next]_vars
         => [Channel!ChannelNext]_(Channel!channelVars)
  BY ChannelStep
<1> QED
  BY <1>1, <1>2, OutboxInvAlways, PTL DEF Spec, Channel!ChannelSteps

(* The same beside the reader of the connection (FramedRead, decode): it    *)
(* takes nothing back from the channel.                                     *)
THEOREM FramingImplementsChannel == FramingSpec => Channel!ChannelSteps
<1>1. FramingInit => Init
  BY DEF FramingInit
<1>2. [FramingNext]_allVars => [Next]_vars
  BY DEF FramingNext, allVars
<1> QED
  BY <1>1, <1>2, OutboxImplementsChannel, PTL DEF FramingSpec, Spec

-----------------------------------------------------------------------------
(* ReaderInv.  The reader's buffer is the end of what it has received, and  *)
(* what it has decoded is a start of what encode let through.               *)

SrcIsSuffix ==
    /\ src \in Seq(AnyUnit)
    /\ Len(src) <= taken
    /\ \A i \in 1..Len(src) : src[i] = Stream[taken - Len(src) + i]

Starts(s, t) == Len(s) <= Len(t) /\ \A i \in 1..Len(s) : s[i] = t[i]

ReaderInv ==
    /\ prologue \in {<<>>} \cup {Bytes(m) : m \in Foreign}
    /\ taken \in 0..Len(Stream)
    /\ decoded \in Seq(Msg)
    /\ reader \in {"open", "invalid", "torn", "end", "reset"}
    /\ SrcIsSuffix
    /\ prologue = <<>> =>
          /\ taken = 3 * Len(decoded) + Len(src)
          /\ Starts(decoded, Fitting(sent))
          /\ Laid(Frames(decoded), decoded)
          /\ reader # "invalid"
          /\ reader = "end" => src = <<>> /\ taken = Len(wire) /\ ~WriterAlive
    /\ prologue # <<>> => decoded = <<>> /\ Len(src) = taken /\ reader # "end"

FramingInv == OutboxInv /\ ReaderInv

-----------------------------------------------------------------------------
(* The stream *)

LEMMA StreamTyped ==
    ASSUME FramingInv
    PROVE  /\ prologue \in Seq(AnyUnit) /\ wire \in Seq(AnyUnit)
           /\ wire \in Seq(Unit)
           /\ Stream \in Seq(AnyUnit)
           /\ Len(Stream) = Len(prologue) + Len(wire)
           /\ prologue = <<>> => Stream = wire
<1>1. prologue \in Seq(AnyUnit)
  <2>1. CASE prologue = <<>>
    BY <2>1, EmptySeq
  <2>2. ASSUME NEW m \in Foreign, prologue = Bytes(m)
        PROVE  prologue \in Seq(AnyUnit)
    <3>1. <<m, 1>> \in AnyUnit /\ <<m, 2>> \in AnyUnit /\ <<m, 3>> \in AnyUnit
      BY OutboxAssumption DEF AnyUnit
    <3> QED
      BY <2>2, <3>1 DEF Bytes
  <2> QED
    BY <2>1, <2>2 DEF FramingInv, ReaderInv
<1>2. wire \in Seq(Unit)
  BY DEF FramingInv, OutboxInv, OutboxTypeOK
<1>3. Unit \subseteq AnyUnit
  BY DEF Unit, AnyUnit
<1>4. wire \in Seq(AnyUnit)
  BY <1>2, <1>3, SeqMonotonic
<1>5. Stream \in Seq(AnyUnit) /\ Len(Stream) = Len(prologue) + Len(wire)
  BY <1>1, <1>4, ConcatProperties DEF Stream
<1>6. prologue = <<>> => Stream = wire
  BY <1>4, ConcatEmptySeq DEF Stream
<1> QED
  BY <1>1, <1>2, <1>4, <1>5, <1>6

(* The next unit of a stream of this program is the first of the next       *)
(* message that fits.                                                       *)
LEMMA NextUnit ==
    ASSUME FramingInv, prologue = <<>>, Len(src) >= 1
    PROVE  /\ Len(decoded) + 1 <= Len(Fitting(sent))
           /\ src[1][1] = Fitting(sent)[Len(decoded) + 1]
           /\ src[1][1] \in Msg \ TooLarge
<1> DEFINE n == Len(decoded)
           q == Fitting(sent)
           f == Frames(sent)
<1>1. sent \in Seq(Msg) /\ n \in Nat /\ q \in Seq(Msg)
  BY FittingTyped DEF FramingInv, ReaderInv, OutboxInv, OutboxTypeOK
<1>2. Laid(f, q)
  BY <1>1, FramesLaid
<1>3. src[1] = Stream[taken - Len(src) + 1] /\ Len(src) <= taken /\ Len(src) \in Nat
  BY DEF FramingInv, ReaderInv, SrcIsSuffix
<1>4. taken = 3 * n + Len(src) /\ taken \in 0..Len(Stream)
  BY DEF FramingInv, ReaderInv
<1>5. Stream = wire /\ wire \in Seq(Unit)
  BY StreamTyped
<1>6. PICK u \in Seq(Unit) : f = wire \o u
  BY WireStarts DEF FramingInv, WireIsStart
<1> HIDE DEF n, f, q
<1>7. 3 * n + 1 \in 1..Len(wire) /\ src[1] = wire[3 * n + 1]
  BY <1>1, <1>3, <1>4, <1>5
<1>8. Len(wire) <= Len(f) /\ wire[3 * n + 1] = f[3 * n + 1]
  BY <1>5, <1>6, <1>7
<1>9. Len(q) \in Nat /\ Len(f) = 3 * Len(q)
  BY <1>1, <1>2 DEF Laid
<1>10. n + 1 \in 1..Len(q)
  <2>1. 3 * n + 1 <= 3 * Len(q)
    BY <1>1, <1>5, <1>7, <1>8, <1>9
  <2> QED
    BY <1>1, <1>9, <2>1
<1>11. f[3 * ((n + 1) - 1) + 1] = <<q[n + 1], 1>> /\ q[n + 1] \notin TooLarge
  BY <1>10, <1>2 DEF Laid
<1>12. 3 * ((n + 1) - 1) + 1 = 3 * n + 1
  BY <1>1
<1>13. src[1] = <<q[n + 1], 1>>
  BY <1>7, <1>8, <1>11, <1>12
<1>14. src[1][1] = q[n + 1] /\ q[n + 1] \in Msg
  BY <1>1, <1>10, <1>13
<1> QED
  BY <1>10, <1>11, <1>14 DEF n, q

(* A stream of another program starts with what decode rejects. *)
LEMMA ForeignUnit ==
    ASSUME FramingInv, prologue # <<>>, Len(src) >= 1
    PROVE  src[1][1] \in Foreign
<1>1. PICK m \in Foreign : prologue = Bytes(m)
  BY DEF FramingInv, ReaderInv
<1>2. Len(prologue) = 3 /\ prologue[1] = <<m, 1>>
  BY <1>1 DEF Bytes
<1>3. prologue \in Seq(AnyUnit) /\ wire \in Seq(AnyUnit)
  BY StreamTyped
<1>4. Len(src) = taken /\ Len(src) \in Nat /\ src[1] = Stream[taken - Len(src) + 1]
  BY DEF FramingInv, ReaderInv, SrcIsSuffix
<1>5. src[1] = Stream[1]
  BY <1>4
<1>6. Stream[1] = prologue[1]
  BY <1>2, <1>3 DEF Stream
<1> QED
  BY <1>2, <1>5, <1>6

-----------------------------------------------------------------------------
(* Steps of the outbox: the stream grows, what was sent grows *)

LEMMA Grows ==
    ASSUME OutboxInv, [Next]_vars
    PROVE  /\ \E u \in Seq(Unit) : wire' = wire \o u
           /\ sent' = sent \/ \E m \in Msg : sent' = Append(sent, m)
           /\ ~WriterAlive => wire' = wire /\ ~WriterAlive'
<1>1. CASE Write
  <2>1. WriterAlive /\ sent' = sent
    BY <1>1 DEF Write, Writing, WriterAlive
  <2> QED
    BY <1>1, <2>1, WriteKeeps
<1>2. ASSUME wire' = wire PROVE \E u \in Seq(Unit) : wire' = wire \o u
  <2>1. wire \in Seq(Unit) /\ <<>> \in Seq(Unit)
    BY EmptySeq DEF OutboxInv, OutboxTypeOK
  <2>2. wire \o <<>> = wire
    BY <2>1, ConcatEmptySeq
  <2> QED
    BY <1>2, <2>1, <2>2
<1>3. ASSUME NEW m \in Msg, Send(m)
      PROVE  /\ sent' = sent \/ sent' = Append(sent, m)
             /\ wire' = wire /\ writer' = writer
  BY <1>3 DEF Send
<1>4. CASE \E m \in Msg : Send(m)
  BY <1>2, <1>3, <1>4 DEF WriterAlive
<1>5. CASE \/ EndLoop \/ Closed \/ DrainTimeout \/ Recv \/ RecvNone \/ Feed
           \/ Flushed \/ WriteError \/ Finished \/ UNCHANGED vars
  <2>1. wire' = wire /\ sent' = sent
    BY <1>5 DEF EndLoop, Closed, DrainTimeout, Recv, RecvNone, Feed, Flushed,
                WriteError, Finished, vars
  <2>2. ~WriterAlive => ~WriterAlive'
    BY <1>5 DEF EndLoop, Closed, DrainTimeout, Recv, RecvNone, Feed, Flushed,
                WriteError, Finished, vars, WriterAlive, Writing
  <2> QED
    BY <1>2, <2>1, <2>2
<1> QED
  BY <1>1, <1>4, <1>5 DEF Next, WriterNext

LEMMA FittingGrows ==
    ASSUME NEW s \in Seq(Msg), NEW m \in Msg, NEW d \in Seq(Msg),
           Starts(d, Fitting(s))
    PROVE  Starts(d, Fitting(Append(s, m)))
<1>1. /\ Fitting(s) \in Seq(Msg) /\ Fit(m) \in Seq(Msg)
      /\ Fitting(Append(s, m)) = Fitting(s) \o Fit(m)
  BY FittingAppend, FitTyped
<1> DEFINE q == Fitting(s)
           r == q \o Fit(m)
<1> HIDE DEF q
<1>2. Len(q) <= Len(r) /\ \A i \in 1..Len(q) : r[i] = q[i]
  BY <1>1 DEF q
<1>3. Len(q) \in Nat /\ Len(r) \in Nat /\ Len(d) \in Nat
  BY <1>1 DEF q
<1> HIDE DEF r
<1>4. Starts(d, r)
  BY <1>2, <1>3 DEF Starts, q
<1> QED
  BY <1>1, <1>4 DEF q, r

LEMMA WriterKeepsReader ==
    ASSUME FramingInv, [Next]_vars, UNCHANGED readerVars
    PROVE  ReaderInv'
<1>0. /\ OutboxInv /\ ReaderInv
      /\ UNCHANGED <<prologue, taken, src, decoded, reader>>
  BY DEF FramingInv, readerVars
<1>1. PICK u \in Seq(Unit) : wire' = wire \o u
  BY <1>0, Grows
<1>2. /\ prologue \in Seq(AnyUnit) /\ wire \in Seq(AnyUnit)
      /\ Stream \in Seq(AnyUnit) /\ Stream = prologue \o wire
      /\ Len(Stream) = Len(prologue) + Len(wire)
  BY StreamTyped DEF Stream
<1>3. u \in Seq(AnyUnit)
  <2>1. Unit \subseteq AnyUnit
    BY DEF Unit, AnyUnit
  <2> QED
    BY <2>1, SeqMonotonic
<1>4. Stream' = Stream \o u
  <2>1. Stream' = prologue \o (wire \o u)
    BY <1>0, <1>1 DEF Stream
  <2> QED
    BY <2>1, <1>2, <1>3, RegroupAny
<1> DEFINE st == Stream
           sn == Stream'
<1>5. /\ Len(st) \in Nat /\ Len(sn) \in Nat /\ Len(st) <= Len(sn)
      /\ \A i \in 1..Len(st) : sn[i] = st[i]
  BY <1>2, <1>3, <1>4
<1>6. taken \in 0..Len(Stream)'
  BY <1>0, <1>5 DEF ReaderInv
<1>7. SrcIsSuffix'
  <2>1. /\ Len(src) \in Nat /\ Len(src) <= taken /\ src \in Seq(AnyUnit)
        /\ taken \in 0..Len(st) /\ \A i \in 1..Len(src) : src[i] = st[taken - Len(src) + i]
    BY <1>0 DEF ReaderInv, SrcIsSuffix
  <2> HIDE DEF st, sn
  <2>2. ASSUME NEW i \in 1..Len(src) PROVE src[i] = sn[taken - Len(src) + i]
    <3>1. taken - Len(src) + i \in 1..Len(st)
      BY <1>5, <2>1
    <3> QED
      BY <1>5, <2>1, <3>1
  <2> QED
    BY <1>0, <2>1, <2>2 DEF SrcIsSuffix, sn
<1>8. Starts(decoded, Fitting(sent)) => Starts(decoded, Fitting(sent'))
  <2>1. sent \in Seq(Msg) /\ decoded \in Seq(Msg)
    BY <1>0 DEF OutboxInv, OutboxTypeOK, ReaderInv
  <2>2. sent' = sent \/ \E m \in Msg : sent' = Append(sent, m)
    BY <1>0, Grows
  <2> QED
    BY <2>1, <2>2, FittingGrows
<1>9. ~WriterAlive => wire' = wire /\ ~WriterAlive'
  BY <1>0, Grows
<1>10. prologue = <<>> =>
          /\ taken = 3 * Len(decoded) + Len(src)
          /\ Starts(decoded, Fitting(sent'))
          /\ Laid(Frames(decoded), decoded)
          /\ reader # "invalid"
          /\ reader = "end" => src = <<>> /\ taken = Len(wire') /\ ~WriterAlive'
  BY <1>0, <1>8, <1>9 DEF ReaderInv
<1> QED
  BY <1>0, <1>6, <1>7, <1>10 DEF ReaderInv

-----------------------------------------------------------------------------
(* Steps of the reader *)

LEMMA ReadChunkKeeps ==
    ASSUME FramingInv, ReadChunk, UNCHANGED vars
    PROVE  ReaderInv'
<1>0. /\ ReaderInv
      /\ UNCHANGED <<prologue, decoded, reader, sent, wire, writer>>
      /\ reader = "open" /\ Stream' = Stream
  BY DEF FramingInv, ReadChunk, vars, Stream
<1>1. PICK n \in taken + 1..Len(Stream) :
          src' = src \o SubSeq(Stream, taken + 1, n) /\ taken' = n
  BY DEF ReadChunk
<1> DEFINE st == Stream
           c == SubSeq(st, taken + 1, n)
<1>2. /\ st \in Seq(AnyUnit) /\ taken \in 0..Len(st) /\ src \in Seq(AnyUnit)
      /\ Len(src) \in Nat /\ Len(src) <= taken /\ Len(st) \in Nat
      /\ \A i \in 1..Len(src) : src[i] = st[taken - Len(src) + i]
  BY <1>0, StreamTyped DEF ReaderInv, SrcIsSuffix
<1> HIDE DEF st
<1>3. n \in taken + 1..Len(st) /\ src' = src \o c
  BY <1>1 DEF st
<1>4. /\ c \in Seq(AnyUnit) /\ Len(c) = n - taken
      /\ \A i \in 1..(n - taken) : c[i] = st[taken + i]
  BY <1>2, <1>3
<1> HIDE DEF c
<1>5. /\ src' \in Seq(AnyUnit) /\ Len(src') = Len(src) + (n - taken)
      /\ \A i \in 1..Len(src) : src'[i] = src[i]
      /\ \A i \in 1..(n - taken) : src'[Len(src) + i] = c[i]
  <2>1. src \in Seq(AnyUnit) /\ c \in Seq(AnyUnit)
    BY <1>2, <1>4
  <2>2. /\ src \o c \in Seq(AnyUnit)
        /\ Len(src \o c) = Len(src) + Len(c)
        /\ \A i \in 1..Len(src) : (src \o c)[i] = src[i]
        /\ \A i \in 1..Len(c) : (src \o c)[Len(src) + i] = c[i]
    BY <2>1, ConcatParts
  <2> QED
    BY <1>3, <1>4, <2>2
<1>6. Len(src') <= n /\ n - Len(src') = taken - Len(src)
  BY <1>2, <1>3, <1>5
<1>7. ASSUME NEW i \in 1..Len(src') PROVE src'[i] = st[n - Len(src') + i]
  <2>1. CASE i \in 1..Len(src)
    BY <1>2, <1>5, <1>6, <2>1
  <2>2. CASE i \notin 1..Len(src)
    <3> DEFINE k == i - Len(src)
    <3>1. k \in 1..(n - taken) /\ i = Len(src) + k
      BY <1>2, <1>3, <1>5, <2>2
    <3>2. taken - Len(src) + i = taken + k
      BY <1>2, <3>1
    <3> HIDE DEF k
    <3> QED
      BY <1>4, <1>5, <1>6, <3>1, <3>2
  <2> QED
    BY <2>1, <2>2
<1>8. SrcIsSuffix'
  BY <1>0, <1>1, <1>5, <1>6, <1>7 DEF SrcIsSuffix, st
<1>9. taken' \in 0..Len(Stream')
  BY <1>0, <1>1, <1>2, <1>3 DEF st
<1>10. prologue = <<>> => taken' = 3 * Len(decoded) + Len(src')
  <2>1. prologue = <<>> => taken = 3 * Len(decoded) + Len(src)
    BY <1>0 DEF ReaderInv
  <2>2. Len(decoded) \in Nat
    BY <1>0 DEF ReaderInv
  <2> QED
    BY <1>1, <1>2, <1>3, <1>5, <2>1, <2>2
<1>11. prologue # <<>> => Len(src') = taken'
  <2>1. prologue # <<>> => Len(src) = taken
    BY <1>0 DEF ReaderInv
  <2>2. /\ taken' = n /\ Len(src') = Len(src) + (n - taken)
        /\ Len(src) \in Nat /\ taken \in Nat /\ n \in Int
    BY <1>1, <1>2, <1>5
  <2> QED
    BY <2>1, <2>2
<1> QED
  BY <1>0, <1>8, <1>9, <1>10, <1>11 DEF ReaderInv

LEMMA DropThree ==
    ASSUME NEW S, NEW s \in Seq(S), Len(s) >= 3
    PROVE  /\ SubSeq(s, 4, Len(s)) \in Seq(S)
           /\ Len(SubSeq(s, 4, Len(s))) = Len(s) - 3
           /\ \A i \in 1..(Len(s) - 3) : SubSeq(s, 4, Len(s))[i] = s[i + 3]
<1>1. Len(s) \in Nat /\ \A i \in 4..Len(s) : s[i] \in S
  OBVIOUS
<1>2. SubSeq(s, 4, Len(s)) \in Seq(S) /\ Len(SubSeq(s, 4, Len(s))) = Len(s) - 3
  <2> DEFINE t == SubSeq(s, 4, Len(s))
             n == Len(s)
  <2>1. t \in Seq(S) /\ Len(t) = IF 4 <= n THEN n - 4 + 1 ELSE 0
    BY <1>1, SubSeqProperties
  <2>2. n \in Nat /\ n >= 3
    BY <1>1
  <2> HIDE DEF t, n
  <2>3. Len(t) = n - 3
    BY <2>1, <2>2
  <2> QED
    BY <2>1, <2>3 DEF t, n
<1>3. ASSUME NEW i \in 1..(Len(s) - 3) PROVE SubSeq(s, 4, Len(s))[i] = s[i + 3]
  <2>1. i \in 1..(Len(s) - 4 + 1) /\ 4 + i - 1 = i + 3
    BY <1>1
  <2>2. SubSeq(s, 4, Len(s))[i] = s[4 + i - 1]
    BY <1>1, <2>1, SubSeqProperties
  <2> QED
    BY <2>1, <2>2
<1> QED
  BY <1>2, <1>3

LEMMA DecodeKeeps ==
    ASSUME FramingInv, Decode, UNCHANGED vars
    PROVE  ReaderInv'
<1>0. /\ ReaderInv
      /\ UNCHANGED <<prologue, taken, reader, sent, wire, writer>>
      /\ reader = "open" /\ Stream' = Stream
  BY DEF FramingInv, Decode, vars, Stream
<1>1. /\ Len(src) >= 3 /\ src[1][1] \notin Foreign
      /\ decoded' = Append(decoded, src[1][1])
      /\ src' = SubSeq(src, 4, Len(src))
  <2>1. Len(src) \in Nat
    BY <1>0 DEF ReaderInv, SrcIsSuffix
  <2> QED
    BY <2>1 DEF Decode, Complete, Invalid, Header, Foreign
<1>2. /\ taken \in 0..Len(Stream) /\ src \in Seq(AnyUnit)
      /\ Len(src) \in Nat /\ Len(src) <= taken /\ Len(Stream) \in Nat
      /\ \A i \in 1..Len(src) : src[i] = Stream[taken - Len(src) + i]
  BY <1>0, StreamTyped DEF ReaderInv, SrcIsSuffix
<1>3. prologue = <<>>
  BY <1>1, <1>2, ForeignUnit
<1> DEFINE m == src[1][1]
           n == Len(decoded)
           q == Fitting(sent)
<1>4. n + 1 <= Len(q) /\ m = q[n + 1] /\ m \in Msg \ TooLarge
  BY <1>1, <1>2, <1>3, NextUnit
<1>5. /\ decoded \in Seq(Msg) /\ n \in Nat /\ q \in Seq(Msg)
      /\ taken = 3 * n + Len(src) /\ Starts(decoded, q)
      /\ Laid(Frames(decoded), decoded)
  <2>1. sent \in Seq(Msg)
    BY DEF FramingInv, OutboxInv, OutboxTypeOK
  <2> QED
    BY <1>0, <1>3, <2>1, FittingTyped DEF ReaderInv
<1>6. /\ src' \in Seq(AnyUnit) /\ Len(src') = Len(src) - 3
      /\ \A i \in 1..(Len(src) - 3) : src'[i] = src[i + 3]
  <2>1. src \in Seq(AnyUnit) /\ Len(src) \in Nat /\ Len(src) >= 3
    BY <1>1, <1>2
  <2>2. src' = SubSeq(src, 4, Len(src))
    BY <1>1
  <2> QED
    BY <2>1, <2>2, DropThree
<1> HIDE DEF m, n, q
<1>7. /\ decoded' \in Seq(Msg) /\ Len(decoded') = n + 1 /\ decoded'[n + 1] = m
      /\ \A i \in 1..n : decoded'[i] = decoded[i]
  <2>1. decoded' = Append(decoded, m)
    BY <1>1 DEF m
  <2> QED
    BY <1>4, <1>5, <2>1, AppendProperties DEF n
<1>8. SrcIsSuffix'
  <2>1. Len(src') <= taken
    BY <1>1, <1>2, <1>6
  <2>2. ASSUME NEW i \in 1..Len(src') PROVE src'[i] = Stream[taken - Len(src') + i]
    <3>0. /\ Len(src') = Len(src) - 3 /\ Len(src) \in Nat /\ Len(src) >= 3
          /\ taken \in Nat /\ i \in 1..(Len(src) - 3)
      BY <1>1, <1>2, <1>6
    <3>1. i + 3 \in 1..Len(src) /\ taken - Len(src') + i = taken - Len(src) + (i + 3)
      BY <3>0
    <3> QED
      BY <1>2, <1>6, <3>1
  <2> QED
    BY <1>0, <1>6, <2>1, <2>2 DEF SrcIsSuffix
<1>9. taken' = 3 * Len(decoded') + Len(src')
  <2>1. /\ Len(src') = Len(src) - 3 /\ Len(src) \in Nat /\ Len(src) >= 3
        /\ taken' = taken /\ taken = 3 * n + Len(src)
        /\ Len(decoded') = n + 1 /\ n \in Nat
    BY <1>0, <1>1, <1>2, <1>5, <1>6, <1>7
  <2> QED
    BY <2>1
<1>10. Starts(decoded', q)
  <2>1. Len(q) \in Nat
    BY <1>5
  <2>2. ASSUME NEW i \in 1..(n + 1) PROVE decoded'[i] = q[i]
    <3>1. CASE i = n + 1
      BY <1>4, <1>7, <3>1
    <3>2. CASE i \in 1..n
      BY <1>5, <1>7, <3>2 DEF Starts, n
    <3> QED
      BY <1>5, <3>1, <3>2
  <2> QED
    BY <1>4, <1>5, <1>7, <2>1, <2>2 DEF Starts
<1>11. Laid(Frames(decoded'), decoded')
  <2>1. decoded' = Append(decoded, m)
    BY <1>1 DEF m
  <2>2. Frames(decoded) \in Seq(Unit) /\ Frames(decoded') = Frames(decoded) \o Bytes(m)
    BY <1>4, <1>5, <2>1, FramesAppend DEF Frame
  <2> QED
    BY <1>4, <1>5, <2>1, <2>2, LaidMore
<1> QED
  BY <1>0, <1>3, <1>7, <1>8, <1>9, <1>10, <1>11 DEF ReaderInv, q

LEMMA RejectKeeps ==
    ASSUME FramingInv, Reject, UNCHANGED vars
    PROVE  ReaderInv'
<1>0. /\ ReaderInv
      /\ UNCHANGED <<prologue, taken, src, decoded, sent, wire, writer>>
      /\ reader' = "invalid" /\ Stream' = Stream
  BY DEF FramingInv, Reject, vars, Stream
<1>1. Len(src) >= 1 /\ src[1][1] \in Foreign
  <2>1. Len(src) \in Nat
    BY <1>0 DEF ReaderInv, SrcIsSuffix
  <2> QED
    BY <2>1 DEF Reject, Invalid, Header, Foreign
<1>2. prologue # <<>>
  BY <1>1, NextUnit, FramingAssumption DEF Foreign
<1>3. SrcIsSuffix'
  BY <1>0 DEF ReaderInv, SrcIsSuffix
<1> QED
  BY <1>0, <1>2, <1>3 DEF ReaderInv

LEMMA EofKeeps ==
    ASSUME FramingInv, Eof, UNCHANGED vars
    PROVE  ReaderInv'
<1>0. /\ ReaderInv
      /\ UNCHANGED <<prologue, taken, src, decoded, sent, wire, writer>>
      /\ reader' \in {"end", "torn"} /\ Stream' = Stream
      /\ ~WriterAlive /\ ~WriterAlive' /\ taken = Len(Stream)
      /\ reader' = "end" => src = <<>>
  BY DEF FramingInv, Eof, vars, Stream, WriterAlive
<1>1. SrcIsSuffix'
  BY <1>0 DEF ReaderInv, SrcIsSuffix
<1>2. prologue = <<>> => (reader' = "end" => taken' = Len(wire'))
  BY <1>0, StreamTyped
<1>3. ASSUME prologue # <<>> PROVE reader' # "end"
  <2>1. PICK m : prologue = Bytes(m)
    BY <1>0, <1>3 DEF ReaderInv
  <2>2. Len(prologue) = 3
    BY <2>1 DEF Bytes
  <2>3. Len(Stream) = Len(prologue) + Len(wire) /\ Len(wire) \in Nat
    BY StreamTyped
  <2>4. Len(src) = taken
    BY <1>0, <1>3 DEF ReaderInv
  <2>5. Len(src) # 0
    BY <1>0, <2>2, <2>3, <2>4
  <2> QED
    BY <1>0, <2>5
<1> QED
  BY <1>0, <1>1, <1>2, <1>3 DEF ReaderInv

LEMMA ResetKeeps ==
    ASSUME FramingInv, Reset, UNCHANGED vars
    PROVE  ReaderInv'
<1>0. /\ ReaderInv
      /\ UNCHANGED <<prologue, taken, src, decoded, sent, wire, writer>>
      /\ reader' = "reset" /\ Stream' = Stream
  BY DEF FramingInv, Reset, vars, Stream
<1>1. SrcIsSuffix'
  BY <1>0 DEF ReaderInv, SrcIsSuffix
<1> QED
  BY <1>0, <1>1 DEF ReaderInv

LEMMA FramingInvInit == FramingInit => FramingInv
<1> SUFFICES ASSUME FramingInit PROVE FramingInv
  OBVIOUS
<1>1. OutboxInv
  BY OutboxInvInit DEF FramingInit
<1>2. /\ wire = <<>> /\ sent = <<>> /\ src = <<>> /\ decoded = <<>> /\ taken = 0
      /\ reader = "open"
      /\ prologue \in {<<>>} \cup {Bytes(m) : m \in Foreign}
  BY DEF FramingInit, Init
<1>3. Len(Stream) \in Nat
  <2>1. CASE prologue = <<>>
    <3>1. Stream = <<>>
      BY <1>2, <2>1 DEF Stream
    <3> QED
      BY <3>1
  <2>2. ASSUME NEW m, prologue = Bytes(m) PROVE Len(Stream) \in Nat
    <3>1. Stream = Bytes(m)
      BY <1>2, <2>2 DEF Stream, Bytes
    <3> QED
      BY <3>1 DEF Bytes
  <2> QED
    BY <1>2, <2>1, <2>2
<1>4. <<>> \in Seq(Msg) /\ <<>> \in Seq(AnyUnit) /\ Len(<<>>) = 0
  BY EmptySeq
<1>5. Starts(<<>>, <<>>) /\ Laid(<<>>, <<>>)
  BY DEF Starts, Laid
<1>6. SrcIsSuffix
  BY <1>2, <1>4 DEF SrcIsSuffix
<1> QED
  BY <1>1, <1>2, <1>3, <1>4, <1>5, <1>6, FramesEmpty DEF FramingInv, ReaderInv

LEMMA FramingInvNext == FramingInv /\ [FramingNext]_allVars => FramingInv'
<1> SUFFICES ASSUME FramingInv, [FramingNext]_allVars PROVE FramingInv'
  OBVIOUS
<1>1. [Next]_vars
  BY DEF FramingNext, allVars
<1>2. OutboxInv'
  BY <1>1, OutboxInvNext DEF FramingInv
<1>3. ASSUME UNCHANGED readerVars PROVE ReaderInv'
  BY <1>1, <1>3, WriterKeepsReader
<1>4. ASSUME Reading \/ Reset, UNCHANGED vars PROVE ReaderInv'
  BY <1>4, ReadChunkKeeps, DecodeKeeps, RejectKeeps, EofKeeps, ResetKeeps
  DEF Reading
<1>5. ReaderInv'
  BY <1>3, <1>4 DEF FramingNext, allVars
<1> QED
  BY <1>2, <1>5 DEF FramingInv

LEMMA FramingInvAlways == FramingSpec => []FramingInv
<1>1. FramingInit => FramingInv
  BY FramingInvInit
<1>2. FramingInv /\ [FramingNext]_allVars => FramingInv'
  BY FramingInvNext
<1> QED
  BY <1>1, <1>2, PTL DEF FramingSpec

-----------------------------------------------------------------------------
(* What the invariant says of the reader *)

LEMMA SuffixTyped ==
    ASSUME FramingInv
    PROVE  IsSuffix(src, SubSeq(Stream, 1, taken))
<1> DEFINE t == SubSeq(Stream, 1, taken)
           n == Len(src)
<1>1. /\ Stream \in Seq(AnyUnit) /\ taken \in 0..Len(Stream) /\ src \in Seq(AnyUnit)
      /\ n \in Nat /\ n <= taken /\ Len(Stream) \in Nat
      /\ \A i \in 1..n : src[i] = Stream[taken - n + i]
  BY StreamTyped DEF FramingInv, ReaderInv, SrcIsSuffix
<1>2. t \in Seq(AnyUnit) /\ Len(t) = taken /\ \A i \in 1..taken : t[i] = Stream[i]
  BY <1>1
<1> HIDE DEF t, n
<1>3. /\ Reverse(src) \in Seq(AnyUnit) /\ Len(Reverse(src)) = n
      /\ \A i \in 1..n : Reverse(src)[i] = src[n - i + 1]
  <2>1. Reverse(src) = [i \in 1..n |-> src[(n - i) + 1]]
    BY DEF Reverse, n
  <2>2. \A i \in 1..n : src[(n - i) + 1] \in AnyUnit
    <3>1. \A i \in 1..n : (n - i) + 1 \in 1..Len(src)
      BY <1>1 DEF n
    <3> QED
      BY <1>1, <3>1, ElementOfSeq
  <2> QED
    BY <1>1, <2>1, <2>2
<1>4. /\ Reverse(t) \in Seq(AnyUnit) /\ Len(Reverse(t)) = taken
      /\ \A i \in 1..taken : Reverse(t)[i] = t[taken - i + 1]
  <2>1. Reverse(t) = [i \in 1..taken |-> t[(taken - i) + 1]]
    BY <1>2 DEF Reverse
  <2>2. \A i \in 1..taken : t[(taken - i) + 1] \in AnyUnit
    <3>1. \A i \in 1..taken : (taken - i) + 1 \in 1..Len(t)
      BY <1>1, <1>2
    <3> QED
      BY <1>2, <3>1, ElementOfSeq
  <2> QED
    BY <1>1, <2>1, <2>2
<1>5. ASSUME NEW i \in 1..n PROVE Reverse(src)[i] = Reverse(t)[i]
  <2>1. /\ n - i + 1 \in 1..n /\ i \in 1..taken /\ taken - i + 1 \in 1..taken
        /\ taken - n + (n - i + 1) = taken - i + 1
    BY <1>1
  <2>2. src[n - i + 1] = Stream[taken - i + 1]
    BY <1>1, <2>1
  <2> QED
    BY <1>2, <1>3, <1>4, <2>1, <2>2
<1>6. SubSeq(Reverse(src), 1, n) = SubSeq(Reverse(t), 1, n)
  <2> DEFINE a == Reverse(src)
             b == Reverse(t)
  <2>1. a \in Seq(AnyUnit) /\ b \in Seq(AnyUnit) /\ Len(a) = n /\ Len(b) = taken
    BY <1>3, <1>4
  <2>2. \A i \in 1..n : a[i] = b[i]
    BY <1>5
  <2> HIDE DEF a, b
  <2>3. SubSeq(a, 1, n) = SubSeq(b, 1, n)
    BY <1>1, <2>1, <2>2
  <2> QED
    BY <2>3 DEF a, b
<1>7. IsPrefix(Reverse(src), Reverse(t))
  BY <1>1, <1>3, <1>4, <1>6 DEF IsPrefix
<1> QED
  BY <1>7 DEF IsSuffix, t

LEMMA TypedByInv == FramingInv => FramingTypeOK
BY SuffixTyped DEF FramingInv, OutboxInv, ReaderInv, FramingTypeOK

(* Every unit of a stream of frames is the j-th of the k-th frame. *)
LEMMA ThreeByThree ==
    ASSUME NEW n \in Nat, NEW i \in 1..(3 * n)
    PROVE  \E k \in 1..n, j \in 1..3 : i = 3 * (k - 1) + j
<1> DEFINE k == (i + 2) \div 3
           j == i - 3 * (k - 1)
<1>1. k \in 1..n /\ j \in 1..3
  OBVIOUS
<1>2. i = 3 * (k - 1) + j
  BY <1>1
<1> QED
  BY <1>1, <1>2

LEMMA EndDecodesAll ==
    ASSUME FramingInv, prologue = <<>>, reader = "end"
    PROVE  Frames(decoded) = wire
<1> DEFINE n == Len(decoded)
           q == Fitting(sent)
           f == Frames(sent)
           d == Frames(decoded)
<1>1. /\ sent \in Seq(Msg) /\ decoded \in Seq(Msg) /\ q \in Seq(Msg)
      /\ f \in Seq(Unit) /\ d \in Seq(Unit) /\ n \in Nat
  BY FittingTyped, FramesTyped DEF FramingInv, ReaderInv, OutboxInv, OutboxTypeOK
<1>2. Laid(f, q)
  BY <1>1, FramesLaid
<1>3. Laid(d, decoded) /\ Starts(decoded, q)
  BY DEF FramingInv, ReaderInv
<1>4. Len(wire) = 3 * n
  <2>1. src = <<>> /\ taken = Len(wire) /\ taken = 3 * n + Len(src)
    BY DEF FramingInv, ReaderInv
  <2> QED
    BY <1>1, <2>1
<1>5. wire \in Seq(Unit) /\ Starts(wire, f)
  <2>1. wire \in Seq(Unit)
    BY StreamTyped
  <2>2. PICK u \in Seq(Unit) : f = wire \o u
    BY WireStarts DEF FramingInv, WireIsStart
  <2> HIDE DEF f
  <2> QED
    BY <2>1, <2>2, ConcatParts DEF Starts
<1> HIDE DEF n, q, f, d
<1>6. ASSUME NEW i \in 1..(3 * n) PROVE d[i] = wire[i]
  <2>1. PICK k \in 1..n, j \in 1..3 : i = 3 * (k - 1) + j
    BY <1>1, ThreeByThree
  <2>2. k \in 1..Len(decoded) /\ k \in 1..Len(q) /\ decoded[k] = q[k]
    <3>1. n <= Len(q) /\ Len(q) \in Nat
      BY <1>1, <1>3 DEF Starts, n
    <3>2. k \in 1..Len(q)
      BY <1>1, <3>1
    <3> QED
      BY <1>3, <3>2 DEF Starts, n
  <2>3. d[i] = <<decoded[k], j>>
    BY <1>3, <2>1, <2>2 DEF Laid
  <2>4. f[i] = <<q[k], j>>
    BY <1>2, <2>1, <2>2 DEF Laid
  <2>5. wire[i] = f[i]
    BY <1>4, <1>5 DEF Starts
  <2> QED
    BY <2>2, <2>3, <2>4, <2>5
<1>7. Len(d) = 3 * n
  BY <1>3 DEF Laid, n
<1>8. d = wire
  BY <1>1, <1>4, <1>5, <1>6, <1>7, SeqEqual
<1> QED
  BY <1>8 DEF d

LEMMA DecodesByInv == FramingInv => DecodesWhatWasSent
<1> SUFFICES ASSUME FramingInv PROVE DecodesWhatWasSent
  OBVIOUS
<1>1. CASE prologue = <<>>
  <2> DEFINE q == Fitting(sent)
  <2>1. decoded \in Seq(Msg) /\ Starts(decoded, q) /\ reader # "invalid"
    BY <1>1 DEF FramingInv, ReaderInv
  <2>2. q \in Seq(Msg)
    BY FittingTyped DEF FramingInv, OutboxInv, OutboxTypeOK
  <2> HIDE DEF q
  <2>3. IsPrefix(decoded, q)
    <3>1. Len(decoded) <= Len(q) /\ Len(decoded) \in Nat /\ Len(q) \in Nat
      BY <2>1, <2>2 DEF Starts
    <3>2. SubSeq(decoded, 1, Len(decoded)) = SubSeq(q, 1, Len(decoded))
      BY <2>1, <2>2, <3>1 DEF Starts
    <3> QED
      BY <3>1, <3>2 DEF IsPrefix
  <2>4. reader = "end" => Frames(decoded) = wire
    BY <1>1, EndDecodesAll
  <2> QED
    BY <1>1, <2>1, <2>3, <2>4 DEF DecodesWhatWasSent, q
<1>2. CASE prologue # <<>>
  BY <1>2 DEF FramingInv, ReaderInv, DecodesWhatWasSent
<1> QED
  BY <1>1, <1>2

-----------------------------------------------------------------------------
(* However many messages, of whatever kind, are sent and however the stream *)
(* is cut, every variable of the writer and the reader keeps its type and   *)
(* FramedRead's buffer is always an end of what it has received             *)
(* (MessageCodec::decode, write_loop).                                      *)
THEOREM FramingTyped == FramingSpec => []FramingTypeOK
BY FramingInvAlways, TypedByInv, PTL

(* The reader returns a start of the messages that were sent and fit, in    *)
(* their order, rejects nothing this program sent, decodes the whole stream *)
(* when it ends cleanly, and returns nothing of another program's stream    *)
(* (MessageCodec::decode and encode).                                       *)
THEOREM DecodesSent == FramingSpec => []DecodesWhatWasSent
BY FramingInvAlways, DecodesByInv, PTL
=============================================================================
