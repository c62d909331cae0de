------------------------ MODULE ConnectionGuardProofs ------------------------
(***************************************************************************)
(* ConnectionGuard, for every set of addresses, limit, window, ban and      *)
(* sweep interval: it stays typed, a sweep leaves nothing expired behind,   *)
(* and it implements FloodPolicy.                                           *)
(*                                                                         *)
(* The guard decides by the entries it has kept, the policy by the whole    *)
(* history.  The two agree because what is kept of a host is an end of its  *)
(* history and everything before that end has expired (Remembers).          *)
(***************************************************************************)
EXTENDS ConnectionGuard, FiniteSetTheorems, TLAPS

USE GuardAssumption

Ordered(a) ==
    /\ \A i, j \in 1..Len(a) : i <= j => a[i] <= a[j]
    /\ \A i \in 1..Len(a) : a[i] <= now

(* q is an end of the history a, and what lies before it has expired. *)
Remembers(q, a) ==
    /\ Len(q) <= Len(a)
    /\ \A i \in 1..Len(q) : q[i] = a[Len(a) - Len(q) + i]
    /\ \A i \in 1..(Len(a) - Len(q)) : Expired(a[i])

AllFresh(q) == \A i \in 1..Len(q) : ~Expired(q[i])

GuardInv ==
    /\ GuardTypeOK
    /\ \A h \in Host : Ordered(admitted[h]) /\ Remembers(timestamps[h], admitted[h])
    /\ last_sweep # Never => last_sweep <= now
    /\ SweepForgetsExpired

-----------------------------------------------------------------------------
(* Prune *)

(* A set of naturals that is not empty has a least element, and Min is it. *)
LEMMA MinIsLeast ==
    ASSUME NEW S \in SUBSET Nat, S # {}
    PROVE  Min(S) \in S /\ \A y \in S : Min(S) <= y
<1> DEFINE R == OpToRel(<, Nat)
<1>1. IsWellFoundedOn(R, Nat)
  BY NatLessThanWellFounded
<1>2. \A x, y \in Nat : y < x => <<y, x>> \in R
  BY DEF OpToRel
<1> HIDE DEF R
<1>3. PICK x \in S : \A y \in S : ~(<<y, x>> \in R)
  BY <1>1, WFMin
<1>4. ASSUME NEW y \in S PROVE x <= y
  <2>1. x \in Nat /\ y \in Nat /\ ~(y < x)
    BY <1>2, <1>3
  <2> QED
    BY <2>1
<1> QED
  BY <1>4 DEF Min

(* Of a queue whose entries are in order, pruning keeps exactly the end     *)
(* that is not expired.                                                     *)
LEMMA PruneKeepsFresh ==
    ASSUME NEW q \in Seq(Nat), now \in Nat,
           \A i, j \in 1..Len(q) : i <= j => q[i] <= q[j]
    PROVE  /\ Prune(q) \in Seq(Nat)
           /\ AllFresh(Prune(q))
           /\ Len(Prune(q)) <= Len(q)
           /\ \A i \in 1..Len(Prune(q)) :
                  Prune(q)[i] = q[Len(q) - Len(Prune(q)) + i]
           /\ \A i \in 1..(Len(q) - Len(Prune(q))) : Expired(q[i])
<1> DEFINE fresh == {i \in 1..Len(q) : ~Expired(q[i])}
<1>1. CASE fresh = {}
  <2>1. Prune(q) = <<>>
    BY <1>1 DEF Prune
  <2> QED
    BY <2>1, <1>1 DEF AllFresh
<1>2. CASE fresh # {}
  <2> DEFINE m == Min(fresh)
  <2>1. fresh \in SUBSET Nat
    OBVIOUS
  <2>2. m \in fresh /\ \A y \in fresh : m <= y
    BY <1>2, <2>1, MinIsLeast
  <2>3. Prune(q) = SubSeq(q, m, Len(q))
    BY <1>2 DEF Prune
  <2>4. m \in 1..Len(q) /\ ~Expired(q[m])
    BY <2>2
  <2>5. \A i \in 1..Len(q) : i < m => Expired(q[i])
    BY <2>2, <2>4
  <2> HIDE DEF m, fresh
  <2>m. m \in Nat /\ Len(q) \in Nat /\ m <= Len(q) /\ 1 <= m
    BY <2>4
  <2>6. /\ Prune(q) \in Seq(Nat) /\ Len(Prune(q)) = Len(q) - m + 1
        /\ \A i \in 1..(Len(q) - m + 1) : Prune(q)[i] = q[m + i - 1]
    BY <2>3, <2>4
  <2>7. \A i \in 1..(Len(q) - m + 1) : ~Expired(q[m + i - 1])
    BY <2>4 DEF Expired
  <2>8. AllFresh(Prune(q))
    BY <2>6, <2>7 DEF AllFresh
  <2>9. Len(q) - Len(Prune(q)) = m - 1 /\ Len(Prune(q)) <= Len(q)
    BY <2>6, <2>m
  <2>10. ASSUME NEW i \in 1..Len(Prune(q))
         PROVE  Prune(q)[i] = q[Len(q) - Len(Prune(q)) + i]
    <3>1. i \in 1..(Len(q) - m + 1) /\ m + i - 1 = Len(q) - Len(Prune(q)) + i
      BY <2>6, <2>m
    <3> QED
      BY <2>6, <3>1
  <2>11. \A i \in 1..(Len(q) - Len(Prune(q))) : Expired(q[i])
    BY <2>5, <2>9, <2>m
  <2> QED
    BY <2>6, <2>8, <2>9, <2>10, <2>11
<1> QED
  BY <1>1, <1>2

LEMMA PruneRemembers ==
    ASSUME NEW a \in Seq(Nat), NEW q \in Seq(Nat), now \in Nat,
           Ordered(a), Remembers(q, a)
    PROVE  /\ Prune(q) \in Seq(Nat) /\ AllFresh(Prune(q))
           /\ Len(Prune(q)) <= Len(q)
           /\ Remembers(Prune(q), a)
<1> DEFINE p == Prune(q)
<1>1. \A i, j \in 1..Len(q) : i <= j => q[i] <= q[j]
  <2> SUFFICES ASSUME NEW i \in 1..Len(q), NEW j \in 1..Len(q), i <= j
               PROVE  q[i] <= q[j]
    OBVIOUS
  <2>1. /\ Len(a) - Len(q) + i \in 1..Len(a) /\ Len(a) - Len(q) + j \in 1..Len(a)
        /\ Len(a) - Len(q) + i <= Len(a) - Len(q) + j
    BY DEF Remembers
  <2> QED
    BY <2>1 DEF Remembers, Ordered
<1>2. /\ p \in Seq(Nat) /\ AllFresh(p) /\ Len(p) <= Len(q)
      /\ \A i \in 1..Len(p) : p[i] = q[Len(q) - Len(p) + i]
      /\ \A i \in 1..(Len(q) - Len(p)) : Expired(q[i])
  BY <1>1, PruneKeepsFresh
<1> HIDE DEF p
<1>3. Len(p) \in Nat /\ Len(q) \in Nat /\ Len(a) \in Nat /\ Len(q) <= Len(a)
  BY <1>2 DEF Remembers
<1>4. ASSUME NEW i \in 1..Len(p) PROVE p[i] = a[Len(a) - Len(p) + i]
  <2>1. Len(q) - Len(p) + i \in 1..Len(q)
    <3>1. Len(p) <= Len(q) /\ i \in Nat /\ 1 <= i /\ i <= Len(p)
      BY <1>2, <1>3
    <3> QED
      BY <3>1, <1>3
  <2>2. q[Len(q) - Len(p) + i] = a[Len(a) - Len(q) + (Len(q) - Len(p) + i)]
    BY <2>1 DEF Remembers
  <2>3. Len(a) - Len(q) + (Len(q) - Len(p) + i) = Len(a) - Len(p) + i
    BY <1>3
  <2> QED
    BY <1>2, <2>2, <2>3
<1>5. ASSUME NEW i \in 1..(Len(a) - Len(p)) PROVE Expired(a[i])
  <2>1. CASE i <= Len(a) - Len(q)
    BY <2>1, <1>3 DEF Remembers
  <2>2. CASE i > Len(a) - Len(q)
    <3> DEFINE k == i - (Len(a) - Len(q))
    <3>1. k \in 1..(Len(q) - Len(p)) /\ k \in 1..Len(q) /\ Len(a) - Len(q) + k = i
      BY <2>2, <1>3, <1>2
    <3>2. Expired(q[k]) /\ q[k] = a[i]
      BY <3>1, <1>2 DEF Remembers
    <3> QED
      BY <3>2
  <2> QED
    BY <2>1, <2>2, <1>3
<1>6. Remembers(p, a)
  BY <1>2, <1>3, <1>4, <1>5 DEF Remembers
<1> QED
  BY <1>2, <1>6 DEF p

(* The admissions that are not expired are as many as the entries that are  *)
(* left after pruning.                                                      *)
LEMMA FreshCount ==
    ASSUME NEW a \in Seq(Nat), NEW q \in Seq(Nat), now \in Nat,
           Ordered(a), Remembers(q, a), AllFresh(q)
    PROVE  Cardinality({i \in 1..Len(a) : now - a[i] <= FloodWindow}) = Len(q)
<1>1. Len(a) \in Nat /\ Len(q) \in Nat /\ Len(q) <= Len(a)
  BY DEF Remembers
<1>2. ASSUME NEW i \in 1..Len(a)
      PROVE  now - a[i] <= FloodWindow <=> i \in (Len(a) - Len(q) + 1)..Len(a)
  <2>1. CASE i <= Len(a) - Len(q)
    BY <2>1, <1>1 DEF Remembers, Expired
  <2>2. CASE i > Len(a) - Len(q)
    <3> DEFINE k == i - (Len(a) - Len(q))
    <3>1. k \in 1..Len(q) /\ Len(a) - Len(q) + k = i
      BY <2>2, <1>1
    <3>2. ~Expired(q[k]) /\ q[k] = a[i]
      BY <3>1 DEF Remembers, AllFresh
    <3>3. a[i] \in Nat /\ ~(now - a[i] > FloodWindow)
      BY <3>2 DEF Expired
    <3>4. now - a[i] <= FloodWindow
      BY <3>3
    <3> QED
      BY <3>4, <2>2, <1>1
  <2> QED
    BY <2>1, <2>2, <1>1
<1>3. {i \in 1..Len(a) : now - a[i] <= FloodWindow} = (Len(a) - Len(q) + 1)..Len(a)
  BY <1>1, <1>2
<1>4. Cardinality((Len(a) - Len(q) + 1)..Len(a)) = Len(q)
  <2> DEFINE lo == Len(a) - Len(q) + 1
  <2>1. lo \in Int /\ Len(a) \in Int
    BY <1>1
  <2> HIDE DEF lo
  <2>2. Cardinality(lo..Len(a)) = IF lo > Len(a) THEN 0 ELSE Len(a) - lo + 1
    BY <2>1, FS_Interval
  <2> QED
    BY <2>2, <1>1 DEF lo
<1> QED
  BY <1>3, <1>4

-----------------------------------------------------------------------------
(* The invariant *)

LEMMA GuardInvInit == Init => GuardInv
<1> SUFFICES ASSUME Init PROVE GuardInv
  OBVIOUS
<1>1. GuardTypeOK
  BY DEF Init, GuardTypeOK
<1>2. \A h \in Host : Ordered(admitted[h]) /\ Remembers(timestamps[h], admitted[h])
  BY DEF Init, Ordered, Remembers
<1>3. last_sweep = Never
  BY DEF Init
<1> QED
  BY <1>1, <1>2, <1>3 DEF GuardInv, SweepForgetsExpired

(* What has expired stays expired. *)
LEMMA TickPreserves == ASSUME GuardInv, Tick PROVE GuardInv'
<1>1. /\ now \in Nat /\ now' = now + 1 /\ now' \in 0..MaxTime
      /\ UNCHANGED <<timestamps, banned_until, last_sweep, admitted>>
  BY DEF Tick, GuardInv, GuardTypeOK
<1>2. GuardTypeOK'
  BY <1>1 DEF GuardInv, GuardTypeOK
<1>3. ASSUME NEW h \in Host
      PROVE  Ordered(admitted[h])' /\ Remembers(timestamps[h], admitted[h])'
  <2>1. admitted[h] \in Seq(Nat) /\ timestamps[h] \in Seq(Nat)
    BY DEF GuardInv, GuardTypeOK
  <2>2. Ordered(admitted[h]) /\ Remembers(timestamps[h], admitted[h])
    BY DEF GuardInv
  <2>3. Ordered(admitted[h])'
    BY <2>1, <2>2, <1>1 DEF Ordered
  <2>4. \A i \in 1..(Len(admitted[h]) - Len(timestamps[h])) :
            admitted[h][i] \in Nat /\ now - admitted[h][i] > FloodWindow
    <3>1. /\ Len(admitted[h]) \in Nat /\ Len(timestamps[h]) \in Nat
      BY <2>1
    <3>2. \A i \in 1..(Len(admitted[h]) - Len(timestamps[h])) : i \in 1..Len(admitted[h])
      BY <3>1
    <3> QED
      BY <3>2, <2>1, <2>2 DEF Remembers, Expired
  <2>6. admitted'[h] = admitted[h] /\ timestamps'[h] = timestamps[h] /\ now' = now + 1
    BY <1>1
  <2>8. \A i \in 1..(Len(admitted'[h]) - Len(timestamps'[h])) :
            now' - admitted'[h][i] > FloodWindow
    <3> SUFFICES ASSUME NEW i \in 1..(Len(admitted[h]) - Len(timestamps[h]))
                 PROVE  now' - admitted[h][i] > FloodWindow
      BY <2>6
    <3>1. admitted[h][i] \in Nat /\ now - admitted[h][i] > FloodWindow
      BY <2>4
    <3> QED
      BY <3>1, <1>1
  <2>9. /\ Len(timestamps'[h]) <= Len(admitted'[h])
        /\ \A i \in 1..Len(timestamps'[h]) :
              timestamps'[h][i]
                  = admitted'[h][Len(admitted'[h]) - Len(timestamps'[h]) + i]
    BY <2>2, <2>6 DEF Remembers
  <2>7. Remembers(timestamps[h], admitted[h])'
    BY <2>8, <2>9 DEF Remembers, Expired
  <2> QED
    BY <2>3, <2>7
<1>4. (last_sweep # Never => last_sweep <= now)'
  BY <1>1 DEF GuardInv, GuardTypeOK
<1>5. SweepForgetsExpired'
  BY <1>1 DEF GuardInv, SweepForgetsExpired
<1> QED
  BY <1>2, <1>3, <1>4, <1>5 DEF GuardInv

(* What Remember(h) leaves of a host, and what the sweep makes of it. *)
LEMMA DecideKeeps ==
    ASSUME GuardInv, NEW h \in Host, Decide(h), now' = now, NEW g \in Host
    PROVE  /\ timestamps'[g] \in Seq(Nat) /\ admitted'[g] \in Seq(Nat)
           /\ Len(timestamps'[g]) <= MaxPerWindow
           /\ Ordered(admitted'[g])
           /\ Remembers(timestamps'[g], admitted'[g])
           /\ \/ AllFresh(timestamps'[g])
              \/ ~SweepDue /\ g # h /\ timestamps'[g] = timestamps[g]
<1> DEFINE t == timestamps[g]
           a == admitted[g]
           p == Prune(t)
           r == Remember(h)[g]
           b == admitted'[g]
<1>1. /\ now \in Nat /\ a \in Seq(Nat) /\ t \in Seq(Nat) /\ Len(t) <= MaxPerWindow
      /\ Ordered(a) /\ Remembers(t, a)
      /\ timestamps \in [Host -> Seq(Nat)] /\ admitted \in [Host -> Seq(Nat)]
  BY DEF GuardInv, GuardTypeOK
<1>2. /\ p \in Seq(Nat) /\ AllFresh(p) /\ Len(p) <= Len(t) /\ Remembers(p, a)
  BY <1>1, PruneRemembers
<1> HIDE DEF t, a, p, r, b
<1>3. /\ r \in Seq(Nat) /\ b \in Seq(Nat) /\ Len(r) <= MaxPerWindow
      /\ Ordered(b) /\ Remembers(r, b)
      /\ AllFresh(r) \/ (g # h /\ r = t)
  <2>1. CASE g # h
    <3>1. r = t /\ b = a
      BY <2>1, <1>1 DEF Remember, Decide, r, t, b, a
    <3> QED
      BY <3>1, <1>1, <2>1
  <2>2. CASE g = h /\ Flooded(h)
    <3>1. r = p /\ b = a
      BY <2>2, <1>1 DEF Remember, Decide, r, p, t, b, a
    <3>2. Len(p) <= MaxPerWindow
      BY <1>1, <1>2
    <3> QED
      BY <3>1, <3>2, <1>1, <1>2
  <2>3. CASE g = h /\ ~Flooded(h)
    <3>1. r = Append(p, now) /\ b = Append(a, now)
      BY <2>3, <1>1 DEF Remember, Decide, r, p, t, b, a
    <3>2. Len(p) + 1 <= MaxPerWindow
      BY <2>3, <1>2 DEF Flooded, p, t
    <3>3. /\ r \in Seq(Nat) /\ Len(r) = Len(p) + 1 /\ r[Len(p) + 1] = now
          /\ \A i \in 1..Len(p) : r[i] = p[i]
      BY <3>1, <1>1, <1>2
    <3>4. /\ b \in Seq(Nat) /\ Len(b) = Len(a) + 1 /\ b[Len(a) + 1] = now
          /\ \A i \in 1..Len(a) : b[i] = a[i]
      BY <3>1, <1>1, <1>2
    <3>5. AllFresh(r)
      <4> SUFFICES ASSUME NEW i \in 1..Len(r) PROVE ~Expired(r[i])
        BY DEF AllFresh
      <4>1. CASE i = Len(p) + 1
        BY <4>1, <3>3, <1>1 DEF Expired
      <4>2. CASE i # Len(p) + 1
        <5>1. i \in 1..Len(p)
          BY <4>2, <3>3, <1>2
        <5> QED
          BY <5>1, <3>3, <1>2 DEF AllFresh
      <4> QED
        BY <4>1, <4>2
    <3>6. Ordered(b)
      <4> Len(a) \in Nat /\ now \in Nat
        BY <1>1
      <4>1. \A i \in 1..Len(b) : b[i] \in Nat /\ b[i] <= now
        <5> SUFFICES ASSUME NEW i \in 1..Len(b) PROVE b[i] \in Nat /\ b[i] <= now
          OBVIOUS
        <5>1. CASE i = Len(a) + 1
          BY <5>1, <3>4
        <5>2. CASE i # Len(a) + 1
          <6>1. i \in 1..Len(a)
            BY <5>2, <3>4
          <6>2. a[i] \in Nat /\ a[i] <= now
            BY <6>1, <1>1 DEF Ordered
          <6> QED
            BY <6>1, <6>2, <3>4
        <5> QED
          BY <5>1, <5>2
      <4>2. ASSUME NEW i \in 1..Len(b), NEW j \in 1..Len(b), i <= j
            PROVE  b[i] <= b[j]
        <5>1. CASE j = Len(a) + 1
          BY <5>1, <4>1, <3>4
        <5>2. CASE j # Len(a) + 1
          <6>1. i \in 1..Len(a) /\ j \in 1..Len(a)
            <7>1. Len(b) = Len(a) + 1 /\ Len(a) \in Nat
              BY <3>4, <1>1
            <7> QED
              BY <7>1, <5>2, <4>2
          <6>2. a[i] <= a[j]
            BY <6>1, <4>2, <1>1 DEF Ordered
          <6> QED
            BY <6>1, <6>2, <3>4
        <5> QED
          BY <5>1, <5>2
      <4> QED
        BY <4>1, <4>2 DEF Ordered
    <3>7. Remembers(r, b)
      <4>1. /\ Len(p) \in Nat /\ Len(a) \in Nat /\ Len(p) <= Len(a)
            /\ Len(b) - Len(r) = Len(a) - Len(p)
        BY <3>3, <3>4, <1>1, <1>2 DEF Remembers
      <4>2. ASSUME NEW i \in 1..Len(r) PROVE r[i] = b[Len(a) - Len(p) + i]
        <5>1. CASE i = Len(p) + 1
          <6>1. Len(a) - Len(p) + i = Len(a) + 1
            BY <5>1, <4>1
          <6> QED
            BY <6>1, <5>1, <3>3, <3>4
        <5>2. CASE i # Len(p) + 1
          <6>1. i \in 1..Len(p) /\ Len(a) - Len(p) + i \in 1..Len(a)
            BY <5>2, <4>1, <3>3
          <6> QED
            BY <6>1, <3>3, <3>4, <1>2 DEF Remembers
        <5> QED
          BY <5>1, <5>2
      <4>3. ASSUME NEW i \in 1..(Len(a) - Len(p)) PROVE Expired(b[i])
        <5>1. i \in 1..Len(a)
          BY <4>1
        <5> QED
          BY <5>1, <3>4, <1>2 DEF Remembers
      <4>4. Len(r) <= Len(b)
        BY <4>1, <3>3, <3>4
      <4> QED
        BY <4>1, <4>2, <4>3, <4>4 DEF Remembers
    <3>8. Len(r) <= MaxPerWindow
      BY <3>2, <3>3
    <3> QED
      BY <3>3, <3>4, <3>5, <3>6, <3>7, <3>8
  <2> QED
    BY <2>1, <2>2, <2>3
<1>4. CASE SweepDue
  <2>1. timestamps'[g] = Prune(r)
    BY <1>4 DEF Decide, SweptTimestamps, r
  <2>2. /\ Prune(r) \in Seq(Nat) /\ AllFresh(Prune(r)) /\ Len(Prune(r)) <= Len(r)
        /\ Remembers(Prune(r), b)
    BY <1>1, <1>3, PruneRemembers
  <2>3. Len(Prune(r)) <= MaxPerWindow
    BY <2>2, <1>3
  <2> QED
    BY <2>1, <2>2, <2>3, <1>3 DEF b
<1>5. CASE ~SweepDue
  <2>1. timestamps'[g] = r
    BY <1>5 DEF Decide, r
  <2> QED
    BY <2>1, <1>3, <1>5 DEF t, b
<1> QED
  BY <1>4, <1>5

(* A ban that is kept or begins ends after the sweep that went before.      *)
LEMMA DecideBans ==
    ASSUME GuardInv, NEW h \in Host, Decide(h), now' = now
    PROVE  /\ banned_until' \in [Host -> Nat]
           /\ \A g \in Host \ {h} :
                 banned_until'[g] = IF SweepDue /\ now >= banned_until[g] THEN 0
                                    ELSE banned_until[g]
           /\ banned_until'[h] = IF Flooded(h) THEN now + BanDuration ELSE 0
<1> DEFINE lifted == [banned_until EXCEPT ![h] = 0]
           kept == IF SweepDue THEN SweptBans(lifted) ELSE lifted
<1>1. now \in Nat /\ banned_until \in [Host -> Nat]
  BY DEF GuardInv, GuardTypeOK
<1>2. lifted \in [Host -> Nat] /\ lifted[h] = 0
      /\ \A g \in Host \ {h} : lifted[g] = banned_until[g]
  BY <1>1
<1> HIDE DEF lifted
<1>3. kept \in [Host -> Nat] /\ kept[h] = 0
      /\ \A g \in Host \ {h} :
            kept[g] = IF SweepDue /\ now >= banned_until[g] THEN 0 ELSE banned_until[g]
  <2>1. CASE SweepDue
    <3>1. kept = [g \in Host |-> IF now < lifted[g] THEN lifted[g] ELSE 0]
      BY <2>1 DEF SweptBans
    <3>2. \A g \in Host \ {h} : now < banned_until[g] <=> ~(now >= banned_until[g])
      BY <1>1
    <3> HIDE DEF kept
    <3> QED
      BY <3>1, <3>2, <1>1, <1>2, <2>1
  <2>2. CASE ~SweepDue
    BY <2>2, <1>2
  <2> QED
    BY <2>1, <2>2
<1>4. banned_until' = IF Flooded(h) THEN [kept EXCEPT ![h] = now + BanDuration] ELSE kept
  BY DEF Decide, lifted
<1> HIDE DEF kept
<1>5. now + BanDuration \in Nat
  BY <1>1
<1> QED
  BY <1>3, <1>4, <1>5

LEMMA DecidePreserves ==
    ASSUME GuardInv, NEW h \in Host, Decide(h), now' = now
    PROVE  GuardInv'
<1>1. /\ now \in Nat /\ now \in 0..MaxTime /\ now >= banned_until[h]
      /\ banned_until \in [Host -> Nat] /\ last_sweep \in Nat \cup {Never}
      /\ last_sweep' = IF SweepDue THEN now ELSE last_sweep
  BY DEF GuardInv, GuardTypeOK, Decide
<1>2. \A g \in Host :
          /\ timestamps'[g] \in Seq(Nat) /\ admitted'[g] \in Seq(Nat)
          /\ Len(timestamps'[g]) <= MaxPerWindow
          /\ Ordered(admitted'[g])
          /\ Remembers(timestamps'[g], admitted'[g])
          /\ \/ AllFresh(timestamps'[g])
             \/ ~SweepDue /\ g # h /\ timestamps'[g] = timestamps[g]
  BY DecideKeeps
<1>3. /\ banned_until' \in [Host -> Nat]
      /\ \A g \in Host \ {h} :
            banned_until'[g] = IF SweepDue /\ now >= banned_until[g] THEN 0
                               ELSE banned_until[g]
      /\ banned_until'[h] = IF Flooded(h) THEN now + BanDuration ELSE 0
  BY DecideBans
<1>4. timestamps' \in [Host -> Seq(Nat)] /\ admitted' \in [Host -> Seq(Nat)]
  <2>1. DOMAIN timestamps' = Host /\ timestamps' = [g \in Host |-> timestamps'[g]]
    BY DEF Decide, SweptTimestamps, Remember, GuardInv, GuardTypeOK
  <2>2. DOMAIN admitted' = Host /\ admitted' = [g \in Host |-> admitted'[g]]
    BY DEF Decide, GuardInv, GuardTypeOK
  <2> QED
    BY <2>1, <2>2, <1>2
<1>5. last_sweep' \in Nat \cup {Never}
  BY <1>1
<1>6. GuardTypeOK'
  BY <1>1, <1>2, <1>3, <1>4, <1>5 DEF GuardTypeOK
<1>7. \A g \in Host : Ordered(admitted[g])' /\ Remembers(timestamps[g], admitted[g])'
  BY <1>2 DEF Ordered, Remembers, Expired
<1>8. last_sweep' # Never => last_sweep' <= now
  BY <1>1 DEF GuardInv
<1>9. ASSUME last_sweep' # Never, NEW g \in Host
      PROVE  /\ \A i \in 1..Len(timestamps'[g]) :
                   timestamps'[g][i] + FloodWindow >= last_sweep'
             /\ banned_until'[g] # 0 => banned_until'[g] > last_sweep'
  <2>1. last_sweep' \in Nat /\ last_sweep' <= now
    BY <1>5, <1>8, <1>9
  <2>2. ASSUME AllFresh(timestamps'[g])
        PROVE  \A i \in 1..Len(timestamps'[g]) : timestamps'[g][i] + FloodWindow >= last_sweep'
    <3>1. ASSUME NEW i \in 1..Len(timestamps'[g])
          PROVE  timestamps'[g][i] + FloodWindow >= last_sweep'
      <4>1. timestamps'[g][i] \in Nat
        BY <1>2
      <4>2. ~(now - timestamps'[g][i] > FloodWindow)
        BY <2>2 DEF AllFresh, Expired
      <4> QED
        BY <4>1, <4>2, <2>1, <1>1
    <3> QED
      BY <3>1
  <2>3. ASSUME ~SweepDue, timestamps'[g] = timestamps[g]
        PROVE  \A i \in 1..Len(timestamps'[g]) : timestamps'[g][i] + FloodWindow >= last_sweep'
    BY <2>3, <1>1, <1>9 DEF GuardInv, SweepForgetsExpired
  <2>4. banned_until'[g] # 0 => banned_until'[g] > last_sweep'
    <3>1. CASE g = h
      <4>1. now + BanDuration > last_sweep'
        BY <2>1, <1>1
      <4> QED
        BY <4>1, <3>1, <1>3
    <3>2. CASE g # h /\ SweepDue
      <4>1. last_sweep' = now /\ (banned_until'[g] # 0 => ~(now >= banned_until'[g]))
        BY <3>2, <1>1, <1>3
      <4>2. banned_until'[g] \in Nat
        BY <1>3
      <4> QED
        BY <4>1, <4>2, <1>1
    <3>3. CASE g # h /\ ~SweepDue
      BY <3>3, <1>1, <1>3, <1>9 DEF GuardInv, SweepForgetsExpired
    <3> QED
      BY <3>1, <3>2, <3>3
  <2>5. \A i \in 1..Len(timestamps'[g]) : timestamps'[g][i] + FloodWindow >= last_sweep'
    BY <2>2, <2>3, <1>2
  <2> QED
    BY <2>4, <2>5
<1>10. SweepForgetsExpired'
  BY <1>9 DEF SweepForgetsExpired
<1>11. (last_sweep # Never => last_sweep <= now)'
  BY <1>8
<1> QED
  BY <1>6, <1>7, <1>10, <1>11 DEF GuardInv

LEMMA GuardInvStep == GuardInv /\ [Next]_vars => GuardInv'
<1> SUFFICES ASSUME GuardInv, [Next]_vars PROVE GuardInv'
  OBVIOUS
<1>1. ASSUME Tick PROVE GuardInv'
  BY <1>1, TickPreserves
<1>2. ASSUME NEW a \in Addr, ShouldBlock(a) PROVE GuardInv'
  <2> DEFINE h == Canonical[a]
  <2>1. h \in Host /\ now' = now
    BY <1>2 DEF ShouldBlock
  <2>2. CASE Decide(h)
    BY <2>1, <2>2, DecidePreserves
  <2>3. CASE Allow(h) \/ RefuseBanned(h)
    <3>1. UNCHANGED <<now, timestamps, banned_until, last_sweep, admitted>>
      BY <2>1, <2>3 DEF Allow, RefuseBanned
    <3> QED
      BY <3>1 DEF GuardInv, GuardTypeOK, Ordered, Remembers, Expired,
          SweepForgetsExpired
  <2> QED
    BY <1>2, <2>2, <2>3 DEF ShouldBlock
<1>3. ASSUME UNCHANGED vars PROVE GuardInv'
  BY <1>3 DEF vars, GuardInv, GuardTypeOK, Ordered, Remembers, Expired,
      SweepForgetsExpired
<1> QED
  BY <1>1, <1>2, <1>3 DEF Next

LEMMA GuardInvAlways == Spec => []GuardInv
  BY GuardInvInit, GuardInvStep, PTL DEF Spec

(* The guard stays well typed, and remembers at most MaxPerWindow           *)
(* admissions of a host, however often it connects.                         *)
THEOREM GuardTyped == Spec => []GuardTypeOK
<1>1. GuardInv => GuardTypeOK
  BY DEF GuardInv
<1> QED
  BY <1>1, GuardInvAlways, PTL

(* After sweep_if_due no expired timestamp and no elapsed ban is kept.      *)
THEOREM SweepForgets == Spec => []SweepForgetsExpired
<1>1. GuardInv => SweepForgetsExpired
  BY DEF GuardInv
<1> QED
  BY <1>1, GuardInvAlways, PTL

-----------------------------------------------------------------------------
(* Refinement of FloodPolicy *)

(* is_flood_detected decides as the policy does over the full history.      *)
LEMMA FloodedAgrees ==
    ASSUME GuardInv, NEW h \in Host
    PROVE  Policy!Flooding(h) <=> Flooded(h)
<1> DEFINE p == Prune(timestamps[h])
<1>1. /\ now \in Nat /\ admitted[h] \in Seq(Nat) /\ timestamps[h] \in Seq(Nat)
      /\ Ordered(admitted[h]) /\ Remembers(timestamps[h], admitted[h])
  BY DEF GuardInv, GuardTypeOK
<1>2. p \in Seq(Nat) /\ AllFresh(p) /\ Remembers(p, admitted[h])
  BY <1>1, PruneRemembers
<1> HIDE DEF p
<1> DEFINE recent == {i \in 1..Len(admitted[h]) : now - admitted[h][i] <= FloodWindow}
<1>3. Cardinality(recent) = Len(p)
  BY <1>1, <1>2, FreshCount
<1>4. Policy!Flooding(h) <=> Cardinality(recent) >= MaxPerWindow
  BY DEF Policy!Flooding, Policy!Recent, Policy!Cardinality, Cardinality
<1>5. Flooded(h) <=> Len(p) >= MaxPerWindow
  BY DEF Flooded, p
<1> QED
  BY <1>3, <1>4, <1>5

LEMMA PolicyInitRefined == Init => Policy!PolicyInit
  BY DEF Init, Policy!PolicyInit

LEMMA DecideRefines ==
    ASSUME GuardInv, NEW h \in Host, Decide(h), now' = now
    PROVE  Policy!Admit(h) \/ Policy!StartBan(h)
<1> DEFINE inForce == [g \in Host |-> IF banned_until[g] > now THEN banned_until[g] ELSE 0]
<1>1. /\ now \in Nat /\ banned_until \in [Host -> Nat] /\ h \notin Allowlisted
      /\ now >= banned_until[h]
  BY DEF GuardInv, GuardTypeOK, Decide
<1>2. /\ banned_until' \in [Host -> Nat]
      /\ \A g \in Host \ {h} :
            banned_until'[g] = IF SweepDue /\ now >= banned_until[g] THEN 0
                               ELSE banned_until[g]
      /\ banned_until'[h] = IF Flooded(h) THEN now + BanDuration ELSE 0
  BY DecideBans
<1>3. inForce[h] = 0
  BY <1>1
<1>4. \A g \in Host \ {h} : inForce'[g] = inForce[g]
  <2> SUFFICES ASSUME NEW g \in Host \ {h}
               PROVE  (IF banned_until'[g] > now' THEN banned_until'[g] ELSE 0)
                          = IF banned_until[g] > now THEN banned_until[g] ELSE 0
    OBVIOUS
  <2>1. CASE now >= banned_until[g]
    <3>1. banned_until'[g] = 0 \/ banned_until'[g] = banned_until[g]
      BY <1>2
    <3> QED
      BY <3>1, <2>1, <1>1
  <2>2. CASE ~(now >= banned_until[g])
    BY <2>2, <1>2
  <2> QED
    BY <2>1, <2>2
<1>5. inForce'[h] = IF Flooded(h) THEN now + BanDuration ELSE 0
  <2>1. now + BanDuration > now /\ ~(0 > now)
    BY <1>1
  <2> QED
    BY <2>1, <1>2
<1>6. Policy!Flooding(h) <=> Flooded(h)
  BY FloodedAgrees
<1>7. CASE Flooded(h)
  <2>1. inForce' = [inForce EXCEPT ![h] = now + BanDuration]
    BY <1>4, <1>5, <1>7
  <2>2. verdict' = <<h, now, "out">> /\ admitted' = admitted
    BY <1>7 DEF Decide
  <2> QED
    BY <2>1, <2>2, <1>1, <1>3, <1>6, <1>7 DEF Policy!StartBan
<1>8. CASE ~Flooded(h)
  <2>1. inForce' = inForce
    BY <1>3, <1>4, <1>5, <1>8
  <2>2. /\ verdict' = <<h, now, "in">>
        /\ admitted' = [admitted EXCEPT ![h] = Append(@, now)]
    BY <1>8 DEF Decide
  <2> QED
    BY <2>1, <2>2, <1>1, <1>3, <1>6, <1>8 DEF Policy!Admit
<1> QED
  BY <1>7, <1>8

LEMMA PolicyStepRefined ==
    GuardInv /\ [Next]_vars => [Policy!PolicyNext]_(Policy!policyVars)
<1> SUFFICES ASSUME GuardInv, [Next]_vars
             PROVE  [Policy!PolicyNext]_(Policy!policyVars)
  OBVIOUS
<1>1. now \in Nat /\ banned_until \in [Host -> Nat]
  BY DEF GuardInv, GuardTypeOK
<1>2. ASSUME Tick PROVE Policy!Pass
  <2>1. \A g \in Host :
            (IF banned_until[g] > now + 1 THEN banned_until[g] ELSE 0)
              = IF (IF banned_until[g] > now THEN banned_until[g] ELSE 0) > now + 1
                THEN (IF banned_until[g] > now THEN banned_until[g] ELSE 0) ELSE 0
    <3> SUFFICES ASSUME NEW b \in Nat
                 PROVE  (IF b > now + 1 THEN b ELSE 0)
                          = IF (IF b > now THEN b ELSE 0) > now + 1
                            THEN (IF b > now THEN b ELSE 0) ELSE 0
      BY <1>1
    <3> QED
      BY <1>1
  <2> QED
    BY <1>2, <2>1 DEF Tick, Policy!Pass
<1>3. ASSUME NEW a \in Addr, ShouldBlock(a) PROVE Policy!PolicyNext
  <2> DEFINE h == Canonical[a]
  <2>1. h \in Host /\ now' = now
    BY <1>3 DEF ShouldBlock
  <2>2. CASE Allow(h)
    BY <2>1, <2>2 DEF Allow, Policy!Welcome, Policy!PolicyNext
  <2>3. CASE RefuseBanned(h)
    <3>1. banned_until[h] > now /\ banned_until[h] # 0
      BY <1>1, <2>1, <2>3 DEF RefuseBanned
    <3> QED
      BY <2>1, <2>3, <3>1 DEF RefuseBanned, Policy!Refuse, Policy!PolicyNext
  <2>4. CASE Decide(h)
    BY <2>1, <2>4, DecideRefines DEF Policy!PolicyNext
  <2> QED
    BY <1>3, <2>2, <2>3, <2>4 DEF ShouldBlock
<1>4. ASSUME UNCHANGED vars PROVE UNCHANGED Policy!policyVars
  BY <1>4 DEF vars, Policy!policyVars
<1> QED
  BY <1>2, <1>3, <1>4 DEF Next, Policy!PolicyNext

(* ConnectionGuard implements FloodPolicy: a host is refused exactly when   *)
(* its history of admissions says so or its ban lasts, although the code    *)
(* forgets timestamps and bans.                                             *)
THEOREM GuardRefinesPolicy == Spec => ImplementsPolicy
<1>1. Spec => []GuardInv
  BY GuardInvAlways
<1> QED
  BY <1>1, PolicyInitRefined, PolicyStepRefined, PTL
     DEF Spec, ImplementsPolicy, Policy!PolicySpec
=============================================================================
