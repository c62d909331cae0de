------------------------- MODULE SessionInboxProofs -------------------------
(***************************************************************************)
(* SessionInbox with its LoginLimit, for every limit, window, capacity and  *)
(* keep-alive timeout.                                                      *)
(*                                                                         *)
(* Neither bound of the limiter is inductive: they speak of grants far      *)
(* back, of which the code keeps a start and a count.  WindowGrants says    *)
(* what the two stand for.                                                  *)
(*                                                                         *)
(* The loop compares the clock with last_keep_alive, the time at which it   *)
(* read a KeepAliveRequest, and NeverCutAlive speaks of when one arrived.   *)
(* The two agree only when no KeepAliveRequest is unread, which the order   *)
(* of the branches ensures at the deadline.                                 *)
(***************************************************************************)
EXTENDS SessionInbox, FiniteSetTheorems, TLAPS

USE LimitAssumption, InboxAssumption

-----------------------------------------------------------------------------
(* The limiter *)

(* Grants of the window that began at login_window. *)
InWindow == IF login_attempts <= Attempts THEN login_attempts ELSE Attempts

GrantsInOrder ==
    /\ \A i, j \in 1..Len(granted) : i <= j => granted[i] <= granted[j]
    /\ \A i \in 1..Len(granted) : granted[i] <= now

(* The window's grants are the last ones, its first was its start, and what *)
(* lies Attempts grants before them is at least a window older.             *)
WindowGrants ==
    IF login_window = NoWindow THEN granted = <<>>
    ELSE /\ login_window <= now
         /\ InWindow \in 1..Len(granted)
         /\ granted[Len(granted) - InWindow + 1] = login_window
         /\ \A i \in 1..Len(granted) :
                i + InWindow + Attempts - 1 <= Len(granted)
                    => granted[i] + Window <= login_window

LimitInv == LimitTypeOK /\ GrantsInOrder /\ WindowGrants /\ SpanBound /\ RefusedForCause

LEMMA LimitInvInit == LimitInit => LimitInv
  BY DEF LimitInit, LimitInv, LimitTypeOK, GrantsInOrder, WindowGrants, SpanBound,
         RefusedForCause

(* The clock. *)
LEMMA LimitTick ==
    ASSUME LimitInv, now < MaxTime, now' = now + 1,
           UNCHANGED <<login_window, login_attempts, granted, refused>>
    PROVE  LimitInv'
<1>1. LimitTypeOK' /\ SpanBound' /\ RefusedForCause'
  BY DEF LimitInv, LimitTypeOK, SpanBound, RefusedForCause
<1>2. GrantsInOrder'
  BY DEF LimitInv, LimitTypeOK, GrantsInOrder
<1>3. WindowGrants'
  BY DEF LimitInv, LimitTypeOK, WindowGrants, InWindow
<1> QED
  BY <1>1, <1>2, <1>3 DEF LimitInv

(* An attempt that is refused: the window goes on and its grants are full.  *)
LEMMA RefusalKeeps ==
    ASSUME LimitInv, TryConsume, ~WithinLimit
    PROVE  LimitInv'
<1>1. /\ login_window # NoWindow /\ now - login_window < Window
      /\ login_attempts >= Attempts
      /\ login_window' = login_window /\ login_attempts' = login_attempts + 1
      /\ granted' = granted /\ refused' = Append(refused, now) /\ now' = now
  BY DEF TryConsume, WithinLimit, Attempt, StartsWindow, LimitInv, LimitTypeOK
<1>2. /\ now \in Nat /\ login_window \in Nat /\ login_attempts \in Nat
      /\ granted \in Seq(Nat) /\ refused \in Seq(Nat)
      /\ InWindow = Attempts /\ InWindow' = Attempts
  BY <1>1 DEF LimitInv, LimitTypeOK, InWindow
<1>3. LimitTypeOK'
  BY <1>1, <1>2 DEF LimitInv, LimitTypeOK
<1>4. GrantsInOrder' /\ SpanBound'
  BY <1>1 DEF LimitInv, GrantsInOrder, SpanBound
<1>5. WindowGrants'
  BY <1>1, <1>2 DEF LimitInv, WindowGrants
<1>6. RefusedForCause'
  <2> SUFFICES ASSUME NEW i \in 1..Len(refused')
               PROVE  \E k \in 1..Len(granted) :
                        /\ k + Attempts - 1 <= Len(granted)
                        /\ granted[k] <= refused'[i]
                        /\ granted[k + Attempts - 1] <= refused'[i]
                        /\ refused'[i] - granted[k] < Window
    BY <1>1 DEF RefusedForCause
  <2>1. CASE i \in 1..Len(refused)
    BY <1>1, <1>2, <2>1 DEF LimitInv, RefusedForCause
  <2>2. CASE i = Len(refused) + 1
    <3> DEFINE k == Len(granted) - Attempts + 1
    <3>1. refused'[i] = now
      BY <1>1, <1>2, <2>2
    <3>2. k \in 1..Len(granted) /\ granted[k] = login_window
      BY <1>1, <1>2 DEF LimitInv, WindowGrants
    <3>3. granted[k + Attempts - 1] <= now /\ k + Attempts - 1 = Len(granted)
      BY <1>2, <3>2 DEF LimitInv, GrantsInOrder
    <3>4. granted[k] <= now /\ now - granted[k] < Window
      BY <1>1, <1>2, <3>2 DEF LimitInv, WindowGrants
    <3> HIDE DEF k
    <3> QED
      BY <3>1, <3>2, <3>3, <3>4
  <2>3. i \in 1..Len(refused) \/ i = Len(refused) + 1
    <3>1. Len(refused') = Len(refused) + 1
      BY <1>1, <1>2
    <3> QED
      BY <1>2, <3>1
  <2> QED
    BY <2>1, <2>2, <2>3
<1> QED
  BY <1>3, <1>4, <1>5, <1>6 DEF LimitInv

(* What an attempt that is let through does to the histories, whether it    *)
(* starts a window or not.                                                  *)
LEMMA GrantKeeps ==
    ASSUME LimitInv, TryConsume, WithinLimit
    PROVE  LimitInv'
<1> DEFINE L == Len(granted)
<1>1. /\ granted' = Append(granted, now) /\ refused' = refused /\ now' = now
      /\ login_window' = IF StartsWindow THEN now ELSE login_window
      /\ login_attempts' = Attempt /\ Attempt <= Attempts
  BY DEF TryConsume, WithinLimit
<1>2. /\ now \in Nat /\ login_window \in Nat \cup {NoWindow} /\ login_attempts \in Nat
      /\ granted \in Seq(Nat) /\ refused \in Seq(Nat) /\ L \in Nat
  BY DEF LimitInv, LimitTypeOK
<1>3. /\ Len(granted') = L + 1 /\ granted'[L + 1] = now
      /\ \A i \in 1..L : granted'[i] = granted[i]
  BY <1>1, <1>2
<1>4. Attempt \in Nat /\ 1 <= Attempt /\ InWindow' = Attempt
  BY <1>1, <1>2 DEF Attempt, InWindow
<1>5. LimitTypeOK'
  BY <1>1, <1>2, <1>4 DEF LimitInv, LimitTypeOK
<1>6. GrantsInOrder'
  BY <1>1, <1>2, <1>3 DEF LimitInv, GrantsInOrder
<1>7. RefusedForCause'
  <2> SUFFICES ASSUME NEW i \in 1..Len(refused)
               PROVE  \E k \in 1..L + 1 :
                        /\ k + Attempts - 1 <= L + 1
                        /\ granted'[k] <= refused[i]
                        /\ granted'[k + Attempts - 1] <= refused[i]
                        /\ refused[i] - granted'[k] < Window
    BY <1>1, <1>3 DEF RefusedForCause
  <2>1. PICK k \in 1..L :
          /\ k + Attempts - 1 <= L
          /\ granted[k] <= refused[i] /\ granted[k + Attempts - 1] <= refused[i]
          /\ refused[i] - granted[k] < Window
    BY DEF LimitInv, RefusedForCause
  <2>2. k + Attempts - 1 \in 1..L /\ k \in 1..L + 1 /\ k + Attempts - 1 <= L + 1
    <3>1. L \in Nat /\ k \in Nat /\ Attempts \in Nat
      BY <1>2
    <3> HIDE DEF L
    <3> QED
      BY <2>1, <3>1
  <2>3. granted'[k] = granted[k] /\ granted'[k + Attempts - 1] = granted[k + Attempts - 1]
    BY <1>3, <2>1, <2>2
  <2> QED
    BY <2>1, <2>2, <2>3
<1>8. CASE StartsWindow
  <2>1. login_window' = now /\ InWindow' = 1
    BY <1>1, <1>4, <1>8 DEF Attempt
  <2>2. \A i \in 1..L : i + Attempts - 1 <= L => granted[i] + Window <= now
    <3>1. CASE login_window = NoWindow
      BY <3>1 DEF LimitInv, WindowGrants
    <3>2. CASE login_window # NoWindow
      <4>1. login_window \in Nat /\ login_window + Window <= now
        BY <1>2, <1>8, <3>2 DEF StartsWindow
      <4>2. /\ InWindow \in 1..L /\ InWindow <= Attempts
            /\ granted[L - InWindow + 1] = login_window
        BY <1>2, <3>2 DEF LimitInv, WindowGrants, InWindow
      <4>3. SUFFICES ASSUME NEW i \in 1..L, i + Attempts - 1 <= L
                     PROVE  granted[i] + Window <= now
        OBVIOUS
      <4>4. L - InWindow + 1 \in 1..L /\ i <= L - InWindow + 1
        BY <1>2, <4>2, <4>3
      <4>5. granted[i] <= login_window
        BY <4>2, <4>4 DEF LimitInv, GrantsInOrder
      <4>6. granted[i] \in Nat
        BY <1>2
      <4> QED
        BY <1>2, <4>1, <4>5, <4>6
    <3> QED
      BY <3>1, <3>2
  <2>3. WindowGrants'
    <3>1. \A i \in 1..L + 1 : i + Attempts <= L + 1 => granted'[i] + Window <= now
      <4> SUFFICES ASSUME NEW i \in 1..L + 1, i + Attempts <= L + 1
                   PROVE  granted'[i] + Window <= now
        OBVIOUS
      <4>1. i \in 1..L /\ i + Attempts - 1 <= L
        BY <1>2
      <4> QED
        BY <1>3, <2>2, <4>1
    <3> HIDE DEF L
    <3> QED
      BY <1>1, <1>2, <1>3, <2>1, <3>1 DEF WindowGrants
  <2>4. SpanBound'
    <3> SUFFICES ASSUME NEW i \in 1..L + 1, i + 2 * Attempts - 1 <= L + 1
                 PROVE  granted'[i + 2 * Attempts - 1] - granted'[i] >= Window
      BY <1>3 DEF SpanBound
    <3>1. i \in 1..L /\ granted'[i] = granted[i] /\ granted[i] \in Nat
      BY <1>2, <1>3
    <3>2. CASE i + 2 * Attempts - 1 = L + 1
      <4>1. i + Attempts - 1 <= L
        BY <1>2, <3>2
      <4>2. granted[i] + Window <= now
        BY <2>2, <3>1, <4>1
      <4>3. granted'[i + 2 * Attempts - 1] = now
        BY <1>3, <3>2
      <4> QED
        BY <1>2, <3>1, <4>2, <4>3
    <3>3. CASE i + 2 * Attempts - 1 <= L
      <4>1. i + 2 * Attempts - 1 \in 1..L
        BY <1>2, <3>3
      <4> QED
        BY <1>3, <3>1, <3>3, <4>1 DEF LimitInv, SpanBound
    <3>4. i + 2 * Attempts - 1 = L + 1 \/ i + 2 * Attempts - 1 <= L
      <4>1. L \in Nat /\ i \in Nat /\ Attempts \in Nat
        BY <1>2
      <4> HIDE DEF L
      <4> QED
        BY <4>1
    <3> QED
      BY <3>2, <3>3, <3>4
  <2> QED
    BY <1>5, <1>6, <1>7, <2>3, <2>4 DEF LimitInv
<1>9. CASE ~StartsWindow
  <2>1. /\ login_window' = login_window /\ login_window \in Nat
        /\ login_attempts + 1 <= Attempts /\ InWindow = login_attempts
        /\ InWindow' = login_attempts + 1
    BY <1>1, <1>2, <1>4, <1>9 DEF Attempt, StartsWindow, InWindow
  <2>2. /\ login_window <= now /\ InWindow \in 1..L
        /\ granted[L - InWindow + 1] = login_window
        /\ \A i \in 1..L : i + InWindow + Attempts - 1 <= L
                => granted[i] + Window <= login_window
    BY <1>9 DEF LimitInv, WindowGrants, StartsWindow
  <2>3. WindowGrants'
    <3>1. L + 1 - (login_attempts + 1) + 1 = L - InWindow + 1
      BY <1>2, <2>1
    <3>2. L - InWindow + 1 \in 1..L
      BY <1>2, <2>2
    <3>3. \A i \in 1..L + 1 : i + (login_attempts + 1) + Attempts - 1 <= L + 1
                => granted'[i] + Window <= login_window
      <4> SUFFICES ASSUME NEW i \in 1..L + 1,
                          i + (login_attempts + 1) + Attempts - 1 <= L + 1
                   PROVE  granted'[i] + Window <= login_window
        OBVIOUS
      <4>1. i \in 1..L /\ i + InWindow + Attempts - 1 <= L
        BY <1>2, <2>1
      <4> QED
        BY <1>3, <2>2, <4>1
    <3>4. login_attempts + 1 \in 1..L + 1
      BY <1>2, <2>1, <2>2
    <3>5. granted'[L + 1 - (login_attempts + 1) + 1] = login_window
      BY <1>3, <2>2, <3>1, <3>2
    <3> HIDE DEF L
    <3> QED
      BY <1>1, <1>2, <1>3, <2>1, <2>2, <3>3, <3>4, <3>5 DEF WindowGrants
  <2>4. SpanBound'
    <3> SUFFICES ASSUME NEW i \in 1..L + 1, i + 2 * Attempts - 1 <= L + 1
                 PROVE  granted'[i + 2 * Attempts - 1] - granted'[i] >= Window
      BY <1>3 DEF SpanBound
    <3>1. i \in 1..L /\ granted'[i] = granted[i] /\ granted[i] \in Nat
      BY <1>2, <1>3
    <3>2. CASE i + 2 * Attempts - 1 = L + 1
      <4>1. i + InWindow + Attempts - 1 <= L
        BY <1>2, <2>1, <3>2
      <4>2. granted[i] + Window <= login_window
        BY <2>2, <3>1, <4>1
      <4>3. granted'[i + 2 * Attempts - 1] = now
        BY <1>3, <3>2
      <4>4. now \in Nat /\ login_window \in Nat /\ login_window <= now
        BY <1>2, <2>1, <2>2
      <4> QED
        BY <3>1, <4>2, <4>3, <4>4
    <3>3. CASE i + 2 * Attempts - 1 <= L
      <4>1. i + 2 * Attempts - 1 \in 1..L
        BY <1>2, <3>3
      <4> QED
        BY <1>3, <3>1, <3>3, <4>1 DEF LimitInv, SpanBound
    <3>4. i + 2 * Attempts - 1 = L + 1 \/ i + 2 * Attempts - 1 <= L
      <4>1. L \in Nat /\ i \in Nat /\ Attempts \in Nat
        BY <1>2
      <4> HIDE DEF L
      <4> QED
        BY <4>1
    <3> QED
      BY <3>2, <3>3, <3>4
  <2> QED
    BY <1>5, <1>6, <1>7, <2>3, <2>4 DEF LimitInv
<1> QED
  BY <1>8, <1>9

(* A step of whatever the limiter is part of. *)
LEMMA LimitKeeps ==
    ASSUME LimitInv, UNCHANGED limitVars \/ TryConsume
    PROVE  LimitInv'
<1>1. CASE UNCHANGED limitVars
  BY <1>1 DEF limitVars, LimitInv, LimitTypeOK, GrantsInOrder, WindowGrants, InWindow,
              SpanBound, RefusedForCause
<1> QED
  BY <1>1, RefusalKeeps, GrantKeeps

-----------------------------------------------------------------------------
(* How often a value stands in a queue *)

LEMMA PositionsFinite ==
    ASSUME NEW S, NEW q \in Seq(S), NEW r
    PROVE  IsFiniteSet(Positions(q, r)) /\ Cardinality(Positions(q, r)) \in Nat
<1>1. Positions(q, r) \in SUBSET (1..Len(q)) /\ Len(q) \in Nat
  BY DEF Positions
<1>2. IsFiniteSet(1..Len(q))
  BY <1>1, FS_Interval
<1>3. IsFiniteSet(Positions(q, r))
  BY <1>1, <1>2, FS_Subset
<1> QED
  BY <1>3, FS_CardinalityType

LEMMA AppendPositions ==
    ASSUME NEW S, NEW q \in Seq(S), NEW x \in S, NEW r
    PROVE  Cardinality(Positions(Append(q, x), r))
               = Cardinality(Positions(q, r)) + IF x = r THEN 1 ELSE 0
<1> DEFINE n == Len(q)
           t == Append(q, x)
<1>1. /\ n \in Nat /\ Len(t) = n + 1 /\ t[n + 1] = x
      /\ \A i \in 1..n : t[i] = q[i]
  OBVIOUS
<1> HIDE DEF n, t
<1>2. Positions(q, r) = {i \in 1..n : q[i] = r}
  BY DEF Positions, n
<1>3. Positions(t, r) = {i \in 1..(n + 1) : t[i] = r}
  BY <1>1 DEF Positions
<1>4. Cardinality(Positions(q, r)) \in Nat /\ IsFiniteSet(Positions(q, r))
  BY PositionsFinite
<1>5. CASE x = r
  <2>1. Positions(t, r) = Positions(q, r) \cup {n + 1} /\ n + 1 \notin Positions(q, r)
    BY <1>1, <1>2, <1>3, <1>5
  <2> QED
    BY <2>1, <1>4, <1>5, FS_AddElement DEF t
<1>6. CASE x # r
  <2>1. Positions(t, r) = Positions(q, r)
    BY <1>1, <1>2, <1>3, <1>6
  <2> QED
    BY <2>1, <1>4, <1>6 DEF t
<1> QED
  BY <1>5, <1>6

LEMMA TailPositions ==
    ASSUME NEW S, NEW q \in Seq(S), q # <<>>, NEW r
    PROVE  Cardinality(Positions(q, r))
               = Cardinality(Positions(Tail(q), r)) + IF Head(q) = r THEN 1 ELSE 0
<1> DEFINE n == Len(q)
           t == Tail(q)
           A == Positions(t, r)
           B == Positions(q, r) \ {1}
           shift == [i \in A |-> i + 1]
<1>1. /\ n \in Nat \ {0} /\ t \in Seq(S) /\ Len(t) = n - 1 /\ Head(q) = q[1]
      /\ \A i \in 1..(n - 1) : t[i] = q[i + 1]
  OBVIOUS
<1> HIDE DEF n, t
<1>2. Positions(q, r) = {i \in 1..n : q[i] = r} /\ A = {i \in 1..(n - 1) : t[i] = r}
  BY <1>1 DEF Positions, n
<1>3. shift \in [A -> B]
  BY <1>1, <1>2
<1>4. \A i, j \in A : shift[i] = shift[j] => i = j
  BY <1>2
<1>5. ASSUME NEW k \in B PROVE \E i \in A : shift[i] = k
  <2>1. k - 1 \in A /\ (k - 1) + 1 = k
    BY <1>1, <1>2
  <2> QED
    BY <2>1
<1>6. ExistsBijection(A, B)
  <2>1. shift \in Bijection(A, B)
    BY <1>3, <1>4, <1>5 DEF Bijection, Injection, Surjection, IsInjective
  <2> QED
    BY <2>1 DEF ExistsBijection
<1>7. IsFiniteSet(A) /\ Cardinality(A) \in Nat
  BY <1>1, PositionsFinite
<1>8. Cardinality(B) = Cardinality(A)
  BY <1>6, <1>7, FS_Bijection
<1>9. IsFiniteSet(Positions(q, r)) /\ Cardinality(Positions(q, r)) \in Nat
  BY PositionsFinite
<1>10. 1 \in Positions(q, r) <=> Head(q) = r
  BY <1>1, <1>2
<1>11. Cardinality(B) = IF Head(q) = r THEN Cardinality(Positions(q, r)) - 1
                        ELSE Cardinality(Positions(q, r))
  BY <1>9, <1>10, FS_RemoveElement
<1> QED
  BY <1>7, <1>8, <1>9, <1>11 DEF t

-----------------------------------------------------------------------------
(* The event loop *)

HeardIsRead ==
    loop = "running" /\ (\A i \in 1..Len(frames) : frames[i] # "keepalive")
        => heard <= last_keep_alive

InboxInv ==
    /\ LimitInv
    /\ InboxTypeOK
    /\ heard <= now
    /\ HeardIsRead
    /\ NeverCutAlive

LEMMA InboxInvInit == Init => InboxInv
<1> SUFFICES ASSUME Init PROVE InboxInv
  OBVIOUS
<1>1. LimitInv
  BY LimitInvInit DEF Init
<1>2. frames \in Seq(Frame) /\ Len(frames) = 0 /\ inner \in Seq(Outcome) /\ Len(inner) = 0
  BY DEF Init
<1>3. InboxTypeOK
  <2>1. Len(frames) <= MaxFrames /\ Len(inner) <= Capacity
    BY <1>2
  <2>2. silent \in BOOLEAN /\ account \in BOOLEAN
    BY DEF Init
  <2>3. last_keep_alive \in 0..MaxTime /\ heard \in 0..MaxTime /\ working \in Nat
    BY DEF Init
  <2>4. /\ waiting \in [Outcome -> Nat]
        /\ produced \in [Outcome -> Nat] /\ handled \in [Outcome -> Nat]
    BY DEF Init
  <2> QED
    BY <1>1, <1>2, <2>1, <2>2, <2>3, <2>4 DEF Init, LimitInv, InboxTypeOK
<1> QED
  BY <1>1, <1>3 DEF Init, LimitInit, InboxInv, HeardIsRead, NeverCutAlive

(* The client: what it sends is heard at once and read later. *)
LEMMA ArriveKeeps ==
    ASSUME InboxInv, NEW f \in Frame, Arrive(f)
    PROVE  InboxInv'
<1>1. LimitInv'
  BY LimitKeeps DEF Arrive, InboxInv
<1>2. /\ loop = "running" /\ loop' = "running"
      /\ frames \in Seq(Frame) /\ frames' = Append(frames, f)
      /\ heard' = IF f = "keepalive" THEN now ELSE heard
      /\ last_keep_alive' = last_keep_alive /\ now' = now /\ now \in 0..MaxTime
  BY DEF Arrive, limitVars, InboxInv, InboxTypeOK, LimitTypeOK
<1>3. InboxTypeOK'
  BY <1>1, <1>2 DEF Arrive, LimitInv, InboxInv, InboxTypeOK
<1>4. HeardIsRead'
  <2>1. CASE f = "keepalive"
    <3>1. Len(frames') = Len(frames) + 1 /\ frames'[Len(frames) + 1] = "keepalive"
      BY <1>2, <2>1
    <3>2. Len(frames) + 1 \in 1..Len(frames')
      BY <1>2, <3>1
    <3> QED
      BY <3>1, <3>2 DEF HeardIsRead
  <2>2. CASE f # "keepalive"
    <3>1. \A i \in 1..Len(frames) : i \in 1..Len(frames') /\ frames'[i] = frames[i]
      BY <1>2
    <3> QED
      BY <1>2, <2>2, <3>1 DEF InboxInv, HeardIsRead
  <2> QED
    BY <2>1, <2>2
<1> QED
  BY <1>1, <1>2, <1>3, <1>4 DEF InboxInv, NeverCutAlive

(* The other steps of the client, the clock and the jobs. *)
LEMMA OutsideKeeps ==
    ASSUME InboxInv,
           FallSilent \/ Tick \/ (\E r \in Outcome : Finish(r) \/ Push(r))
    PROVE  InboxInv'
<1>1. CASE FallSilent
  <2>1. LimitInv'
    BY <1>1, LimitKeeps DEF FallSilent, InboxInv
  <2> QED
    BY <1>1, <2>1 DEF FallSilent, limitVars, LimitInv, InboxInv, InboxTypeOK, HeardIsRead,
                      NeverCutAlive
<1>2. CASE Tick
  <2>1. LimitInv'
    BY <1>2, LimitTick DEF Tick, InboxInv
  <2> QED
    BY <1>2, <2>1 DEF Tick, inboxVars, LimitInv, LimitTypeOK, InboxInv, InboxTypeOK,
                      HeardIsRead, NeverCutAlive
<1>3. ASSUME NEW r \in Outcome, Finish(r) PROVE InboxInv'
  <2>1. LimitInv'
    BY <1>3, LimitKeeps DEF Finish, InboxInv
  <2>2. InboxTypeOK'
    BY <1>3, <2>1 DEF Finish, LimitInv, InboxInv, InboxTypeOK
  <2> QED
    BY <1>3, <2>1, <2>2 DEF Finish, limitVars, InboxInv, HeardIsRead, NeverCutAlive
<1>4. ASSUME NEW r \in Outcome, Push(r) PROVE InboxInv'
  <2>1. LimitInv'
    BY <1>4, LimitKeeps DEF Push, InboxInv
  <2>2. InboxTypeOK'
    BY <1>4, <2>1 DEF Push, LimitInv, InboxInv, InboxTypeOK
  <2> QED
    BY <1>4, <2>1, <2>2 DEF Push, limitVars, InboxInv, HeardIsRead, NeverCutAlive
<1> QED
  BY <1>1, <1>2, <1>3, <1>4

(* event_loop returns; at the deadline nothing that was heard is unread. *)
LEMMA ReturnKeeps ==
    ASSUME InboxInv, NEW reason \in {"timeout", "closed"}, Return(reason),
           reason = "timeout" =>
               frames = <<>> /\ now >= last_keep_alive + KeepAliveTimeout
    PROVE  InboxInv'
<1>1. LimitInv'
  BY LimitKeeps DEF Return, InboxInv
<1>2. InboxTypeOK'
  BY <1>1 DEF Return, LimitInv, InboxInv, InboxTypeOK
<1>3. NeverCutAlive'
  <2>1. CASE reason = "timeout"
    <3>1. heard <= last_keep_alive
      BY <2>1 DEF Return, InboxInv, HeardIsRead
    <3> QED
      BY <2>1, <3>1
      DEF Return, limitVars, InboxInv, InboxTypeOK, LimitTypeOK, NeverCutAlive
  <2> QED
    BY <2>1 DEF Return, NeverCutAlive
<1> QED
  BY <1>1, <1>2, <1>3 DEF Return, limitVars, InboxInv, HeardIsRead

(* Reading a frame: a KeepAliveRequest brings last_keep_alive up to date.   *)
LEMMA OnRemoteKeeps ==
    ASSUME InboxInv, OnRemote
    PROVE  InboxInv'
<1>1. /\ loop = "running" /\ loop' = "running"
      /\ frames # <<>> /\ frames \in Seq(Frame) /\ frames' = Tail(frames)
      /\ heard' = heard /\ heard \in Nat
      /\ last_keep_alive \in 0..MaxTime /\ now \in 0..MaxTime /\ heard <= now
  BY DEF OnRemote, InboxInv, InboxTypeOK, LimitTypeOK
<1>2. /\ now' = now
      /\ \/ Head(frames) = "keepalive" /\ last_keep_alive' = now
         \/ Head(frames) # "keepalive" /\ last_keep_alive' = last_keep_alive
  BY DEF OnRemote, LoginRequest, KeepAliveRequest, OtherFrame, TryConsume, limitVars
<1>3. LimitInv'
  BY LimitKeeps DEF OnRemote, LoginRequest, KeepAliveRequest, OtherFrame, InboxInv
<1>4. working' \in Nat
  BY DEF OnRemote, LoginRequest, KeepAliveRequest, OtherFrame, InboxInv, InboxTypeOK
<1>5. frames' \in Seq(Frame) /\ Len(frames') <= MaxFrames
  BY <1>1 DEF InboxInv, InboxTypeOK
<1>6. InboxTypeOK'
  BY <1>1, <1>2, <1>3, <1>4, <1>5 DEF OnRemote, LimitInv, InboxInv, InboxTypeOK
<1>7. HeardIsRead'
  <2>1. CASE Head(frames) = "keepalive"
    BY <1>1, <1>2, <2>1 DEF HeardIsRead
  <2>2. CASE Head(frames) # "keepalive"
    <3> SUFFICES ASSUME \A i \in 1..Len(frames') : frames'[i] # "keepalive"
                 PROVE  heard <= last_keep_alive
      BY <1>1, <1>2, <2>2 DEF HeardIsRead
    <3>1. \A i \in 1..Len(frames) : frames[i] # "keepalive"
      <4> SUFFICES ASSUME NEW i \in 1..Len(frames) PROVE frames[i] # "keepalive"
        OBVIOUS
      <4>1. CASE i = 1
        BY <1>1, <2>2, <4>1
      <4>2. CASE i # 1
        <5>1. i - 1 \in 1..Len(frames') /\ frames'[i - 1] = frames[i]
          BY <1>1, <4>2
        <5> QED
          BY <5>1
      <4> QED
        BY <4>1, <4>2
    <3> QED
      BY <1>1, <3>1 DEF InboxInv, HeardIsRead
  <2> QED
    BY <2>1, <2>2
<1> QED
  BY <1>1, <1>2, <1>3, <1>6, <1>7 DEF InboxInv, NeverCutAlive

(* A login counts as a sign of life when its outcome is handled. *)
LEMMA OnLoginOutcomeKeeps ==
    ASSUME InboxInv, OnLoginOutcome
    PROVE  InboxInv'
<1>1. LimitInv'
  BY LimitKeeps DEF OnLoginOutcome, InboxInv
<1>2. Head(inner) \in Outcome /\ Tail(inner) \in Seq(Outcome) /\ Len(Tail(inner)) <= Capacity
  BY DEF OnLoginOutcome, InboxInv, InboxTypeOK
<1>3. now \in 0..MaxTime
  BY DEF InboxInv, InboxTypeOK, LimitTypeOK
<1>4. InboxTypeOK'
  BY <1>1, <1>2, <1>3 DEF OnLoginOutcome, LimitInv, InboxInv, InboxTypeOK
<1> QED
  BY <1>1, <1>3, <1>4 DEF OnLoginOutcome, limitVars, InboxInv, HeardIsRead, NeverCutAlive

LEMMA InboxInvNext == InboxInv /\ [Next]_vars => InboxInv'
<1> SUFFICES ASSUME InboxInv, [Next]_vars PROVE InboxInv'
  OBVIOUS
<1>1. CASE UNCHANGED vars
  <2>1. LimitInv'
    BY <1>1, LimitKeeps DEF vars, InboxInv
  <2> QED
    BY <1>1, <2>1 DEF vars, limitVars, inboxVars, LimitInv, InboxInv, InboxTypeOK,
                      HeardIsRead, NeverCutAlive
<1>2. CASE Loop
  BY <1>2, OnRemoteKeeps, OnLoginOutcomeKeeps, ReturnKeeps DEF Loop, Forbidden, Deadline
<1>3. CASE Close
  BY <1>3, ReturnKeeps DEF Close
<1> QED
  BY <1>1, <1>2, <1>3, ArriveKeeps, OutsideKeeps DEF Next, Jobs, Stopped

THEOREM InboxInvariant == Spec => []InboxInv
  BY InboxInvInit, InboxInvNext, PTL DEF Spec

(* The keep-alive timeout never ends a session whose client was heard from  *)
(* within it, for every timeout and however long frames wait (event_loop).  *)
THEOREM LiveClientIsKept == Spec => []NeverCutAlive
<1>1. InboxInv => NeverCutAlive
  BY DEF InboxInv
<1> QED
  BY <1>1, InboxInvariant, PTL

(* The session stays well typed, its inner channel within its capacity      *)
(* (spawn_inner, event_loop).                                               *)
THEOREM InboxTyped == Spec => []InboxTypeOK
<1>1. InboxInv => InboxTypeOK
  BY DEF InboxInv
<1> QED
  BY <1>1, InboxInvariant, PTL

(* 2 * Attempts granted logins take at least Window, for every limit and    *)
(* window (try_consume_login_attempt).                                      *)
THEOREM LoginSpan == Spec => []SpanBound
<1>1. InboxInv => SpanBound
  BY DEF InboxInv, LimitInv
<1> QED
  BY <1>1, InboxInvariant, PTL

(* A refused login has Attempts granted ones within a Window before it, for *)
(* every limit and window (try_consume_login_attempt).                      *)
THEOREM RefusalHasCause == Spec => []RefusedForCause
<1>1. InboxInv => RefusedForCause
  BY DEF InboxInv, LimitInv
<1> QED
  BY <1>1, InboxInvariant, PTL

-----------------------------------------------------------------------------
(* The inner channel *)

(* A step of a running session that leaves outcomes where they are. *)
LEMMA OutcomesUntouched ==
    ASSUME OutcomesKept, loop' = "running" => loop = "running",
           UNCHANGED <<produced, waiting, handled, inner>>
    PROVE  OutcomesKept'
BY DEF OutcomesKept, Positions

(* send puts an outcome at the end of the channel, recv takes the first:    *)
(* each changes the count of one outcome by one.                            *)
LEMMA OutcomesKeptNext == InboxInv /\ OutcomesKept /\ [Next]_vars => OutcomesKept'
<1> SUFFICES ASSUME InboxInv, OutcomesKept, [Next]_vars PROVE OutcomesKept'
  OBVIOUS
<1>1. /\ inner \in Seq(Outcome) /\ waiting \in [Outcome -> Nat]
      /\ produced \in [Outcome -> Nat] /\ handled \in [Outcome -> Nat]
  BY DEF InboxInv, InboxTypeOK
<1>2. ASSUME NEW r \in Outcome, Finish(r) PROVE OutcomesKept'
  <2> SUFFICES ASSUME loop = "running", NEW x \in Outcome
               PROVE  produced'[x] = waiting'[x] + handled'[x]
                                     + Cardinality(Positions(inner, x))
    BY <1>2 DEF Finish, OutcomesKept, Positions
  <2>1. /\ produced'[x] = produced[x] + (IF x = r THEN 1 ELSE 0)
        /\ waiting'[x] = waiting[x] + (IF x = r THEN 1 ELSE 0)
        /\ handled'[x] = handled[x]
    BY <1>1, <1>2 DEF Finish
  <2>2. Cardinality(Positions(inner, x)) \in Nat
    BY <1>1, PositionsFinite
  <2>3. produced[x] = waiting[x] + handled[x] + Cardinality(Positions(inner, x))
    BY DEF OutcomesKept
  <2>4. produced[x] \in Nat /\ waiting[x] \in Nat /\ handled[x] \in Nat
    BY <1>1
  <2> QED
    BY <2>1, <2>2, <2>3, <2>4
<1>3. ASSUME NEW r \in Outcome, Push(r) PROVE OutcomesKept'
  <2> SUFFICES ASSUME NEW x \in Outcome
               PROVE  produced[x] = waiting'[x] + handled[x]
                                    + Cardinality(Positions(inner', x))
    BY <1>3 DEF Push, OutcomesKept, Positions
  <2>1. waiting'[x] = waiting[x] - (IF x = r THEN 1 ELSE 0)
    BY <1>1, <1>3 DEF Push
  <2>2. Cardinality(Positions(inner', x))
            = Cardinality(Positions(inner, x)) + IF r = x THEN 1 ELSE 0
    BY <1>1, <1>3, AppendPositions DEF Push
  <2>3. Cardinality(Positions(inner, x)) \in Nat
    BY <1>1, PositionsFinite
  <2>4. produced[x] = waiting[x] + handled[x] + Cardinality(Positions(inner, x))
    BY <1>3 DEF Push, OutcomesKept
  <2>5. waiting[x] \in Nat /\ handled[x] \in Nat
    BY <1>1
  <2> QED
    BY <2>1, <2>2, <2>3, <2>4, <2>5
<1>4. ASSUME OnLoginOutcome PROVE OutcomesKept'
  <2> DEFINE r == Head(inner)
  <2> SUFFICES ASSUME NEW x \in Outcome
               PROVE  produced[x] = waiting[x] + handled'[x]
                                    + Cardinality(Positions(inner', x))
    BY <1>4 DEF OnLoginOutcome, OutcomesKept, Positions
  <2>1. handled'[x] = handled[x] + (IF x = r THEN 1 ELSE 0)
    BY <1>1, <1>4 DEF OnLoginOutcome
  <2>2. Cardinality(Positions(inner, x))
            = Cardinality(Positions(inner', x)) + IF r = x THEN 1 ELSE 0
    BY <1>1, <1>4, TailPositions DEF OnLoginOutcome
  <2>3. Cardinality(Positions(inner', x)) \in Nat
    <3>1. inner' \in Seq(Outcome)
      BY <1>1, <1>4 DEF OnLoginOutcome
    <3> QED
      BY <3>1, PositionsFinite
  <2>4. produced[x] = waiting[x] + handled[x] + Cardinality(Positions(inner, x))
    BY <1>4 DEF OnLoginOutcome, OutcomesKept
  <2>5. waiting[x] \in Nat /\ handled[x] \in Nat
    BY <1>1
  <2> HIDE DEF r
  <2> QED
    BY <2>1, <2>2, <2>3, <2>4, <2>5
<1>5. ASSUME NEW reason \in {"timeout", "closed"}, Return(reason) PROVE OutcomesKept'
  BY <1>5 DEF Return, OutcomesKept
<1>6. CASE FallSilent \/ Tick \/ OnRemote \/ UNCHANGED vars \/ \E f \in Frame : Arrive(f)
  <2>1. UNCHANGED <<produced, waiting, handled, inner, loop>>
    BY <1>6 DEF FallSilent, Tick, OnRemote, Arrive, vars, inboxVars
  <2> QED
    BY <2>1, OutcomesUntouched
<1> QED
  BY <1>2, <1>3, <1>4, <1>5, <1>6
     DEF Next, Jobs, Loop, Forbidden, Deadline, Close, Stopped

(* Every outcome a job of a running session came to is waiting, in the      *)
(* channel or handled, and that once, for every capacity (inner_tx.send).   *)
THEOREM NoOutcomeLost == Spec => []OutcomesKept
<1>1. Init => OutcomesKept
  <2> SUFFICES ASSUME Init, NEW r \in Outcome
               PROVE  produced[r] = waiting[r] + handled[r]
                                    + Cardinality(Positions(inner, r))
    BY DEF OutcomesKept
  <2>1. Positions(inner, r) = {}
    BY DEF Init, Positions
  <2>2. Cardinality(Positions(inner, r)) = 0
    BY <2>1, FS_EmptySet
  <2> QED
    BY <2>2 DEF Init
<1> QED
  BY <1>1, OutcomesKeptNext, InboxInvariant, PTL DEF Spec
=============================================================================
