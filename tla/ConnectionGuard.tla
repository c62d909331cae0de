--------------------------- MODULE ConnectionGuard ---------------------------
(***************************************************************************)
(* ConnectionGuard of crates/net/src/acceptor.rs: per-IP flood detection,   *)
(* bans and the periodic sweep.  The acceptor loop owns it, so should_block *)
(* is one step.  Time is an integer; two connections may share an instant.  *)
(***************************************************************************)
EXTENDS Naturals, Sequences, FiniteSets, FiniteSetsExt

CONSTANTS Addr,          \* peer addresses as the socket reports them
          Host,          \* canonical addresses
          Canonical,     \* IpAddr::to_canonical
          Allowlisted,   \* the loopback addresses
          MaxPerWindow,  \* MAX_CONNECTIONS_PER_WINDOW
          FloodWindow,   \* FLOOD_WINDOW
          BanDuration,   \* BAN_DURATION
          SweepInterval, \* SWEEP_INTERVAL
          Never,         \* last_sweep = None
          MaxTime        \* bound: the clock stops here

ASSUME GuardAssumption ==
    /\ Canonical \in [Addr -> Host]
    /\ Allowlisted \subseteq Host
    /\ MaxPerWindow \in Nat \ {0}
    /\ FloodWindow \in Nat /\ BanDuration \in Nat \ {0}
    /\ SweepInterval \in Nat \ {0} /\ MaxTime \in Nat
    /\ Never \notin Nat

VARIABLES now,           \* Instant::now()
          timestamps,    \* admissions remembered per host; <<>>: no entry
          banned_until,  \* end of the ban per host; 0: no entry
          last_sweep,    \* time of the last sweep; Never: none yet
          admitted,      \* history: times of all admissions per host
          verdict        \* history: the last decision

vars == <<now, timestamps, banned_until, last_sweep, admitted, verdict>>

GuardTypeOK ==
    /\ now \in 0..MaxTime
    /\ timestamps \in [Host -> Seq(Nat)]
    /\ \A h \in Host : Len(timestamps[h]) <= MaxPerWindow
    /\ banned_until \in [Host -> Nat]
    /\ last_sweep \in Nat \cup {Never}
    /\ admitted \in [Host -> Seq(Nat)]

Init ==
    /\ now = 0
    /\ timestamps = [h \in Host |-> <<>>]
    /\ banned_until = [h \in Host |-> 0]
    /\ last_sweep = Never
    /\ admitted = [h \in Host |-> <<>>]
    /\ verdict = <<>>

-----------------------------------------------------------------------------
(* Mutant: an entry exactly FloodWindow old no longer counts. *)
ExpiredEarly(t) == now - t >= FloodWindow

(* An entry exactly FloodWindow old still counts. *)
Expired(t) == now - t > FloodWindow

(* prune: pop from the front while the front is expired. *)
Prune(q) ==
    LET fresh == {i \in 1..Len(q) : ~Expired(q[i])}
    IN  IF fresh = {} THEN <<>> ELSE SubSeq(q, Min(fresh), Len(q))

(* Mutant: one connection more than the limit. *)
FloodedLate(h) == Len(Prune(timestamps[h])) > MaxPerWindow

(* is_flood_detected; a connection that is refused leaves no timestamp. *)
Flooded(h) == Len(Prune(timestamps[h])) >= MaxPerWindow

Remember(h) ==
    [timestamps EXCEPT ![h] = IF Flooded(h) THEN Prune(@)
                              ELSE Append(Prune(@), now)]

SweepDue == last_sweep = Never \/ now - last_sweep >= SweepInterval

(* sweep_if_due on the two maps. *)
SweptTimestamps(ts) == [h \in Host |-> Prune(ts[h])]

(* Mutant: a ban is swept away one tick before it ends. *)
SweptBansEarly(bans) == [h \in Host |-> IF now + 1 < bans[h] THEN bans[h] ELSE 0]

(* Mutant: sweep leaves the bans alone. *)
SweptBansNever(bans) == bans

SweptBans(bans) == [h \in Host |-> IF now < bans[h] THEN bans[h] ELSE 0]

-----------------------------------------------------------------------------
(* should_block, by its three ways out *)

Allow(h) ==
    /\ h \in Allowlisted
    /\ verdict' = <<h, now, "in">>
    /\ UNCHANGED <<timestamps, banned_until, last_sweep, admitted>>

RefuseBanned(h) ==
    /\ h \notin Allowlisted
    /\ now < banned_until[h]
    /\ verdict' = <<h, now, "out">>
    /\ UNCHANGED <<timestamps, banned_until, last_sweep, admitted>>

(* No ban in force: an elapsed one is removed, the flood check may start a  *)
(* new one, and the sweep runs in between.                                  *)
Decide(h) ==
    /\ h \notin Allowlisted
    /\ now >= banned_until[h]
    /\ timestamps' = IF SweepDue THEN SweptTimestamps(Remember(h)) ELSE Remember(h)
    /\ last_sweep' = IF SweepDue THEN now ELSE last_sweep
    /\ LET lifted == [banned_until EXCEPT ![h] = 0]
           kept   == IF SweepDue THEN SweptBans(lifted) ELSE lifted
       IN  banned_until' = IF Flooded(h) THEN [kept EXCEPT ![h] = now + BanDuration]
                           ELSE kept
    /\ admitted' = IF Flooded(h) THEN admitted
                   ELSE [admitted EXCEPT ![h] = Append(@, now)]
    /\ verdict' = <<h, now, IF Flooded(h) THEN "out" ELSE "in">>

ShouldBlock(a) ==
    /\ LET h == Canonical[a] IN Allow(h) \/ RefuseBanned(h) \/ Decide(h)
    /\ UNCHANGED now

Tick ==
    /\ now < MaxTime
    /\ now' = now + 1
    /\ UNCHANGED <<timestamps, banned_until, last_sweep, admitted, verdict>>

Next == Tick \/ \E a \in Addr : ShouldBlock(a)

Spec == Init /\ [][Next]_vars

-----------------------------------------------------------------------------
(* Properties *)

(* What a sweep found expired is gone: an entry that is kept was fresh at   *)
(* the last sweep or is newer, so hosts that stay away cost no memory.      *)
SweepForgetsExpired ==
    last_sweep # Never =>
        \A h \in Host :
            /\ \A i \in 1..Len(timestamps[h]) :
                  timestamps[h][i] + FloodWindow >= last_sweep
            /\ banned_until[h] # 0 => banned_until[h] > last_sweep

(* The guard implements the policy: forgetting timestamps and bans changes  *)
(* no decision, a ban lasts exactly BanDuration, nobody else is refused.    *)
Policy == INSTANCE FloodPolicy
    WITH time <- now, history <- admitted,
         bannedTo <- [h \in Host |-> IF banned_until[h] > now
                                     THEN banned_until[h] ELSE 0]

ImplementsPolicy == Policy!PolicySpec
=============================================================================
