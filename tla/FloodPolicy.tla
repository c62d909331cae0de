----------------------------- MODULE FloodPolicy -----------------------------
(***************************************************************************)
(* What the acceptor's flood control promises, stated over the full history *)
(* of admitted connections: no pruning, no sweeping, no memory limits.      *)
(* A host that asks again after MaxPerWindow admissions within FloodWindow  *)
(* is refused and stays refused for BanDuration; nobody else is refused.    *)
(***************************************************************************)
EXTENDS Naturals, Sequences, FiniteSets

CONSTANTS Host, Allowlisted, MaxPerWindow, FloodWindow, BanDuration

VARIABLES time,      \* the clock
          history,   \* history[h]: times of the connections let in
          bannedTo,  \* end of the ban in force, 0 if there is none
          verdict    \* the last decision: host, time, and "in" or "out"

policyVars == <<time, history, bannedTo, verdict>>

PolicyInit ==
    /\ time = 0
    /\ history = [h \in Host |-> <<>>]
    /\ bannedTo = [h \in Host |-> 0]
    /\ verdict = <<>>

Recent(h) == {i \in 1..Len(history[h]) : time - history[h][i] <= FloodWindow}

Flooding(h) == Cardinality(Recent(h)) >= MaxPerWindow

Pass ==
    /\ time' = time + 1
    /\ bannedTo' = [h \in Host |-> IF bannedTo[h] > time' THEN bannedTo[h] ELSE 0]
    /\ UNCHANGED <<history, verdict>>

Welcome(h) ==
    /\ h \in Allowlisted
    /\ verdict' = <<h, time, "in">>
    /\ UNCHANGED <<time, history, bannedTo>>

Admit(h) ==
    /\ h \notin Allowlisted /\ bannedTo[h] = 0 /\ ~Flooding(h)
    /\ history' = [history EXCEPT ![h] = Append(@, time)]
    /\ verdict' = <<h, time, "in">>
    /\ UNCHANGED <<time, bannedTo>>

StartBan(h) ==
    /\ h \notin Allowlisted /\ bannedTo[h] = 0 /\ Flooding(h)
    /\ bannedTo' = [bannedTo EXCEPT ![h] = time + BanDuration]
    /\ verdict' = <<h, time, "out">>
    /\ UNCHANGED <<time, history>>

Refuse(h) ==
    /\ bannedTo[h] # 0
    /\ verdict' = <<h, time, "out">>
    /\ UNCHANGED <<time, history, bannedTo>>

PolicyNext ==
    Pass \/ \E h \in Host : Welcome(h) \/ Admit(h) \/ StartBan(h) \/ Refuse(h)

PolicySpec == PolicyInit /\ [][PolicyNext]_policyVars
=============================================================================
