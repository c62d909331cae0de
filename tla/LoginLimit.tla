----------------------------- MODULE LoginLimit -----------------------------
(***************************************************************************)
(* try_consume_login_attempt of crates/login_server/src/session.rs: the     *)
(* limit on login attempts of one session.  The window is fixed: it starts  *)
(* with an attempt and the next one starts with the first attempt made when *)
(* it has elapsed.  SessionInbox takes its step as part of a LoginRequest.   *)
(***************************************************************************)
EXTENDS Naturals, Sequences

CONSTANTS Attempts,    \* LOGIN_ATTEMPTS_PER_WINDOW
          Window,      \* LOGIN_ATTEMPT_WINDOW
          NoWindow,    \* login_window = None
          MaxTime      \* bound: the clock stops here

ASSUME LimitAssumption ==
    /\ Attempts \in Nat \ {0} /\ Window \in Nat \ {0}
    /\ MaxTime \in Nat
    /\ NoWindow \notin Nat

VARIABLES now,             \* Instant::now()
          login_window,    \* start of the window
          login_attempts,  \* attempts in it, refused ones included
          granted,         \* history: times of the attempts let through
          refused          \* history: times of the attempts refused

limitVars == <<now, login_window, login_attempts, granted, refused>>

LimitTypeOK ==
    /\ now \in 0..MaxTime
    /\ login_window \in Nat \cup {NoWindow}
    /\ granted \in Seq(Nat) /\ refused \in Seq(Nat)
    /\ login_attempts \in 0..(Attempts + Len(refused))

LimitInit ==
    /\ now = 0
    /\ login_window = NoWindow
    /\ login_attempts = 0
    /\ granted = <<>> /\ refused = <<>>

(* Mutant: the first window never ends. *)
StartsWindowNever == login_window = NoWindow

(* Mutant: a window is left one tick early. *)
StartsWindowEarly == login_window = NoWindow \/ now - login_window + 1 >= Window

(* is_none_or(now - start >= LOGIN_ATTEMPT_WINDOW) *)
StartsWindow == login_window = NoWindow \/ now - login_window >= Window

(* Mutant: an attempt is counted twice. *)
AttemptCountedTwice == IF StartsWindow THEN 1 ELSE login_attempts + 2

(* login_attempts after this attempt. *)
Attempt == IF StartsWindow THEN 1 ELSE login_attempts + 1

WithinLimit == Attempt <= Attempts

TryConsume ==
    /\ login_window' = IF StartsWindow THEN now ELSE login_window
    /\ login_attempts' = Attempt
    /\ \/ /\ WithinLimit
          /\ granted' = Append(granted, now)
          /\ UNCHANGED refused
       \/ /\ ~WithinLimit
          /\ refused' = Append(refused, now)
          /\ UNCHANGED granted
    /\ UNCHANGED now

-----------------------------------------------------------------------------
(* The limit, as strong as a fixed window makes it: 2 * Attempts granted    *)
(* attempts take at least Window.  (Attempts + 1 of them may come at once   *)
(* around the end of a window.)                                             *)
SpanBound ==
    \A i \in 1..Len(granted) :
        i + 2 * Attempts - 1 <= Len(granted)
            => granted[i + 2 * Attempts - 1] - granted[i] >= Window

(* Nobody is refused without cause: the Attempts last granted attempts lie  *)
(* within less than Window before the refusal, so refused attempts cannot   *)
(* lock a client out for longer than the window they fall into.             *)
RefusedForCause ==
    \A i \in 1..Len(refused) :
        \E k \in 1..Len(granted) :
            /\ k + Attempts - 1 <= Len(granted)
            /\ granted[k] <= refused[i] /\ granted[k + Attempts - 1] <= refused[i]
            /\ refused[i] - granted[k] < Window
=============================================================================
