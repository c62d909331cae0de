-------------------------- MODULE DummyClientProofs --------------------------
(***************************************************************************)
(* DummyClient, for every number of clients and every capacity: the three   *)
(* counters add up, and a line of the monitor shows no more than it may.    *)
(*                                                                         *)
(* A task moves on and counts in one step of one counter, so each counter   *)
(* is the number of tasks in the places it stands for.  A task between the  *)
(* two steps of on_moved_to_game, or of its end, is in no counter.          *)
(***************************************************************************)
EXTENDS DummyClient, FiniteSetTheorems, TLAPS

USE ClientAssumption

CountedLogin == {"login", "loginSend", "moved", "leftLogin"}
CountedGame  == {"connecting", "game", "gameSend", "leftGame"}
CountedDone  == {"done"}

(* The tasks that the locations p put into one of the places L. *)
At(p, L) == {c \in Clients : p[c] \in L}

CountInv ==
    /\ loginServer = Cardinality(At(pc, CountedLogin))
    /\ gameServer = Cardinality(At(pc, CountedGame))
    /\ disconnected = Cardinality(At(pc, CountedDone))

AllDone == main = "exited" => \A c \in Clients : pc[c] \in {"none", "done"}

(* A connect is under way only for a client that is still wanted. *)
DialInv == main = "dialing" => connected < MaxClients

DummyInv == DummyTypeOK /\ CountInv /\ AllDone /\ DialInv

-----------------------------------------------------------------------------
(* Counting tasks *)

LEMMA AtFinite ==
    ASSUME NEW p, NEW L
    PROVE  IsFiniteSet(At(p, L)) /\ Cardinality(At(p, L)) \in Nat
<1>1. IsFiniteSet(Clients)
  BY FS_Interval DEF Clients
<1>2. At(p, L) \in SUBSET Clients
  BY DEF At
<1>3. IsFiniteSet(At(p, L))
  BY <1>1, <1>2, FS_Subset
<1> QED
  BY <1>3, FS_CardinalityType

(* What a move from x to y adds to the tasks in L. *)
Entered(x, y, L) ==
    (IF y \in L THEN 1 ELSE 0) - (IF x \in L THEN 1 ELSE 0)

(* From p to q no task but c has moved. *)
OnlyMoves(c, p, q) == \A d \in Clients \ {c} : q[d] = p[d]

LEMMA MoveCounts ==
    ASSUME NEW p, NEW q, NEW c \in Clients, NEW L,
           OnlyMoves(c, p, q)
    PROVE  Cardinality(At(q, L)) = Cardinality(At(p, L)) + Entered(p[c], q[c], L)
<1>2. IsFiniteSet(At(p, L)) /\ Cardinality(At(p, L)) \in Nat
  BY AtFinite
<1>3. CASE p[c] \in L /\ q[c] \in L
  <2>1. At(q, L) = At(p, L)
    BY <1>3 DEF At, OnlyMoves
  <2> QED
    BY <2>1, <1>2, <1>3 DEF Entered
<1>4. CASE p[c] \notin L /\ q[c] \notin L
  <2>1. At(q, L) = At(p, L)
    BY <1>4 DEF At, OnlyMoves
  <2> QED
    BY <2>1, <1>2, <1>4 DEF Entered
<1>5. CASE p[c] \notin L /\ q[c] \in L
  <2>1. At(q, L) = At(p, L) \cup {c} /\ c \notin At(p, L)
    BY <1>5 DEF At, OnlyMoves
  <2>2. Cardinality(At(q, L)) = Cardinality(At(p, L)) + 1
    BY <2>1, <1>2, FS_AddElement
  <2> QED
    BY <2>2, <1>2, <1>5 DEF Entered
<1>6. CASE p[c] \in L /\ q[c] \notin L
  <2>1. At(q, L) = At(p, L) \ {c} /\ c \in At(p, L)
    BY <1>6 DEF At, OnlyMoves
  <2>2. Cardinality(At(q, L)) = Cardinality(At(p, L)) - 1
    BY <2>1, <1>2, FS_RemoveElement
  <2> QED
    BY <2>2, <1>2, <1>6 DEF Entered
<1> QED
  BY <1>3, <1>4, <1>5, <1>6

(* A task that moves and counts what the move adds keeps CountInv. *)
LEMMA CountedMove ==
    ASSUME DummyInv, NEW c \in Clients, NEW y, Goto(c, y),
           loginServer' = loginServer + Entered(pc[c], y, CountedLogin),
           gameServer' = gameServer + Entered(pc[c], y, CountedGame),
           disconnected' = disconnected + Entered(pc[c], y, CountedDone)
    PROVE  CountInv'
<1>1. pc'[c] = y /\ OnlyMoves(c, pc, pc')
  BY DEF DummyInv, DummyTypeOK, Goto, OnlyMoves
<1>2. ASSUME NEW L
      PROVE  Cardinality(At(pc', L)) = Cardinality(At(pc, L)) + Entered(pc[c], pc'[c], L)
  BY <1>1, MoveCounts
<1>3. At(pc, CountedLogin)' = At(pc', CountedLogin) /\ At(pc, CountedGame)' = At(pc', CountedGame)
      /\ At(pc, CountedDone)' = At(pc', CountedDone)
  BY DEF At, CountedLogin, CountedGame, CountedDone
<1> QED
  BY <1>1, <1>2, <1>3 DEF CountInv, DummyInv

(* Places that count the same. *)
SameCounter(x, y) ==
    /\ x \in CountedLogin <=> y \in CountedLogin
    /\ x \in CountedGame <=> y \in CountedGame
    /\ x \in CountedDone <=> y \in CountedDone

(* A move that touches no counter, between places of the same counter. *)
LEMMA UncountedMove ==
    ASSUME DummyInv, NEW c \in Clients, NEW y, Goto(c, y), UNCHANGED counters,
           SameCounter(pc[c], y)
    PROVE  CountInv'
<1>1. /\ loginServer \in Int /\ gameServer \in Int /\ disconnected \in Int
      /\ loginServer' = loginServer /\ gameServer' = gameServer
      /\ disconnected' = disconnected
  BY DEF DummyInv, DummyTypeOK, counters
<1>2. /\ Entered(pc[c], y, CountedLogin) = 0
      /\ Entered(pc[c], y, CountedGame) = 0
      /\ Entered(pc[c], y, CountedDone) = 0
  BY DEF Entered, SameCounter
<1>3. /\ loginServer' = loginServer + Entered(pc[c], y, CountedLogin)
      /\ gameServer' = gameServer + Entered(pc[c], y, CountedGame)
      /\ disconnected' = disconnected + Entered(pc[c], y, CountedDone)
  BY <1>1, <1>2
<1> QED
  BY <1>3, CountedMove

LEMMA ClientCounts ==
    ASSUME DummyInv, NEW c \in Clients, Client(c)
    PROVE  CountInv'
<1> USE DEF Goto
<1>1. loginServer \in Int /\ gameServer \in Int /\ disconnected \in Int
  BY DEF DummyInv, DummyTypeOK
<1>2. CASE OnLoginStarted(c)
  <2>1. Goto(c, "login") /\ UNCHANGED <<gameServer, disconnected>>
        /\ loginServer' = loginServer + 1 /\ pc[c] = "started"
    BY <1>2 DEF OnLoginStarted
  <2>2. /\ Entered(pc[c], "login", CountedLogin) = 1
        /\ Entered(pc[c], "login", CountedGame) = 0
        /\ Entered(pc[c], "login", CountedDone) = 0
    BY <2>1 DEF Entered, CountedLogin, CountedGame, CountedDone
  <2>3. /\ loginServer' = loginServer + Entered(pc[c], "login", CountedLogin)
        /\ gameServer' = gameServer + Entered(pc[c], "login", CountedGame)
        /\ disconnected' = disconnected + Entered(pc[c], "login", CountedDone)
    BY <1>1, <2>1, <2>2
  <2> QED
    BY <2>1, <2>3, CountedMove
<1>3. CASE OnMovedToGame(c)
  <2>1. CASE pc[c] = "moved"
    <3>1. Goto(c, "moving") /\ UNCHANGED <<gameServer, disconnected>>
          /\ loginServer' = loginServer - 1
      BY <1>3, <2>1 DEF OnMovedToGame
    <3>2. /\ Entered(pc[c], "moving", CountedLogin) = -1
          /\ Entered(pc[c], "moving", CountedGame) = 0
          /\ Entered(pc[c], "moving", CountedDone) = 0
      BY <2>1 DEF Entered, CountedLogin, CountedGame, CountedDone
    <3>3. /\ loginServer' = loginServer + Entered(pc[c], "moving", CountedLogin)
          /\ gameServer' = gameServer + Entered(pc[c], "moving", CountedGame)
          /\ disconnected' = disconnected + Entered(pc[c], "moving", CountedDone)
      BY <1>1, <3>1, <3>2
    <3> QED
      BY <3>1, <3>3, CountedMove
  <2>2. CASE pc[c] = "moving"
    <3>1. Goto(c, "connecting") /\ UNCHANGED <<loginServer, disconnected>>
          /\ gameServer' = gameServer + 1
      BY <1>3, <2>2 DEF OnMovedToGame
    <3>2. /\ Entered(pc[c], "connecting", CountedLogin) = 0
          /\ Entered(pc[c], "connecting", CountedGame) = 1
          /\ Entered(pc[c], "connecting", CountedDone) = 0
      BY <2>2 DEF Entered, CountedLogin, CountedGame, CountedDone
    <3>3. /\ loginServer' = loginServer + Entered(pc[c], "connecting", CountedLogin)
          /\ gameServer' = gameServer + Entered(pc[c], "connecting", CountedGame)
          /\ disconnected' = disconnected + Entered(pc[c], "connecting", CountedDone)
      BY <1>1, <3>1, <3>2
    <3> QED
      BY <3>1, <3>3, CountedMove
  <2> QED
    BY <1>3, <2>1, <2>2 DEF OnMovedToGame
<1>4. CASE OnDisconnected(c)
  <2>0. Goto(c, "ended") /\ UNCHANGED disconnected
    BY <1>4 DEF OnDisconnected
  <2>1. CASE pc[c] = "leftLogin"
    <3>1. loginServer' = loginServer - 1 /\ gameServer' = gameServer
      BY <1>4, <2>1 DEF OnDisconnected
    <3>2. /\ Entered(pc[c], "ended", CountedLogin) = -1
          /\ Entered(pc[c], "ended", CountedGame) = 0
          /\ Entered(pc[c], "ended", CountedDone) = 0
      BY <2>1 DEF Entered, CountedLogin, CountedGame, CountedDone
    <3>3. /\ loginServer' = loginServer + Entered(pc[c], "ended", CountedLogin)
          /\ gameServer' = gameServer + Entered(pc[c], "ended", CountedGame)
          /\ disconnected' = disconnected + Entered(pc[c], "ended", CountedDone)
      BY <1>1, <2>0, <3>1, <3>2
    <3> QED
      BY <2>0, <3>1, <3>3, CountedMove
  <2>2. CASE pc[c] = "leftGame"
    <3>1. gameServer' = gameServer - 1 /\ loginServer' = loginServer
      BY <1>4, <2>2 DEF OnDisconnected
    <3>2. /\ Entered(pc[c], "ended", CountedLogin) = 0
          /\ Entered(pc[c], "ended", CountedGame) = -1
          /\ Entered(pc[c], "ended", CountedDone) = 0
      BY <2>2 DEF Entered, CountedLogin, CountedGame, CountedDone
    <3>3. /\ loginServer' = loginServer + Entered(pc[c], "ended", CountedLogin)
          /\ gameServer' = gameServer + Entered(pc[c], "ended", CountedGame)
          /\ disconnected' = disconnected + Entered(pc[c], "ended", CountedDone)
      BY <1>1, <2>0, <3>1, <3>2
    <3> QED
      BY <2>0, <3>1, <3>3, CountedMove
  <2> QED
    BY <1>4, <2>1, <2>2 DEF OnDisconnected
<1>5. CASE Finish(c)
  <2>1. Goto(c, "done") /\ UNCHANGED <<loginServer, gameServer>>
        /\ disconnected' = disconnected + 1 /\ pc[c] = "ended"
    BY <1>5 DEF Finish
  <2>2. /\ Entered(pc[c], "done", CountedLogin) = 0
        /\ Entered(pc[c], "done", CountedGame) = 0
        /\ Entered(pc[c], "done", CountedDone) = 1
    BY <2>1 DEF Entered, CountedLogin, CountedGame, CountedDone
  <2>3. /\ loginServer' = loginServer + Entered(pc[c], "done", CountedLogin)
        /\ gameServer' = gameServer + Entered(pc[c], "done", CountedGame)
        /\ disconnected' = disconnected + Entered(pc[c], "done", CountedDone)
    BY <1>1, <2>1, <2>2
  <2> QED
    BY <2>1, <2>3, CountedMove
<1>6. CASE UNCHANGED <<pc, counters>>
  BY <1>6 DEF counters, CountInv, At, DummyInv
<1>7. CASE Awaiting(c) \/ Cancelled(c) \/ Sent(c) \/ ConnectGame(c) \/ RecvMove(c)
  <2>1. UNCHANGED counters
    BY <1>7 DEF Awaiting, Cancelled, Sent, ConnectGame, RecvMove, LoginMessage,
        GameMessage, GameClosed, KeepAliveTick, LoginCancelled, GameCancelled
  <2>2. CASE pc[c] \in InLogin
    <3>1. pc' = pc \/ \E y \in InLogin \cup {"moved", "leftLogin"} : Goto(c, y)
      BY <1>7, <2>2 DEF InLogin, Awaiting, Cancelled, Sent, ConnectGame, RecvMove,
          LoginMessage, GameMessage, GameClosed, KeepAliveTick, LoginCancelled,
          GameCancelled
    <3>2. \A y \in InLogin \cup {"moved", "leftLogin"} : SameCounter(pc[c], y)
      BY <2>2 DEF InLogin, SameCounter, CountedLogin, CountedGame, CountedDone
    <3> QED
      BY <1>6, <2>1, <3>1, <3>2, UncountedMove
  <2>3. CASE pc[c] \in InGame
    <3>1. pc' = pc \/ \E y \in InGame \cup {"leftGame"} : Goto(c, y)
      BY <1>7, <2>3 DEF InGame, Awaiting, Cancelled, Sent, ConnectGame, RecvMove,
          LoginMessage, GameMessage, GameClosed, KeepAliveTick, LoginCancelled,
          GameCancelled
    <3>2. \A y \in InGame \cup {"leftGame"} : SameCounter(pc[c], y)
      BY <2>3 DEF InGame, SameCounter, CountedLogin, CountedGame, CountedDone
    <3> QED
      BY <1>6, <2>1, <3>1, <3>2, UncountedMove
  <2>4. pc[c] \in InLogin \cup InGame
    BY <1>7 DEF InLogin, InGame, Awaiting, Cancelled, Sent, ConnectGame, RecvMove,
        LoginMessage, GameMessage, GameClosed, KeepAliveTick, LoginCancelled,
        GameCancelled
  <2> QED
    BY <2>2, <2>3, <2>4
<1> QED
  BY <1>2, <1>3, <1>4, <1>5, <1>7 DEF Client, Counting

-----------------------------------------------------------------------------
(* Types *)

(* A task goes from one place to another and is never unborn again. *)
LEMMA ClientTypes ==
    ASSUME DummyInv, NEW c \in Clients, Client(c)
    PROVE  DummyTypeOK'
<1> USE DEF Goto
<1>1. /\ UNCHANGED process
      /\ pc \in [Clients -> PCs] /\ peer \in [Clients -> {"greeting", "asked", "granted", "refused"}]
  BY DEF Client, Counting, Awaiting, Cancelled, Sent, ConnectGame, RecvMove,
         LoginMessage, GameMessage, GameClosed, KeepAliveTick, LoginCancelled,
         GameCancelled, OnLoginStarted, OnMovedToGame, OnDisconnected, Finish,
         DummyInv, DummyTypeOK
<1>2. pc[c] # "none" /\ (pc' = pc \/ \E y \in PCs \ {"none"} : Goto(c, y))
  BY DEF Client, Counting, Awaiting, Cancelled, Sent, ConnectGame, RecvMove,
         LoginMessage, GameMessage, GameClosed, KeepAliveTick, LoginCancelled,
         GameCancelled, OnLoginStarted, OnMovedToGame, OnDisconnected, Finish,
         PCs, InLogin, InGame
<1>3. pc' \in [Clients -> PCs] /\ \A d \in Clients : pc'[d] = "none" <=> pc[d] = "none"
  BY <1>1, <1>2
<1>4. peer' = peer
      \/ \E x \in {"greeting", "asked", "granted", "refused"} : peer' = [peer EXCEPT ![c] = x]
  BY DEF Client, Counting, Awaiting, Cancelled, Sent, ConnectGame, RecvMove,
         LoginMessage, GameMessage, GameClosed, KeepAliveTick, LoginCancelled,
         GameCancelled, OnLoginStarted, OnMovedToGame, OnDisconnected, Finish
<1>5. peer' \in [Clients -> {"greeting", "asked", "granted", "refused"}]
  BY <1>1, <1>4
<1>6. keyboard' = keyboard
  BY DEF Client, Counting, Awaiting, Cancelled, Sent, ConnectGame, RecvMove,
         LoginMessage, GameMessage, GameClosed, KeepAliveTick, LoginCancelled,
         GameCancelled, OnLoginStarted, OnMovedToGame, OnDisconnected, Finish, player
<1>7. receiving' \in BOOLEAN
  BY DEF Client, Counting, Awaiting, Cancelled, Sent, ConnectGame, RecvMove,
         LoginMessage, GameMessage, GameClosed, KeepAliveTick, LoginCancelled,
         GameCancelled, OnLoginStarted, OnMovedToGame, OnDisconnected, Finish, player,
         Drops, DummyInv, DummyTypeOK
<1>8. moves' = moves \/ (moves > 0 /\ moves' = moves - 1)
  BY DEF Client, Counting, Awaiting, Cancelled, Sent, ConnectGame, RecvMove,
         LoginMessage, GameMessage, GameClosed, KeepAliveTick, LoginCancelled,
         GameCancelled, OnLoginStarted, OnMovedToGame, OnDisconnected, Finish, player
<1>9. moves' \in 0..MoveQueue
  BY <1>8 DEF DummyInv, DummyTypeOK
<1>10. CountInv'
  BY ClientCounts
<1>12. UNCHANGED <<monitor, seen>> /\ passed' \in {passed, passed + 1}
  BY DEF Client, Counting, Awaiting, Cancelled, Sent, ConnectGame, RecvMove,
         LoginMessage, GameMessage, GameClosed, KeepAliveTick, LoginCancelled,
         GameCancelled, OnLoginStarted, OnMovedToGame, OnDisconnected, Finish,
         monitoring, CountedBefore
<1>13. /\ monitor' \in {"sleep", "game", "disconnected"}
       /\ seen' \in [login : Int, game : Int] /\ passed' \in Nat
  BY <1>12 DEF DummyInv, DummyTypeOK
<1>11. loginServer' \in Int /\ gameServer' \in Int /\ disconnected' \in Nat
  <2>1. \A L : Cardinality(At(pc', L)) \in Nat
    BY AtFinite
  <2> QED
    BY <1>10, <2>1 DEF CountInv, At
<1> QED
  BY <1>1, <1>3, <1>5, <1>6, <1>7, <1>9, <1>11, <1>13 DEF process, DummyInv, DummyTypeOK

(* main starts tasks, which no counter counts yet. *)
LEMMA MainKeeps ==
    ASSUME DummyInv, MainStep
    PROVE  DummyInv'
<1>1. CASE Dialed
  <2> DEFINE c == connected + 1
  <2>1. /\ c \in Clients /\ pc[c] = "none" /\ pc \in [Clients -> PCs]
        /\ Goto(c, "started") /\ connected' = c /\ main' = "connecting"
        /\ connected \in 0..MaxClients
    BY <1>1 DEF Dialed, DummyInv, DummyTypeOK, DialInv, Clients, Goto
  <2>2. SameCounter(pc[c], "started")
    BY <2>1 DEF SameCounter, CountedLogin, CountedGame, CountedDone
  <2>3. CountInv'
    BY <1>1, <2>1, <2>2, UncountedMove DEF Dialed
  <2>4. pc' \in [Clients -> PCs] /\ \A d \in Clients : pc'[d] = "none" <=> d > c
    <3>1. "started" \in PCs \ {"none"}
      BY DEF PCs
    <3>2. pc' = [pc EXCEPT ![c] = "started"]
      BY <2>1 DEF Goto
    <3>3. ASSUME NEW d \in Clients PROVE pc'[d] = "none" <=> d > c
      <4>1. d \in Nat /\ (pc[d] = "none" <=> d > connected)
        BY DEF DummyInv, DummyTypeOK, Clients
      <4>2. CASE d = c
        BY <2>1, <3>1, <3>2, <4>2
      <4>3. CASE d # c
        <5>1. pc'[d] = pc[d]
          BY <2>1, <3>2, <4>3
        <5>2. d > connected <=> d > c
          BY <2>1, <4>1, <4>3
        <5> QED
          BY <4>1, <5>1, <5>2
      <4> QED
        BY <4>2, <4>3
    <3> QED
      BY <2>1, <3>1, <3>2, <3>3
  <2>5. connected' \in 0..MaxClients
    BY <2>1 DEF Clients
  <2>6. DummyTypeOK'
    BY <1>1, <2>1, <2>4, <2>5
    DEF Dialed, counters, monitoring, player, DummyInv, DummyTypeOK
  <2>7. AllDone' /\ DialInv'
    BY <2>1 DEF AllDone, DialInv
  <2> QED
    BY <2>3, <2>6, <2>7 DEF DummyInv
<1>2. CASE ConnectClient \/ StopConnecting \/ CloseTracker \/ Exit
  <2>1. UNCHANGED <<connected, shutdown, pc, peer, counters, monitoring, moves, receiving>>
    BY <1>2 DEF ConnectClient, StopConnecting, CloseTracker, Exit, player
  <2>2. /\ main' \in {"dialing", "waiting", "closing", "exited", "failed"}
        /\ main' = "dialing" => connected < MaxClients
        /\ keyboard' \in {keyboard, "poll"}
    BY <1>2 DEF ConnectClient, StopConnecting, CloseTracker, Exit, player
  <2>3. DummyTypeOK'
    BY <2>1, <2>2 DEF counters, monitoring, DummyInv, DummyTypeOK
  <2>4. CountInv'
    BY <2>1 DEF counters, CountInv, At, DummyInv
  <2>5. main' = "exited" => \A c \in Clients : pc[c] \in {"none", "done"}
    BY <1>2 DEF ConnectClient, StopConnecting, CloseTracker, Exit
  <2>6. AllDone' /\ DialInv'
    BY <2>1, <2>2, <2>5 DEF AllDone, DialInv
  <2> QED
    BY <2>3, <2>4, <2>6 DEF DummyInv
<1> QED
  BY <1>1, <1>2 DEF MainStep

(* The keyboard thread and the signal. *)
LEMMA KeyboardKeeps ==
    ASSUME DummyInv, KeyboardStep \/ Interrupt
    PROVE  DummyInv'
<1>1. /\ UNCHANGED <<main, connected, pc, peer, counters, monitoring, receiving>>
      /\ shutdown' \in {shutdown, TRUE}
      /\ keyboard' \in {keyboard, "poll", "send", "ended"}
      /\ moves' = moves \/ (moves < MoveQueue /\ moves' = moves + 1)
  BY DEF KeyboardStep, KeyPressed, SendMove, KeyboardStops, Interrupt, process, player
<1>2. moves' \in 0..MoveQueue
  BY <1>1 DEF DummyInv, DummyTypeOK
<1>3. shutdown' \in BOOLEAN /\ keyboard' \in {"off", "idle", "poll", "send", "ended"}
  BY <1>1 DEF DummyInv, DummyTypeOK
<1>4. DummyTypeOK'
  BY <1>1, <1>2, <1>3 DEF counters, monitoring, DummyInv, DummyTypeOK
<1>5. CountInv' /\ AllDone' /\ DialInv'
  BY <1>1 DEF counters, CountInv, At, AllDone, DialInv, DummyInv
<1> QED
  BY <1>4, <1>5 DEF DummyInv

(* The monitor. *)
LEMMA MonitorKeeps ==
    ASSUME DummyInv, Monitor
    PROVE  DummyInv'
<1>1. UNCHANGED <<process, pc, peer, counters, player>>
  BY DEF Monitor, LoadLogin, LoadGame, LogLine
<1>2. /\ monitor' \in {"sleep", "game", "disconnected"}
      /\ passed' \in {passed, 0}
  BY DEF Monitor, LoadLogin, LoadGame, LogLine
<1>3. seen' \in [login : Int, game : Int]
  BY DEF Monitor, LoadLogin, LoadGame, LogLine, NothingSeen, DummyInv, DummyTypeOK
<1>4. DummyTypeOK'
  BY <1>1, <1>2, <1>3 DEF process, counters, player, DummyInv, DummyTypeOK
<1>5. CountInv' /\ AllDone' /\ DialInv'
  BY <1>1 DEF process, counters, CountInv, At, AllDone, DialInv, DummyInv
<1> QED
  BY <1>4, <1>5 DEF DummyInv

LEMMA DummyInvNext == DummyInv /\ [Next]_vars => DummyInv'
<1> SUFFICES ASSUME DummyInv, [Next]_vars PROVE DummyInv'
  OBVIOUS
<1>1. ASSUME Running, NEW c \in Clients, Client(c) PROVE DummyInv'
  <2>1. DummyTypeOK' /\ CountInv'
    BY <1>1, ClientTypes, ClientCounts
  <2>2. main' = main /\ connected' = connected
    BY <1>1 DEF Client, Counting, Awaiting, Cancelled, Sent, ConnectGame, RecvMove,
         LoginMessage, GameMessage, GameClosed, KeepAliveTick, LoginCancelled,
         GameCancelled, OnLoginStarted, OnMovedToGame, OnDisconnected, Finish, process
  <2> QED
    BY <1>1, <2>1, <2>2 DEF DummyInv, AllDone, DialInv, Running
<1>2. CASE UNCHANGED vars
  BY <1>2 DEF vars, process, counters, monitoring, player, DummyInv, DummyTypeOK,
              CountInv, At, AllDone, DialInv
<1> QED
  BY <1>1, <1>2, MainKeeps, KeyboardKeeps, MonitorKeeps DEF Next

LEMMA DummyInvInit == Init => DummyInv
<1> SUFFICES ASSUME Init PROVE DummyInv
  OBVIOUS
<1>1. At(pc, CountedLogin) = {} /\ At(pc, CountedGame) = {} /\ At(pc, CountedDone) = {}
  BY DEF Init, At, CountedLogin, CountedGame, CountedDone
<1>2. CountInv
  BY <1>1, FS_EmptySet DEF Init, CountInv
<1>3. /\ "none" \in PCs /\ \A c \in Clients : c > 0
  BY DEF PCs, Clients
<1>4. /\ connected \in 0..MaxClients /\ moves \in 0..MoveQueue
      /\ loginServer \in Int /\ gameServer \in Int /\ disconnected \in Nat
      /\ seen \in [login : Int, game : Int] /\ passed \in Nat
  BY DEF Init, NothingSeen
<1>5. DummyTypeOK
  BY <1>3, <1>4 DEF Init, DummyTypeOK
<1> QED
  BY <1>2, <1>5 DEF Init, DummyInv, AllDone, DialInv

LEMMA DummyInvAlways == Spec => []DummyInv
  BY DummyInvInit, DummyInvNext, PTL DEF Spec

(* The clients, their places and the channel stay well typed, and a task    *)
(* has been spawned exactly for the first `connected` of them.              *)
THEOREM DummyTyped == Spec => []DummyTypeOK
<1>1. DummyInv => DummyTypeOK
  BY DEF DummyInv
<1> QED
  BY <1>1, DummyInvAlways, PTL

(* The places of the three counters are apart. *)
LEMMA CountersSum ==
    ASSUME DummyInv
    PROVE  CountersAgree
<1> DEFINE A == At(pc, CountedLogin)
           B == At(pc, CountedGame)
           C == At(pc, CountedDone)
           born == 1..connected
<1>1. connected \in 0..MaxClients /\ \A c \in Clients : pc[c] = "none" <=> c > connected
  BY DEF DummyInv, DummyTypeOK
<1>2. IsFiniteSet(born) /\ Cardinality(born) = connected
  BY <1>1, FS_Interval
<1>3. A \cap B = {} /\ (A \cup B) \cap C = {}
  BY DEF At, CountedLogin, CountedGame, CountedDone
<1>4. (A \cup B) \cup C \in SUBSET born
  <2> SUFFICES ASSUME NEW c \in Clients,
                      pc[c] \in CountedLogin \cup CountedGame \cup CountedDone
               PROVE  c \in born
    BY DEF At
  <2>1. pc[c] # "none" /\ c \in Nat /\ c >= 1
    BY DEF CountedLogin, CountedGame, CountedDone, Clients
  <2> QED
    BY <1>1, <2>1
<1>5. /\ IsFiniteSet(A) /\ IsFiniteSet(B) /\ IsFiniteSet(C)
      /\ Cardinality(A) \in Nat /\ Cardinality(B) \in Nat /\ Cardinality(C) \in Nat
  BY AtFinite
<1> HIDE DEF A, B, C, born
<1>6. /\ IsFiniteSet(A \cup B)
      /\ Cardinality(A \cup B) = Cardinality(A) + Cardinality(B)
  <2>1. Cardinality(A \cup B) = Cardinality(A) + Cardinality(B) - Cardinality(A \cap B)
        /\ IsFiniteSet(A \cup B)
    BY <1>5, FS_Union
  <2>2. Cardinality(A \cap B) = 0
    BY <1>3, FS_EmptySet
  <2> QED
    BY <1>5, <2>1, <2>2
<1>7. Cardinality((A \cup B) \cup C) = Cardinality(A) + Cardinality(B) + Cardinality(C)
  <2>1. Cardinality((A \cup B) \cup C)
            = Cardinality(A \cup B) + Cardinality(C) - Cardinality((A \cup B) \cap C)
    BY <1>5, <1>6, FS_Union
  <2>2. Cardinality((A \cup B) \cap C) = 0
    BY <1>3, FS_EmptySet
  <2> QED
    BY <1>5, <1>6, <2>1, <2>2
<1>8. Cardinality((A \cup B) \cup C) <= connected
  BY <1>2, <1>4, FS_Subset
<1>9. /\ loginServer = Cardinality(A) /\ gameServer = Cardinality(B)
      /\ disconnected = Cardinality(C)
  BY DEF DummyInv, CountInv, A, B, C
<1>10. ASSUME main = "exited"
       PROVE  loginServer = 0 /\ gameServer = 0 /\ disconnected = connected
  <2>1. \A c \in Clients : pc[c] \in {"none", "done"}
    BY <1>10 DEF DummyInv, AllDone
  <2>2. A = {} /\ B = {}
    BY <2>1 DEF A, B, At, CountedLogin, CountedGame
  <2>3. born \subseteq Clients /\ \A c \in born : c <= connected /\ c \in Nat
    BY <1>1 DEF born, Clients
  <2>4. born \subseteq C
    <3> SUFFICES ASSUME NEW c \in born PROVE c \in C
      OBVIOUS
    <3>1. c \in Clients /\ ~(c > connected)
      BY <1>1, <2>3
    <3> QED
      BY <1>1, <2>1, <3>1 DEF C, At, CountedDone
  <2>5. C = born
    BY <1>4, <2>4
  <2> QED
    BY <1>2, <1>9, <2>2, <2>5, FS_EmptySet
<1>11. /\ loginServer >= 0 /\ gameServer >= 0
       /\ loginServer + gameServer + disconnected <= connected
  BY <1>5, <1>7, <1>8, <1>9
<1> QED
  BY <1>10, <1>11 DEF CountersAgree

-----------------------------------------------------------------------------
(* The monitor's line *)

(* What has been loaded, with the counters that are still to be loaded.     *)
LineInv ==
    /\ monitor = "game" =>
          /\ seen.login >= 0
          /\ seen.login + gameServer + disconnected <= connected + passed
    /\ monitor = "disconnected" =>
          /\ seen.login >= 0 /\ seen.game >= 0
          /\ seen.login + seen.game + disconnected <= connected + passed

(* The numbers LineInv speaks of. *)
LineNumbers ==
    /\ connected \in Nat /\ passed \in Nat
    /\ loginServer \in Int /\ gameServer \in Int /\ disconnected \in Int
    /\ seen.login \in Int /\ seen.game \in Int

LEMMA LineTyped == ASSUME DummyInv PROVE LineNumbers
BY DEF DummyInv, DummyTypeOK, LineNumbers

LEMMA ClientLine ==
    ASSUME DummyInv, LineInv, NEW c \in Clients, Client(c)
    PROVE  LineInv'
<1>1. LineNumbers
  BY LineTyped
<1>2. UNCHANGED <<connected, monitor, seen>>
  BY DEF Client, Counting, Awaiting, Cancelled, Sent, ConnectGame, RecvMove,
         LoginMessage, GameMessage, GameClosed, KeepAliveTick, LoginCancelled,
         GameCancelled, OnLoginStarted, OnMovedToGame, OnDisconnected, Finish,
         process, monitoring
<1>3. CASE UNCHANGED <<gameServer, disconnected, passed>>
  BY <1>2, <1>3 DEF LineInv
<1>4. CASE OnMovedToGame(c) /\ pc[c] = "moving"
  <2>1. /\ gameServer' = gameServer + 1 /\ disconnected' = disconnected
        /\ passed' = IF monitor = "game" THEN passed + 1 ELSE passed
    BY <1>4 DEF OnMovedToGame, CountedBefore
  <2> QED
    BY <1>1, <1>2, <2>1 DEF LineInv, LineNumbers
<1>5. CASE OnDisconnected(c)
  <2>1. /\ gameServer' \in {gameServer, gameServer - 1}
        /\ disconnected' = disconnected /\ passed' = passed
    BY <1>5 DEF OnDisconnected, monitoring
  <2> QED
    BY <1>1, <1>2, <2>1 DEF LineInv, LineNumbers
<1>6. CASE Finish(c)
  <2>1. /\ gameServer' = gameServer /\ disconnected' = disconnected + 1
        /\ passed' = IF monitor \in {"game", "disconnected"} THEN passed + 1 ELSE passed
    BY <1>6 DEF Finish, CountedBefore
  <2> QED
    BY <1>1, <1>2, <2>1 DEF LineInv, LineNumbers
<1>7. CASE OnLoginStarted(c) \/ (OnMovedToGame(c) /\ pc[c] # "moving")
  BY <1>3, <1>7 DEF OnLoginStarted, OnMovedToGame, monitoring
<1>8. CASE Awaiting(c) \/ Cancelled(c) \/ Sent(c) \/ ConnectGame(c) \/ RecvMove(c)
  BY <1>3, <1>8 DEF Awaiting, Cancelled, Sent, ConnectGame, RecvMove, LoginMessage,
      GameMessage, GameClosed, KeepAliveTick, LoginCancelled, GameCancelled,
      counters, monitoring
<1> QED
  BY <1>4, <1>5, <1>6, <1>7, <1>8 DEF Client, Counting

(* The first load finds counters that agree. *)
LEMMA MonitorLine ==
    ASSUME DummyInv, LineInv, Monitor
    PROVE  LineInv'
<1>1. LineNumbers /\ CountersAgree
  BY LineTyped, CountersSum
<1>2. UNCHANGED <<connected, loginServer, gameServer, disconnected>>
  BY DEF Monitor, LoadLogin, LoadGame, LogLine, process, counters
<1>3. CASE LoadLogin
  <2>1. monitor' = "game" /\ seen'.login = loginServer /\ passed' = passed
    BY <1>3 DEF LoadLogin, DummyInv, DummyTypeOK
  <2> QED
    BY <1>1, <1>2, <2>1 DEF LineInv, LineNumbers, CountersAgree
<1>4. CASE LoadGame
  <2>1. /\ monitor = "game" /\ monitor' = "disconnected" /\ passed' = passed
        /\ seen'.login = seen.login /\ seen'.game = gameServer
    BY <1>4 DEF LoadGame, DummyInv, DummyTypeOK
  <2> QED
    BY <1>1, <1>2, <2>1 DEF LineInv, LineNumbers, CountersAgree
<1>5. CASE LogLine
  BY <1>5 DEF LogLine, LineInv
<1> QED
  BY <1>3, <1>4, <1>5 DEF Monitor

LEMMA LineInvNext == DummyInv /\ LineInv /\ [Next]_vars => LineInv'
<1> SUFFICES ASSUME DummyInv, LineInv, [Next]_vars PROVE LineInv'
  OBVIOUS
<1>1. LineNumbers
  BY LineTyped
<1>2. CASE /\ UNCHANGED <<gameServer, disconnected, monitoring>>
           /\ connected' \in {connected, connected + 1}
  BY <1>1, <1>2 DEF LineInv, LineNumbers, monitoring
<1>3. CASE MainStep \/ Interrupt \/ KeyboardStep \/ UNCHANGED vars
  BY <1>2, <1>3 DEF MainStep, ConnectClient, Dialed, StopConnecting, CloseTracker,
      Exit, Interrupt, KeyboardStep, KeyPressed, SendMove, KeyboardStops, process,
      counters, vars
<1> QED
  BY <1>3, ClientLine, MonitorLine DEF Next

(* The counters are never negative, never count a client twice and count    *)
(* each as disconnected when main returns, and a line of the monitor counts *)
(* one more only for a client that was counted anew while it was read, for  *)
(* any number of clients (Counters, monitor).                               *)
THEOREM CountersAddUp == Spec => []CountersHonest
<1>1. Init => LineInv
  BY DEF Init, LineInv
<1>2. DummyInv /\ LineInv => CountersHonest
  <2> SUFFICES ASSUME DummyInv, LineInv PROVE CountersHonest
    OBVIOUS
  <2>1. CountersAgree
    BY CountersSum
  <2>2. disconnected >= 0
    BY DEF DummyInv, DummyTypeOK
  <2> QED
    BY <2>1, <2>2 DEF CountersHonest, LineHonest, LineInv
<1> QED
  BY <1>1, <1>2, LineInvNext, DummyInvAlways, PTL DEF Spec
=============================================================================
