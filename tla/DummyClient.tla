---------------------------- MODULE DummyClient ----------------------------
(***************************************************************************)
(* crates/dummy_client: main connects the clients, each client task runs    *)
(* its login phase and its game phase, a thread turns key presses into      *)
(* moves of the first client, a monitor logs the counters, and a shutdown   *)
(* ends them all.                                                           *)
(***************************************************************************)
EXTENDS Integers

CONSTANTS MaxClients,  \* max_client_count
          MoveQueue    \* capacity of the player's channel of moves

ASSUME ClientAssumption == MaxClients \in Nat \ {0} /\ MoveQueue \in Nat \ {0}

VARIABLES main,         \* "connecting", "dialing", "waiting", "closing", "exited", "failed"
          connected,    \* client tasks spawned so far
          pc,           \* where each client task is
          peer,         \* what its server did: "greeting", "asked", "granted", "refused"
          loginServer,  \* Counters
          gameServer,
          disconnected,
          monitor,      \* "sleep", or the counter it loads next
          seen,         \* what it has loaded for the line it is about to log
          passed,       \* history: clients that were counted anew meanwhile
          keyboard,     \* "off", "idle", "poll", "send", "ended"
          moves,        \* moves in the player's channel
          receiving,    \* the player still holds the receiver
          shutdown      \* the token

counters == <<loginServer, gameServer, disconnected>>
monitoring == <<monitor, seen, passed>>
player   == <<keyboard, moves, receiving>>
process  == <<main, connected, shutdown>>
vars == <<process, pc, peer, counters, monitoring, player>>

Clients == 1..MaxClients
Player == 1

InLogin == {"login", "loginSend"}
InGame  == {"connecting", "game", "gameSend"}
PCs == InLogin \cup InGame \cup
       {"none", "started", "moved", "moving", "leftLogin", "leftGame", "ended", "done"}

DummyTypeOK ==
    /\ main \in {"connecting", "dialing", "waiting", "closing", "exited", "failed"}
    /\ connected \in 0..MaxClients
    /\ pc \in [Clients -> PCs]
    /\ peer \in [Clients -> {"greeting", "asked", "granted", "refused"}]
    /\ loginServer \in Int /\ gameServer \in Int /\ disconnected \in Nat
    /\ monitor \in {"sleep", "game", "disconnected"}
    /\ seen \in [login : Int, game : Int] /\ passed \in Nat
    /\ keyboard \in {"off", "idle", "poll", "send", "ended"}
    /\ moves \in 0..MoveQueue
    /\ receiving \in BOOLEAN /\ shutdown \in BOOLEAN
    /\ \A c \in Clients : pc[c] = "none" <=> c > connected

NothingSeen == [login |-> 0, game |-> 0]

Init ==
    /\ main = "connecting" /\ connected = 0
    /\ pc = [c \in Clients |-> "none"]
    /\ peer = [c \in Clients |-> "greeting"]
    /\ loginServer = 0 /\ gameServer = 0 /\ disconnected = 0
    /\ monitor = "sleep" /\ seen = NothingSeen /\ passed = 0
    /\ keyboard \in {"off", "idle"}     \* a terminal or not
    /\ moves = 0 /\ receiving = TRUE
    /\ shutdown = FALSE

-----------------------------------------------------------------------------
(* main *)

(* Shutdown is looked at before each connect, not during it. *)
ConnectClient ==
    /\ main = "connecting" /\ ~shutdown
    /\ connected < MaxClients
    /\ main' = "dialing"
    /\ UNCHANGED <<connected, shutdown, pc, peer, counters, monitoring, player>>

Dialed ==
    /\ main = "dialing"
    /\ main' = "connecting"
    /\ connected' = connected + 1
    /\ pc' = [pc EXCEPT ![connected'] = "started"]
    /\ UNCHANGED <<shutdown, peer, counters, monitoring, player>>

(* Shutdown, the last client or a refused connection ends the loop; then    *)
(* the keyboard thread starts if there is a player and a terminal, and `?`  *)
(* ends the process if raw mode cannot be set.                              *)
StopConnecting ==
    /\ \/ main = "connecting" /\ (shutdown \/ connected = MaxClients)
       \/ main = "dialing"
    /\ IF keyboard = "idle" /\ connected > 0
       THEN \/ main' = "waiting" /\ keyboard' = "poll"
            \/ main' = "failed" /\ UNCHANGED keyboard
       ELSE main' = "waiting" /\ UNCHANGED keyboard
    /\ UNCHANGED <<connected, shutdown, pc, peer, counters, monitoring, moves, receiving>>

CloseTracker ==
    /\ main = "waiting" /\ shutdown
    /\ main' = "closing"
    /\ UNCHANGED <<connected, shutdown, pc, peer, counters, monitoring, player>>

(* TaskTracker::wait *)
Exit ==
    /\ main = "closing"
    /\ \A c \in Clients : pc[c] \in {"none", "done"}
    /\ main' = "exited"
    /\ UNCHANGED <<connected, shutdown, pc, peer, counters, monitoring, player>>

(* SIGINT from a terminal that is not raw, or from elsewhere. *)
Interrupt ==
    /\ shutdown' = TRUE
    /\ UNCHANGED <<main, connected, pc, peer, counters, monitoring, player>>

-----------------------------------------------------------------------------
(* The keyboard thread *)

KeyPressed ==
    /\ keyboard = "poll"
    /\ \/ keyboard' = "send" /\ UNCHANGED shutdown         \* a move
       \/ keyboard' = "ended" /\ shutdown' = TRUE          \* Q or Ctrl+C
       \/ keyboard' = "ended" /\ UNCHANGED shutdown        \* poll failed
    /\ UNCHANGED <<main, connected, pc, peer, counters, monitoring, moves, receiving>>

(* Mutant: a channel without a capacity. *)
SendMoveUnbounded ==
    /\ keyboard = "send"
    /\ moves' = moves + 1 /\ keyboard' = "poll"
    /\ UNCHANGED <<process, pc, peer, counters, monitoring, receiving>>

(* blocking_send; an error means that the player's session has ended. *)
SendMove ==
    /\ keyboard = "send"
    /\ \/ /\ receiving /\ moves < MoveQueue
          /\ moves' = moves + 1 /\ keyboard' = "poll"
       \/ ~receiving /\ keyboard' = "ended" /\ UNCHANGED moves
    /\ UNCHANGED <<process, pc, peer, counters, monitoring, receiving>>

KeyboardStops ==
    /\ keyboard = "poll" /\ shutdown
    /\ keyboard' = "ended"
    /\ UNCHANGED <<process, pc, peer, counters, monitoring, moves, receiving>>

-----------------------------------------------------------------------------
(* One client task: run *)

Goto(c, l) == pc' = [pc EXCEPT ![c] = l]

(* The receiver of the moves is dropped when game_phase or run returns. *)
Drops(c) == receiving' = (receiving /\ c # Player)

OnLoginStarted(c) ==
    /\ pc[c] = "started"
    /\ loginServer' = loginServer + 1
    /\ Goto(c, "login")
    /\ UNCHANGED <<process, peer, gameServer, disconnected, monitoring, player>>

(* History: a counter that is still to be loaded has gone up. *)
CountedBefore(loads) == passed' = IF monitor \in loads THEN passed + 1 ELSE passed

(* Mutant: the client is counted in the game before it leaves the login. *)
OnMovedToGameFirst(c) ==
    /\ \/ /\ pc[c] = "moved" /\ Goto(c, "moving")
          /\ gameServer' = gameServer + 1
          /\ CountedBefore({"game"})
          /\ UNCHANGED <<loginServer, peer>>
       \/ /\ pc[c] = "moving" /\ Goto(c, "connecting")
          /\ loginServer' = loginServer - 1
          /\ peer' = [peer EXCEPT ![c] = "greeting"]
          /\ UNCHANGED <<gameServer, passed>>
    /\ UNCHANGED <<process, disconnected, monitor, seen, player>>

(* on_moved_to_game: two counters, one after the other. *)
OnMovedToGame(c) ==
    /\ \/ /\ pc[c] = "moved" /\ Goto(c, "moving")
          /\ loginServer' = loginServer - 1
          /\ UNCHANGED <<gameServer, passed, peer>>
       \/ /\ pc[c] = "moving" /\ Goto(c, "connecting")
          /\ gameServer' = gameServer + 1
          /\ CountedBefore({"game"})
          /\ peer' = [peer EXCEPT ![c] = "greeting"]
          /\ UNCHANGED loginServer
    /\ UNCHANGED <<process, disconnected, monitor, seen, player>>

(* Mutant: on_disconnected always counts the login phase down. *)
OnDisconnectedWrongPhase(c) ==
    /\ pc[c] \in {"leftLogin", "leftGame"}
    /\ loginServer' = loginServer - 1
    /\ Goto(c, "ended")
    /\ UNCHANGED <<process, peer, gameServer, disconnected, monitoring, player>>

(* on_disconnected: the counter of the phase, then the total. *)
OnDisconnected(c) ==
    /\ \/ pc[c] = "leftLogin" /\ loginServer' = loginServer - 1 /\ UNCHANGED gameServer
       \/ pc[c] = "leftGame" /\ gameServer' = gameServer - 1 /\ UNCHANGED loginServer
    /\ Goto(c, "ended")
    /\ UNCHANGED <<process, peer, disconnected, monitoring, player>>

Finish(c) ==
    /\ pc[c] = "ended"
    /\ disconnected' = disconnected + 1
    /\ CountedBefore({"game", "disconnected"})
    /\ Drops(c)
    /\ Goto(c, "done")
    /\ UNCHANGED <<process, peer, loginServer, gameServer, monitor, seen, keyboard, moves>>

-----------------------------------------------------------------------------
(* login_phase: the frames of the server, and the shutdown *)

LoginMessage(c) ==
    /\ pc[c] = "login"
    /\ \/ /\ peer[c] = "greeting"               \* ConnectedResponse: send LoginRequest
          /\ peer' = [peer EXCEPT ![c] = "asked"] /\ Goto(c, "loginSend")
       \/ /\ peer[c] = "asked"                  \* LoginResponse with a token
          /\ Goto(c, "moved") /\ UNCHANGED peer
       \/ /\ peer[c] = "asked"                  \* a failure is only logged
          /\ peer' = [peer EXCEPT ![c] = "refused"] /\ UNCHANGED pc
       \/ Goto(c, "leftLogin") /\ UNCHANGED peer  \* closed, or a receive error
    /\ UNCHANGED <<process, counters, monitoring, player>>

(* Mutant: shutdown is only looked at before the request. *)
LoginCancelledEarly(c) ==
    /\ pc[c] = "login" /\ shutdown /\ peer[c] = "greeting"
    /\ Goto(c, "leftLogin")
    /\ UNCHANGED <<process, peer, counters, monitoring, player>>

LoginCancelled(c) ==
    /\ pc[c] = "login" /\ shutdown
    /\ Goto(c, "leftLogin")
    /\ UNCHANGED <<process, peer, counters, monitoring, player>>

(* A send in either phase does not look at shutdown. *)
Sent(c) ==
    /\ \/ pc[c] = "loginSend" /\ (Goto(c, "login") \/ Goto(c, "leftLogin")) /\ UNCHANGED receiving
       \/ pc[c] = "gameSend" /\ Goto(c, "game") /\ UNCHANGED receiving
       \/ pc[c] = "gameSend" /\ Goto(c, "leftGame") /\ Drops(c)
    /\ UNCHANGED <<process, peer, counters, monitoring, keyboard, moves>>

-----------------------------------------------------------------------------
(* game_phase *)

ConnectGame(c) ==
    /\ pc[c] = "connecting"
    /\ \/ Goto(c, "game") /\ UNCHANGED receiving
       \/ Goto(c, "leftGame") /\ Drops(c)         \* GameConnectFailed
    /\ UNCHANGED <<process, peer, counters, monitoring, keyboard, moves>>

GameMessage(c) ==
    /\ pc[c] = "game"
    /\ \/ /\ peer[c] = "greeting"               \* ConnectedResponse: send the token
          /\ peer' = [peer EXCEPT ![c] = "asked"] /\ Goto(c, "gameSend")
       \/ /\ peer[c] = "asked"                  \* GameConnectResponse
          /\ \E answer \in {"granted", "refused"} : peer' = [peer EXCEPT ![c] = answer]
          /\ UNCHANGED pc
    /\ UNCHANGED <<process, counters, monitoring, player>>

GameClosed(c) ==
    /\ pc[c] = "game"
    /\ Goto(c, "leftGame") /\ Drops(c)
    /\ UNCHANGED <<process, peer, counters, monitoring, keyboard, moves>>

GameCancelled(c) ==
    /\ pc[c] = "game" /\ shutdown
    /\ Goto(c, "leftGame") /\ Drops(c)
    /\ UNCHANGED <<process, peer, counters, monitoring, keyboard, moves>>

(* The keep-alive interval runs from the grant on. *)
KeepAliveTick(c) ==
    /\ pc[c] = "game" /\ peer[c] = "granted"
    /\ Goto(c, "gameSend")
    /\ UNCHANGED <<process, peer, counters, monitoring, player>>

(* Mutant: the branch is disabled until the server has let the client in. *)
RecvMoveGranted(c) ==
    /\ pc[c] = "game" /\ c = Player /\ moves > 0 /\ peer[c] = "granted"
    /\ moves' = moves - 1
    /\ Goto(c, "gameSend")
    /\ UNCHANGED <<process, peer, counters, monitoring, keyboard, receiving>>

(* A move is taken from the channel also before the grant, and then dropped. *)
RecvMove(c) ==
    /\ pc[c] = "game" /\ c = Player /\ moves > 0
    /\ moves' = moves - 1
    /\ IF peer[c] = "granted" THEN Goto(c, "gameSend") ELSE UNCHANGED pc
    /\ UNCHANGED <<process, peer, counters, monitoring, keyboard, receiving>>

-----------------------------------------------------------------------------
(* monitor: from time to time it logs a snapshot of the counters, which     *)
(* loads them one by one while the client tasks go on counting.  Nothing    *)
(* waits for it: that shutdown ends it shows only as a sleep without end.   *)

LoadLogin ==
    /\ monitor = "sleep"
    /\ monitor' = "game"
    /\ seen' = [seen EXCEPT !.login = loginServer]
    /\ UNCHANGED <<process, pc, peer, counters, passed, player>>

(* Mutant: the same counter is loaded twice. *)
LoadGameTwice ==
    /\ monitor = "game"
    /\ monitor' = "disconnected"
    /\ seen' = [seen EXCEPT !.game = loginServer]
    /\ UNCHANGED <<process, pc, peer, counters, passed, player>>

LoadGame ==
    /\ monitor = "game"
    /\ monitor' = "disconnected"
    /\ seen' = [seen EXCEPT !.game = gameServer]
    /\ UNCHANGED <<process, pc, peer, counters, passed, player>>

(* The last load, and the line is logged; the next starts from nothing.     *)
LogLine ==
    /\ monitor = "disconnected"
    /\ monitor' = "sleep"
    /\ seen' = NothingSeen /\ passed' = 0
    /\ UNCHANGED <<process, pc, peer, counters, player>>

-----------------------------------------------------------------------------
MainStep == ConnectClient \/ Dialed \/ StopConnecting \/ CloseTracker \/ Exit
KeyboardStep == KeyPressed \/ SendMove \/ KeyboardStops
Monitor == LoadLogin \/ LoadGame \/ LogLine
Counting(c) == OnLoginStarted(c) \/ OnMovedToGame(c) \/ OnDisconnected(c) \/ Finish(c)
Awaiting(c) == LoginMessage(c) \/ GameMessage(c) \/ GameClosed(c) \/ KeepAliveTick(c)
Cancelled(c) == LoginCancelled(c) \/ GameCancelled(c)

Client(c) ==
    \/ Counting(c) \/ Awaiting(c) \/ Cancelled(c)
    \/ Sent(c) \/ ConnectGame(c) \/ RecvMove(c)

Running == main \notin {"exited", "failed"}

Next ==
    \/ Running /\ (MainStep \/ Interrupt \/ KeyboardStep \/ Monitor)
    \/ Running /\ \E c \in Clients : Client(c)
    \/ ~Running /\ UNCHANGED vars

(* Tasks that can run do; a connect or a send ends, for the servers read or *)
(* the socket breaks; and since select! picks a ready branch at random, one *)
(* that is ready again and again is taken.  No server is assumed to answer. *)
Spec ==
    /\ Init /\ [][Next]_vars
    /\ WF_vars(Running /\ MainStep)
    /\ WF_vars(Running /\ (SendMove \/ KeyboardStops))
    /\ \A c \in Clients :
          /\ WF_vars(Running /\ (Counting(c) \/ Sent(c) \/ ConnectGame(c)))
          /\ SF_vars(Running /\ Cancelled(c))
          /\ SF_vars(Running /\ RecvMove(c))

-----------------------------------------------------------------------------
(* Properties *)

(* No interleaving of the tasks' increments makes a counter negative or     *)
(* counts a client twice, and when main returns every client is counted as  *)
(* disconnected (Counters).                                                 *)
CountersAgree ==
    /\ loginServer >= 0 /\ gameServer >= 0
    /\ loginServer + gameServer + disconnected <= connected
    /\ main = "exited" =>
          loginServer = 0 /\ gameServer = 0 /\ disconnected = connected

(* The line the monitor would log now may show more clients than there      *)
(* are, for snapshot loads the counters one by one: but no figure of it is  *)
(* negative, and it shows at most one too many for each client that moved   *)
(* on or ended before the counter that went up was loaded.                  *)
LineHonest ==
    monitor = "disconnected" =>
        /\ seen.login >= 0 /\ seen.game >= 0 /\ disconnected >= 0
        /\ seen.login + seen.game + disconnected <= connected + passed

(* Counters, at any instant and as Counters::snapshot reads them.           *)
CountersHonest == CountersAgree /\ LineHonest

(* Once shutdown is cancelled main returns, whatever phase the clients are  *)
(* in and though a refused login waits for a server that says no more       *)
(* (login_phase, game_phase, clients.wait).                                 *)
ShutdownExits == shutdown ~> ~Running

(* While the player is in its game phase the keyboard thread does not stay  *)
(* blocked on a full channel, also if the server has refused the player: a  *)
(* blocked thread would not see Q or Ctrl+C (blocking_send, recv_move).     *)
KeyPressesDrain ==
    keyboard = "send" /\ pc[Player] \in InGame ~> keyboard # "send" \/ ~Running
=============================================================================
