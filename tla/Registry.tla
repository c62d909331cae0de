------------------------------ MODULE Registry ------------------------------
(***************************************************************************)
(* crates/net/src/registry.rs: the directory of connected sessions that    *)
(* LoginServer and GameServer each keep, and the user_id -> session map     *)
(* behind the duplicate-login kick.  All of it sits behind one Mutex, so    *)
(* every method is one atomic step.                                         *)
(*                                                                         *)
(* The servers' own modules EXTEND this one and take its actions as         *)
(* conjuncts of theirs; RegistrySpec is what the registry promises to any   *)
(* caller that uses a session id once.                                      *)
(***************************************************************************)
EXTENDS Naturals, FiniteSets

CONSTANTS Session,     \* the ids net::session_id::generate hands out
          User,        \* user_id values
          NoUser,      \* Entry.user_id = None
          NoSession    \* no entry for a user in Inner.authenticated

ASSUME RegistryAssumption == NoUser \notin User /\ NoSession \notin Session

VARIABLES issued,        \* ids generated so far; the counter never repeats one
          sessions,      \* keys of Inner.sessions
          userOf,        \* Entry.user_id of each registered session
          authenticated, \* Inner.authenticated
          cancelled,     \* sessions whose kick token was cancelled directly
          switched       \* history: sessions that authenticated as a second user

registryVars ==
    <<issued, sessions, userOf, authenticated, cancelled, switched>>

RegistryTypeOK ==
    /\ issued \subseteq Session
    /\ sessions \subseteq issued
    /\ userOf \in [Session -> User \cup {NoUser}]
    /\ authenticated \in [User -> Session \cup {NoSession}]
    /\ cancelled \subseteq Session
    /\ switched \subseteq Session

RegistryInit ==
    /\ issued = {}
    /\ sessions = {}
    /\ userOf = [s \in Session |-> NoUser]
    /\ authenticated = [u \in User |-> NoSession]
    /\ cancelled = {}
    /\ switched = {}

-----------------------------------------------------------------------------
(* The methods.  A session that is not registered has userOf = NoUser.      *)

(* Mutant: an id may be handed out again. *)
RegisterReusesId(s) ==
    /\ sessions' = sessions \cup {s}
    /\ userOf' = [userOf EXCEPT ![s] = NoUser]
    /\ UNCHANGED <<issued, authenticated, cancelled, switched>>

(* session_id::generate followed by register. *)
Register(s) ==
    /\ s \notin issued
    /\ issued' = issued \cup {s}
    /\ sessions' = sessions \cup {s}
    /\ userOf' = [userOf EXCEPT ![s] = NoUser]
    /\ UNCHANGED <<authenticated, cancelled, switched>>

(* Mutant: the mapping of the user is erased whoever holds it. *)
RemoveAnyHolder(s) ==
    /\ sessions' = sessions \ {s}
    /\ userOf' = [userOf EXCEPT ![s] = NoUser]
    /\ authenticated' = [u \in User |-> IF userOf[s] = u THEN NoSession
                                        ELSE authenticated[u]]
    /\ UNCHANGED <<issued, cancelled, switched>>

(* Mutant: the mapping is never erased. *)
RemoveKeepsMapping(s) ==
    /\ sessions' = sessions \ {s}
    /\ userOf' = [userOf EXCEPT ![s] = NoUser]
    /\ UNCHANGED <<issued, authenticated, cancelled, switched>>

(* The mapping goes only if it still points to s: a newer session of the    *)
(* same user may have taken it over.                                        *)
Remove(s) ==
    /\ sessions' = sessions \ {s}
    /\ userOf' = [userOf EXCEPT ![s] = NoUser]
    /\ authenticated' = [u \in User |-> IF userOf[s] = u /\ authenticated[u] = s
                                        THEN NoSession ELSE authenticated[u]]
    /\ UNCHANGED <<issued, cancelled, switched>>

(* The session a login of u by s displaces: the mapped one, if it is        *)
(* another one and still registered.                                        *)
Displaced(s, u) == {authenticated[u]} \cap (sessions \ {s})

(* Mutant: the mapped session is compared with the wrong side and survives. *)
AuthenticateNoKick(s, u) ==
    /\ userOf' = IF s \in sessions THEN [userOf EXCEPT ![s] = u] ELSE userOf
    /\ authenticated' = [authenticated EXCEPT ![u] = s]
    /\ switched' = IF userOf[s] \in {NoUser, u} THEN switched
                   ELSE switched \cup {s}
    /\ UNCHANGED <<issued, sessions, cancelled>>

(* Mutant: every other session of the server is kicked. *)
AuthenticateKicksAll(s, u) ==
    /\ userOf' = IF s \in sessions THEN [userOf EXCEPT ![s] = u] ELSE userOf
    /\ authenticated' = [authenticated EXCEPT ![u] = s]
    /\ cancelled' = cancelled \cup (sessions \ {s})
    /\ switched' = IF userOf[s] \in {NoUser, u} THEN switched
                   ELSE switched \cup {s}
    /\ UNCHANGED <<issued, sessions>>

(* The code does not look at the user the entry had before: `switched`      *)
(* records that it was another one.                                         *)
Authenticate(s, u) ==
    /\ userOf' = IF s \in sessions THEN [userOf EXCEPT ![s] = u] ELSE userOf
    /\ authenticated' = [authenticated EXCEPT ![u] = s]
    /\ cancelled' = cancelled \cup Displaced(s, u)
    /\ switched' = IF userOf[s] \in {NoUser, u} THEN switched
                   ELSE switched \cup {s}
    /\ UNCHANGED <<issued, sessions>>

(* AdminApi's forced disconnect; the result is s \in sessions. *)
Disconnect(s) ==
    /\ cancelled' = cancelled \cup ({s} \cap sessions)
    /\ UNCHANGED <<issued, sessions, userOf, authenticated, switched>>

(* The writer task, which owns a clone of the token, cancels it on a write  *)
(* error, registered or not.                                                *)
CancelKick(s) ==
    /\ cancelled' = cancelled \cup {s}
    /\ UNCHANGED <<issued, sessions, userOf, authenticated, switched>>

RegistryNext ==
    \E s \in Session :
        \/ Register(s)
        \/ s \in sessions /\ Remove(s)
        \/ \E u \in User : s \in sessions /\ Authenticate(s, u)
        \/ Disconnect(s)
        \/ CancelKick(s)

RegistrySpec == RegistryInit /\ [][RegistryNext]_registryVars

-----------------------------------------------------------------------------
(* Properties *)

(* A registered session that authenticated as u either holds u's mapping    *)
(* or has been kicked (registry.rs authenticate/remove): no session of a    *)
(* user is ever forgotten by the map while it still runs.                   *)
OwnerOrKicked ==
    \A s \in sessions :
        userOf[s] # NoUser => authenticated[userOf[s]] = s \/ s \in cancelled

(* Duplicate-login kick: of two registered sessions of one user at most one *)
(* has not been told to stop.                                               *)
OneLiveSessionPerUser ==
    \A s, t \in sessions :
        s # t /\ userOf[s] = userOf[t] /\ userOf[s] # NoUser
            => s \in cancelled \/ t \in cancelled

(* The map points to a session that runs as that user; the only entries     *)
(* that can be stale are those of a session that authenticated twice under  *)
(* different user ids.                                                      *)
MappingIsCurrent ==
    \A u \in User : \A s \in Session :
        authenticated[u] = s =>
            (s \in sessions /\ userOf[s] = u) \/ s \in switched

(* A login of u kicks only a session that runs as u, unless that session    *)
(* authenticated a second time as somebody else (registry.rs authenticate). *)
KickOnlyDuplicates ==
    [][\A s \in sessions, u \in User :
          s \in cancelled' \ cancelled /\ authenticated'[u] # authenticated[u]
              => userOf[s] = u \/ s \in switched]_registryVars
=============================================================================
