---------------------------- MODULE CodexAccount ----------------------------
(***************************************************************************)
(* The Codex connection: services/llm_providers/openai_codex.py.  One lock *)
(* guards the sign-in attempt and its callback server, which handles its   *)
(* requests in one thread; stopping the server waits for that thread.  The *)
(* token file has no lock: runs and status polls read it, refresh the      *)
(* session at the provider and write it, and may import the login of the   *)
(* Codex command line.                                                     *)
(***************************************************************************)
EXTENDS Naturals

CONSTANTS Callers  \* threads that need the session

VARIABLES
  stored,     \* the token file is there
  expiring,   \* its access token is about to expire
  marker,     \* the tombstone beside it
  home,       \* there is a login of the Codex command line to import
  attempt,    \* a sign-in attempt is pending
  server,     \* its callback server
  handler,    \* what the thread of the server does next
  lock,       \* who holds the lock while a server stops
  caller,     \* what a thread does next
  away,       \* history: the last thing the user did was to disconnect
  flights     \* history: requests and imports that had begun by then

codexVars == <<stored, expiring, marker, home, attempt, server, handler, lock, caller, away,
               flights>>

CodexInit ==
  /\ stored \in BOOLEAN /\ expiring \in BOOLEAN /\ marker = FALSE /\ home \in BOOLEAN
  /\ attempt = FALSE /\ server = FALSE /\ handler = "idle" /\ lock = "free"
  /\ caller = [c \in Callers |-> "idle"]
  /\ away = FALSE /\ flights = {}

(* _save_tokens also removes the tombstone; an imported login may be an old one. *)
SaveTokens == stored' = TRUE /\ expiring' \in BOOLEAN /\ marker' = FALSE

-----------------------------------------------------------------------------
(* Connect and disconnect.                                                 *)

(* start_oauth and disconnect take the lock and stop the server. *)
Takes(op) ==
  /\ lock = "free"
  /\ lock' = op /\ server' = FALSE
  /\ away' = FALSE /\ flights' = {}
  /\ UNCHANGED <<stored, expiring, marker, home, attempt, handler, caller>>

(* _stop_server_locked: shutdown() returns when the server's thread is idle.
   Then the new server starts, or its port is taken.                        *)
ConnectEnds ==
  /\ lock = "start" /\ handler = "idle"
  /\ lock' = "free"
  /\ attempt' = TRUE /\ server' \in BOOLEAN
  /\ UNCHANGED <<stored, expiring, marker, home, handler, caller, away, flights>>

DisconnectDeletes ==
  /\ lock = "disconnect" /\ handler = "idle"
  /\ lock' = "marking"
  /\ attempt' = FALSE /\ stored' = FALSE
  /\ UNCHANGED <<expiring, marker, home, server, handler, caller, away, flights>>

DisconnectEnds ==
  /\ lock = "marking"
  /\ lock' = "free"
  /\ marker' = TRUE
  /\ away' = TRUE /\ flights' = {c \in Callers : caller[c] # "idle"}
  /\ UNCHANGED <<stored, expiring, home, attempt, server, handler, caller>>

-----------------------------------------------------------------------------
(* The callback, in the thread of the server.                              *)

CallbackArrives ==
  /\ server /\ handler = "idle"
  /\ handler' = "arrived"
  /\ UNCHANGED <<stored, expiring, marker, home, attempt, server, lock, caller, away, flights>>

(* complete_oauth_from_callback reads the attempt under the lock; without one, or
   with the state of another one, it ends.                                  *)
ReadAttempt ==
  /\ handler = "arrived" /\ lock = "free"
  /\ handler' = "idle" \/ (attempt /\ handler' = "exchange")
  /\ UNCHANGED <<stored, expiring, marker, home, attempt, server, lock, caller, away, flights>>

ExchangeFails ==
  /\ handler = "exchange"
  /\ handler' = "idle"
  /\ UNCHANGED <<stored, expiring, marker, home, attempt, server, lock, caller, away, flights>>

ExchangeSaves ==
  /\ handler = "exchange"
  /\ SaveTokens
  /\ handler' = "closing"
  /\ UNCHANGED <<home, attempt, server, lock, caller, away, flights>>

(* The attempt is over; another thread stops the server. *)
CallbackCloses ==
  /\ handler = "closing" /\ lock = "free"
  /\ attempt' = FALSE /\ server' = FALSE
  /\ handler' = "idle"
  /\ UNCHANGED <<stored, expiring, marker, home, lock, caller, away, flights>>

-----------------------------------------------------------------------------
(* The session.                                                            *)

(* ensure_access_token: a session about to expire is sent to be renewed, another
   one is used in a request.                                                *)
UseSession(c) ==
  /\ caller[c] = "idle" /\ stored
  /\ caller' = [caller EXCEPT ![c] = IF expiring THEN "refresh" ELSE "request"]
  /\ UNCHANGED <<stored, expiring, marker, home, attempt, server, handler, lock, away, flights>>

(* After a 401 the session read before the request is renewed. *)
Unauthorized(c) ==
  /\ caller[c] = "request"
  /\ caller' = [caller EXCEPT ![c] = "refresh"]
  /\ UNCHANGED <<stored, expiring, marker, home, attempt, server, handler, lock, away, flights>>

(* Mutant: the tombstone is not looked for. *)
StartImportAnyway(c) ==
  /\ caller[c] = "idle" /\ ~stored /\ home
  /\ caller' = [caller EXCEPT ![c] = "import"]
  /\ UNCHANGED <<stored, expiring, marker, home, attempt, server, handler, lock, away, flights>>

(* _maybe_import_codex_home, when status() finds neither token nor tombstone *)
StartImport(c) ==
  /\ caller[c] = "idle" /\ ~stored /\ ~marker /\ home
  /\ caller' = [caller EXCEPT ![c] = "import"]
  /\ UNCHANGED <<stored, expiring, marker, home, attempt, server, handler, lock, away, flights>>

Returns(c) == caller' = [caller EXCEPT ![c] = "idle"] /\ flights' = flights \ {c}

(* The renewed or imported session is written, whatever happened meanwhile. *)
SaveSession(c) ==
  /\ caller[c] \in {"refresh", "import"}
  /\ SaveTokens /\ Returns(c)
  /\ UNCHANGED <<home, attempt, server, handler, lock, away>>

(* A request is answered, or fails. *)
SessionEnds(c) ==
  /\ caller[c] \in {"request", "refresh"}
  /\ Returns(c)
  /\ UNCHANGED <<stored, expiring, marker, home, attempt, server, handler, lock, away>>

SessionAges ==
  /\ stored /\ ~expiring
  /\ expiring' = TRUE
  /\ UNCHANGED <<stored, marker, home, attempt, server, handler, lock, caller, away, flights>>

(* The user signs in to the Codex command line, or out of it. *)
HomeChanges ==
  /\ home' = ~home
  /\ UNCHANGED <<stored, expiring, marker, attempt, server, handler, lock, caller, away, flights>>

RestartCodex ==
  /\ attempt' = FALSE /\ server' = FALSE /\ handler' = "idle" /\ lock' = "free"
  /\ caller' = [c \in Callers |-> "idle"] /\ flights' = {}
  /\ UNCHANGED <<stored, expiring, marker, home, away>>

-----------------------------------------------------------------------------
SignsIn == ConnectEnds \/ CallbackArrives \/ ReadAttempt \/ ExchangeFails \/ ExchangeSaves \/ CallbackCloses

Session(c) == \/ UseSession(c) \/ Unauthorized(c) \/ StartImport(c)
              \/ SaveSession(c) \/ SessionEnds(c)

CodexNext == \/ \E op \in {"start", "disconnect"} : Takes(op)
             \/ DisconnectDeletes \/ DisconnectEnds \/ SignsIn
             \/ \E c \in Callers : Session(c)
             \/ SessionAges \/ HomeChanges \/ RestartCodex

CodexSpec == CodexInit /\ [][CodexNext]_codexVars

(* Requests end, and a thread that can have the lock gets it. *)
CodexFairSpec ==
  /\ CodexSpec
  /\ WF_codexVars(ConnectEnds)
  /\ WF_codexVars(DisconnectDeletes) /\ WF_codexVars(DisconnectEnds)
  /\ WF_codexVars(ReadAttempt)
  /\ WF_codexVars(ExchangeFails \/ ExchangeSaves) /\ WF_codexVars(CallbackCloses)
-----------------------------------------------------------------------------
CodexTypeOK ==
  /\ {stored, expiring, marker, home, attempt, server, away} \subseteq BOOLEAN
  /\ handler \in {"idle", "arrived", "exchange", "closing"}
  /\ lock \in {"free", "start", "disconnect", "marking"}
  /\ caller \in [Callers -> {"idle", "request", "refresh", "import"}]
  /\ flights \subseteq Callers

(* docs/openai-codex-oauth.md:30: "Disconnecting removes the CAE token and
   suppresses automatic re-import until the next explicit connection".  It
   does not hold: see OnlyFlightsReturn.                                    *)
DisconnectHolds == away => ~stored

(* What does hold after Disconnect: no session appears but by a request that was
   sent, or an import that was begun, before it; a status poll that starts
   afterwards imports nothing.                                              *)
OnlyFlightsReturn ==
  [][away /\ ~stored /\ stored' => \E c \in flights : caller'[c] = "idle"]_codexVars

(* The same sentence of the docs.  The comment at openai_codex.py:548 knows that
   to stop the server from its own thread would deadlock, and avoids it; a
   Disconnect during a callback stops the server with the lock in its hand, and
   the callback waits for the lock.                                         *)
DisconnectDeletesToken == lock = "disconnect" ~> lock = "free"
=============================================================================
