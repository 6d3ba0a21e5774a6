---------------------------- MODULE ChatGPTPlan ----------------------------
(***************************************************************************)
(* The ChatGPT plan connection: services/llm_providers/chatgpt_plan.py.    *)
(* One API process keeps the sign-in attempt in memory, under a mutex; the *)
(* accounts and their sessions are in a file that every reader and writer  *)
(* holds a file lock for, the judge's own process included.  The provider  *)
(* rotates a refresh token each time it is spent.                          *)
(*                                                                         *)
(* A sign-in attempt is named after the generation it was started in, and  *)
(* a session after its refresh token, numbered as they are minted.         *)
(***************************************************************************)
EXTENDS Integers, FiniteSets

CONSTANTS Accounts,
          Threads, JudgeProcesses,  \* who asks for an access token: in the API, a judge process
          MaxGeneration,    \* bound on the operations of the user
          MaxTokens,        \* bound on the sessions the provider mints
          NoAccount

ASSUME PlanAssumption ==
  /\ NoAccount \notin Accounts
  /\ Threads \cap JudgeProcesses = {} /\ {"disconnect", "free"} \cap (Threads \cup JudgeProcesses) = {}
  /\ MaxGeneration \in Nat /\ MaxTokens \in Nat

Users == Threads \cup JudgeProcesses
Attempts == 1..MaxGeneration
NoToken == 0
Refused == -1
NoHand == <<NoAccount, NoToken>>

VARIABLES
  selected,   \* the selected account            (the file)
  session,    \* the refresh token of each account
  access,     \* its access token: "none", "fresh", "due" for renewal, or "identity",
              \* without the scopes of plan use
  generation, \* of the provider object          (the API process)
  pending,    \* the attempt that waits for its callback, or 0
  opened,     \* the last attempt whose authorize_url was returned, or 0
  listener,   \* the callback port is served
  alarm,      \* the attempt the timer is armed for, or 0
  rung,       \* timers that fired and wait for the mutex
  callback,   \* what an attempt's callback does next
  chosen,     \* the account an opened attempt is for, until its exchange
  granted,    \* the account and the session its exchange returned
  mutex,
  use,        \* what a user of tokens does next
  bound,      \* the account a judge's review is bound to
  holds,      \* the account and the session a user has read
  reply,      \* the provider's reply to its refresh
  filelock,   \* who holds it across a request
  minted, valid, \* sessions of the provider: how many, and which are accepted
  signedOut,  \* history: the last thing the user did was to sign out
  unsure      \* history: accounts whose session may be spent, the outcome being lost

file == <<selected, session, access>>
signIn == <<generation, pending, opened, listener, alarm, rung, callback, chosen, granted>>
tokenUse == <<use, bound, holds, reply>>
remote == <<minted, valid>>
planVars == <<file, signIn, mutex, tokenUse, filelock, remote, signedOut, unsure>>

PlanInit ==
  /\ selected = NoAccount
  /\ session = [a \in Accounts |-> NoToken]
  /\ access = [a \in Accounts |-> "none"]
  /\ generation = 0 /\ pending = 0 /\ opened = 0 /\ listener = FALSE /\ alarm = 0
  /\ rung = {}
  /\ callback = [g \in Attempts |-> "none"]
  /\ chosen = [g \in Attempts |-> NoAccount]
  /\ granted = [g \in Attempts |-> NoHand]
  /\ mutex = "free" /\ filelock = "free"
  /\ use = [u \in Users |-> "idle"]
  /\ bound = [u \in Users |-> NoAccount]
  /\ holds = [u \in Users |-> NoHand]
  /\ reply = [u \in Users |-> NoToken]
  /\ minted = 0 /\ valid = {}
  /\ signedOut = FALSE /\ unsure = {}

Unlocked == mutex = "free" /\ filelock = "free"

(* Accounts the file has a registration of. *)
Known == {a \in Accounts : access[a] # "none" \/ a = selected}

(* _stop_listener *)
StopListener == listener' = FALSE /\ alarm' = 0

(* What disconnect, an account switch and the timer do to an attempt. *)
CancelAttempt == pending' = 0 /\ generation' = generation + 1 /\ StopListener

-----------------------------------------------------------------------------
(* A sign-in.                                                              *)

(* start_oauth, for an account or for a new one.  Its page is opened, the port is
   taken, or the file cannot be saved: then the attempt waits already, without a
   page, and the port and the timer are left as they were.                  *)
StartOAuth(a) ==
  /\ Unlocked /\ generation < MaxGeneration
  /\ a \in Known \cup {NoAccount}
  /\ generation' = generation + 1
  /\ \/ /\ pending' = generation' /\ opened' = generation' /\ signedOut' = FALSE
        /\ chosen' = [chosen EXCEPT ![generation'] = a]
        /\ listener' = TRUE /\ alarm' = generation'
     \/ ~listener /\ pending' = 0 /\ alarm' = 0 /\ UNCHANGED <<opened, chosen, listener, signedOut>>
     \/ pending' = generation' /\ UNCHANGED <<opened, chosen, listener, alarm, signedOut>>
  /\ UNCHANGED <<file, rung, callback, granted, mutex, tokenUse, filelock, remote, unsure>>

(* complete_callback, first section: the attempt is consumed.  Only its page knows
   the state it is named by.                                                *)
Consume(g) ==
  /\ mutex = "free" /\ pending = g /\ opened = g
  /\ pending' = 0
  /\ callback' = [callback EXCEPT ![g] = "exchange"]
  /\ UNCHANGED <<file, generation, opened, listener, alarm, rung, chosen, granted, mutex, tokenUse,
                 filelock, remote, signedOut, unsure>>

(* The exchange, without a lock: the provider opens a session of the account. *)
Exchange(g, a) ==
  /\ callback[g] = "exchange" /\ minted < MaxTokens
  /\ chosen[g] \in {NoAccount, a}
  /\ minted' = minted + 1 /\ valid' = valid \cup {minted'}
  /\ granted' = [granted EXCEPT ![g] = <<a, minted'>>]
  /\ callback' = [callback EXCEPT ![g] = "granted"]
  /\ chosen' = [chosen EXCEPT ![g] = NoAccount]
  /\ UNCHANGED <<file, generation, pending, opened, listener, alarm, rung, mutex, tokenUse,
                 filelock, signedOut, unsure>>

(* Declined, failed, of another account than the chosen one, past expires_at, or
   no file lock in time.                                                    *)
CallbackFails(g) ==
  /\ callback[g] \in {"exchange", "granted"}
  /\ callback' = [callback EXCEPT ![g] = "closing"]
  /\ granted' = [granted EXCEPT ![g] = NoHand]
  /\ chosen' = [chosen EXCEPT ![g] = NoAccount]
  /\ UNCHANGED <<file, generation, pending, opened, listener, alarm, rung, mutex, tokenUse,
                 filelock, remote, signedOut, unsure>>

(* Mutant: the attempt may be an earlier one. *)
WantedAnyway(g) == g <= generation

Wanted(g) == g = generation

(* complete_callback, last section: unless the attempt was cancelled meanwhile,
   its session replaces the account's, and the account is selected.         *)
InstallSession(g) ==
  /\ Unlocked /\ callback[g] = "granted"
  /\ LET a == granted[g][1] IN
       IF Wanted(g)
       THEN /\ session' = [session EXCEPT ![a] = granted[g][2]]
            /\ \E s \in {"fresh", "identity"} : access' = [access EXCEPT ![a] = s]
            /\ selected' = a
            /\ unsure' = unsure \ {a}
       ELSE UNCHANGED <<file, unsure>>
  /\ callback' = [callback EXCEPT ![g] = "closing"]
  /\ granted' = [granted EXCEPT ![g] = NoHand]
  /\ UNCHANGED <<generation, pending, opened, listener, alarm, rung, chosen, mutex, tokenUse,
                 filelock, remote, signedOut>>

(* Mutant: the port is closed whoever waits. *)
CloseAnyway(g) ==
  /\ mutex = "free" /\ callback[g] = "closing"
  /\ StopListener
  /\ callback' = [callback EXCEPT ![g] = "none"]
  /\ UNCHANGED <<file, generation, pending, opened, rung, chosen, granted, mutex, tokenUse, filelock, remote,
                 signedOut, unsure>>

(* do_GET, at its end: the port is closed unless a new attempt waits. *)
CloseCallback(g) ==
  /\ mutex = "free" /\ callback[g] = "closing"
  /\ IF pending = 0 THEN StopListener ELSE UNCHANGED <<listener, alarm>>
  /\ callback' = [callback EXCEPT ![g] = "none"]
  /\ UNCHANGED <<file, generation, pending, opened, rung, chosen, granted, mutex, tokenUse, filelock, remote,
                 signedOut, unsure>>

(* do_GET of a callback that is of no waiting attempt: only its end matters. *)
StrayCallback ==
  /\ mutex = "free" /\ listener /\ pending = 0
  /\ StopListener
  /\ UNCHANGED <<file, generation, pending, opened, rung, callback, chosen, granted, mutex,
                 tokenUse, filelock, remote, signedOut, unsure>>

AlarmRings ==
  /\ alarm # 0
  /\ rung' = rung \cup {alarm} /\ alarm' = 0
  /\ UNCHANGED <<file, generation, pending, opened, listener, callback, chosen, granted, mutex,
                 tokenUse, filelock, remote, signedOut, unsure>>

(* _expire, which ignores an attempt that is not the last. *)
ExpireAttempt(g) ==
  /\ mutex = "free" /\ g \in rung
  /\ rung' = rung \ {g}
  /\ IF g = generation THEN CancelAttempt ELSE UNCHANGED <<pending, generation, listener, alarm>>
  /\ UNCHANGED <<file, opened, callback, chosen, granted, mutex, tokenUse, filelock, remote,
                 signedOut, unsure>>

-----------------------------------------------------------------------------
(* Accounts.                                                               *)

(* The file may not be saved: the attempt is cancelled, its port still served. *)
SelectProfile(a) ==
  /\ Unlocked /\ generation < MaxGeneration /\ a \in Known
  /\ \/ CancelAttempt /\ selected' = a /\ signedOut' = FALSE
     \/ /\ pending' = 0 /\ generation' = generation + 1
        /\ UNCHANGED <<listener, alarm, selected, signedOut>>
  /\ UNCHANGED <<session, access, opened, rung, callback, chosen, granted, mutex, tokenUse, filelock,
                 remote, unsure>>

(* disconnect holds the mutex to its end. *)
DisconnectBegins ==
  /\ mutex = "free" /\ generation < MaxGeneration
  /\ CancelAttempt
  /\ mutex' = "disconnect"
  /\ UNCHANGED <<file, opened, rung, callback, chosen, granted, tokenUse, filelock, remote,
                 signedOut, unsure>>

(* Under the file lock the provider revokes the session, or is not reached. *)
DisconnectRevokes ==
  /\ mutex = "disconnect" /\ filelock = "free"
  /\ filelock' = "disconnect"
  /\ \/ UNCHANGED <<valid, unsure>>
     \/ /\ selected # NoAccount
        /\ valid' = valid \ {session[selected]}
        /\ unsure' = unsure \cup {selected}
  /\ UNCHANGED <<file, signIn, mutex, tokenUse, minted, signedOut>>

(* _clear_tokens *)
Cleared(a) == [session EXCEPT ![a] = NoToken]

DisconnectSaves ==
  /\ mutex = "disconnect" /\ filelock = "disconnect"
  /\ IF selected = NoAccount THEN UNCHANGED <<session, access, unsure>>
     ELSE /\ session' = Cleared(selected)
          /\ access' = [access EXCEPT ![selected] = "identity"]
          /\ unsure' = unsure \ {selected}
  /\ mutex' = "free" /\ filelock' = "free"
  /\ signedOut' = TRUE
  /\ UNCHANGED <<selected, signIn, tokenUse, remote>>

(* The file lock is not free in time, or the file cannot be saved: the session stays. *)
DisconnectGivesUp ==
  /\ mutex = "disconnect" /\ filelock \in Users \cup {"disconnect"}
  /\ mutex' = "free"
  /\ filelock' = IF filelock = "disconnect" THEN "free" ELSE filelock
  /\ UNCHANGED <<file, signIn, tokenUse, remote, signedOut, unsure>>

-----------------------------------------------------------------------------
(* Access tokens.                                                          *)

(* binding(), when a review is queued for the judge *)
BindReview(u) ==
  /\ filelock = "free" /\ use[u] = "idle" /\ selected # NoAccount
  /\ use' = [use EXCEPT ![u] = "bound"]
  /\ bound' = [bound EXCEPT ![u] = selected]
  /\ UNCHANGED <<file, signIn, mutex, holds, reply, filelock, remote, signedOut, unsure>>

(* access_token finds a session; a judge's must be of its review's account. *)
MayUse(u) ==
  /\ selected # NoAccount /\ access[selected] \in {"fresh", "due"}
  /\ u \in JudgeProcesses => selected = bound[u]

Ready(u) == filelock = "free" /\ use[u] = IF u \in JudgeProcesses THEN "bound" ELSE "idle"

(* Nobody remembers the account any more. *)
LetGo(u) == /\ use' = [use EXCEPT ![u] = "idle"]
            /\ bound' = [bound EXCEPT ![u] = NoAccount]
            /\ holds' = [holds EXCEPT ![u] = NoHand]
            /\ reply' = [reply EXCEPT ![u] = NoToken]

(* access_token, refused or with nothing to renew *)
AccessToken(u) ==
  /\ Ready(u) /\ u \in JudgeProcesses
  /\ ~MayUse(u) \/ access[selected] = "fresh"
  /\ LetGo(u)
  /\ UNCHANGED <<file, signIn, mutex, filelock, remote, signedOut, unsure>>

MustRefresh(u) == Ready(u) /\ MayUse(u) /\ access[selected] = "due"

Read(u) == /\ use' = [use EXCEPT ![u] = "refresh"]
           /\ holds' = [holds EXCEPT ![u] = <<selected, session[selected]>>]

(* Mutant: the file lock is not kept over the request. *)
RefreshUnlocked(u) ==
  /\ MustRefresh(u) /\ Read(u)
  /\ UNCHANGED <<file, signIn, mutex, bound, reply, filelock, remote, signedOut, unsure>>

(* The session is sent to the provider, under the file lock. *)
Refresh(u) ==
  /\ MustRefresh(u) /\ Read(u)
  /\ filelock' = u
  /\ UNCHANGED <<file, signIn, mutex, bound, reply, remote, signedOut, unsure>>

(* The provider spends a session it accepts, and mints the next one. *)
Rotate(u) ==
  /\ use[u] = "refresh" /\ reply[u] = NoToken
  /\ IF holds[u][2] \in valid
     THEN /\ minted < MaxTokens
          /\ minted' = minted + 1
          /\ valid' = (valid \ {holds[u][2]}) \cup {minted'}
          /\ reply' = [reply EXCEPT ![u] = minted']
     ELSE reply' = [reply EXCEPT ![u] = Refused] /\ UNCHANGED remote
  /\ UNCHANGED <<file, signIn, mutex, use, bound, holds, filelock, signedOut, unsure>>

Unlock(u) == filelock' = IF filelock = u THEN "free" ELSE filelock

(* The session that replaces the one just spent. *)
Renewed(u) == [session EXCEPT ![holds[u][1]] = reply[u]]

(* Saved even when the scopes were reduced, which then is an error. *)
SaveRotation(u) ==
  /\ use[u] = "refresh" /\ reply[u] > 0
  /\ session' = Renewed(u)
  /\ \E s \in {"fresh", "identity"} : access' = [access EXCEPT ![holds[u][1]] = s]
  /\ unsure' = unsure \ {holds[u][1]}
  /\ LetGo(u) /\ Unlock(u)
  /\ UNCHANGED <<selected, signIn, mutex, remote, signedOut>>

(* A refusal that is final clears the session. *)
SaveRefusal(u) ==
  /\ use[u] = "refresh" /\ reply[u] = Refused
  /\ session' = Cleared(holds[u][1])
  /\ access' = [access EXCEPT ![holds[u][1]] = "identity"]
  /\ unsure' = unsure \ {holds[u][1]}
  /\ LetGo(u) /\ Unlock(u)
  /\ UNCHANGED <<selected, signIn, mutex, remote, signedOut>>

(* The request fails, its answer is unusable, or the judge process is killed. *)
LoseAnswer(u) ==
  /\ use[u] = "refresh"
  /\ unsure' = IF reply[u] > 0 THEN unsure \cup {holds[u][1]} ELSE unsure
  /\ LetGo(u) /\ Unlock(u)
  /\ UNCHANGED <<file, signIn, mutex, remote, signedOut>>

AccessAges(a) ==
  /\ access[a] = "fresh"
  /\ access' = [access EXCEPT ![a] = "due"]
  /\ UNCHANGED <<selected, session, signIn, mutex, tokenUse, filelock, remote, signedOut, unsure>>

(* The API process is restarted: its attempts, threads and locks are gone. *)
RestartAPI ==
  /\ generation > 0
  /\ generation' = 0 /\ pending' = 0 /\ opened' = 0 /\ listener' = FALSE /\ alarm' = 0
  /\ rung' = {}
  /\ callback' = [g \in Attempts |-> "none"]
  /\ chosen' = [g \in Attempts |-> NoAccount]
  /\ granted' = [g \in Attempts |-> NoHand]
  /\ mutex' = "free"
  /\ filelock' = IF filelock \in JudgeProcesses THEN filelock ELSE "free"
  /\ use' = [u \in Users |-> IF u \in JudgeProcesses THEN use[u] ELSE "idle"]
  /\ holds' = [u \in Users |-> IF u \in JudgeProcesses THEN holds[u] ELSE NoHand]
  /\ reply' = [u \in Users |-> IF u \in JudgeProcesses THEN reply[u] ELSE NoToken]
  /\ unsure' = unsure \cup {holds[u][1] : u \in {t \in Threads : reply[t] > 0}}
  /\ UNCHANGED <<file, bound, remote, signedOut>>

-----------------------------------------------------------------------------
Callback(g) == \/ Consume(g) \/ (\E a \in Accounts : Exchange(g, a)) \/ CallbackFails(g)
               \/ InstallSession(g) \/ CloseCallback(g)

TokenUser(u) == \/ (u \in JudgeProcesses /\ BindReview(u)) \/ AccessToken(u) \/ Refresh(u) \/ Rotate(u)
                \/ SaveRotation(u) \/ SaveRefusal(u) \/ LoseAnswer(u)

PlanNext == \/ \E a \in Accounts \cup {NoAccount} : StartOAuth(a)
            \/ \E g \in Attempts : Callback(g)
            \/ StrayCallback \/ AlarmRings \/ \E g \in Attempts : ExpireAttempt(g)
            \/ \E a \in Accounts : SelectProfile(a) \/ AccessAges(a)
            \/ DisconnectBegins \/ DisconnectRevokes \/ DisconnectSaves \/ DisconnectGivesUp
            \/ \E u \in Users : TokenUser(u)
            \/ RestartAPI

PlanSpec == PlanInit /\ [][PlanNext]_planVars
-----------------------------------------------------------------------------
Token == 1..MaxTokens
Hand == (Accounts \cup {NoAccount}) \X ({NoToken} \cup Token)

PlanTypeOK ==
  /\ selected \in Accounts \cup {NoAccount}
  /\ session \in [Accounts -> {NoToken} \cup Token]
  /\ access \in [Accounts -> {"none", "fresh", "due", "identity"}]
  /\ generation \in Nat /\ pending \in 0..MaxGeneration
  /\ opened \in 0..MaxGeneration /\ alarm \in 0..MaxGeneration
  /\ listener \in BOOLEAN
  /\ rung \subseteq Attempts
  /\ callback \in [Attempts -> {"none", "exchange", "granted", "closing"}]
  /\ chosen \in [Attempts -> Accounts \cup {NoAccount}]
  /\ granted \in [Attempts -> Hand]
  /\ mutex \in {"free", "disconnect"} /\ filelock \in {"free", "disconnect"} \cup Users
  /\ use \in [Users -> {"idle", "bound", "refresh"}]
  /\ bound \in [Users -> Accounts \cup {NoAccount}]
  /\ holds \in [Users -> Hand]
  /\ reply \in [Users -> {Refused, NoToken} \cup Token]
  /\ minted \in 0..MaxTokens /\ valid \subseteq 1..minted /\ unsure \subseteq Accounts
  /\ signedOut \in BOOLEAN

(* docs/chatgpt-plan-oauth.md:70: "Disconnect clears selected-account tokens".
   After a sign-out no session comes back for the selected account, neither from
   a callback that was exchanging its code, nor from a refresh in another
   process, nor by the timer or a restart, until the user signs in again or
   selects an account.                                                      *)
SignedOutStays ==
  signedOut /\ selected # NoAccount => session[selected] = NoToken

(* docs/chatgpt-plan-oauth.md:57: "cross-process locking protects token
   rotation".  Two processes never spend the same session: the one that is saved
   is accepted by the provider, unless it is being rotated, or the outcome of a
   request never reached the file.                                          *)
SessionIsCurrent ==
  \A a \in Accounts \ unsure :
    \/ session[a] \in {NoToken} \cup valid
    \/ \E u \in Users : filelock = u /\ use[u] = "refresh" /\ holds[u] = <<a, session[a]>>

(* chatgpt_plan.py:475: "the old socket must be released before a new listener
   binds, and its timer must stay intact".  An attempt that waits is the last one;
   if the user was given its page, its port is served and its timer will end it,
   however callbacks, cancellations, failed saves, restarts and late timers of
   earlier attempts interleave.  (One whose save failed has no page.)       *)
AttemptIsServed ==
  pending # 0 => /\ pending = generation
                 /\ pending = opened => listener /\ pending \in rung \cup {alarm}
=============================================================================
