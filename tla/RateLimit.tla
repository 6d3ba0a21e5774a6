----------------------------- MODULE RateLimit -----------------------------
(***************************************************************************)
(* The quotas of a hosted user: services/rate_limit.py behind the boundary *)
(* of hosted_middleware.py, in several API processes over one database.    *)
(* A quota counts in windows of its own length; the row of a window goes   *)
(* once the window is over.                                                *)
(*                                                                         *)
(* A step is a statement that waits for the rows it needs, or the          *)
(* transaction that commits with it.                                       *)
(***************************************************************************)
EXTENDS Naturals, Sequences, FiniteSets

CONSTANTS HostedRequests,   \* of one user, served in parallel
          Limits,     \* Limits[q]: admissions of quota q per window
          Lengths,    \* Lengths[q]: its length, in ticks of the clock
          QuotasOf,   \* QuotasOf[r]: the quotas a request passes, in order
          MaxTime     \* bound on the clock

Quotas == DOMAIN Limits
Window(q, t) == t \div Lengths[q]
Windows == {b \in Quotas \X (0..MaxTime) : b[2] <= Window(b[1], MaxTime)}

ASSUME QuotaAssumption ==
  /\ Quotas # {} /\ MaxTime \in Nat
  /\ Limits \in [Quotas -> Nat \ {0}] /\ Lengths \in [Quotas -> Nat \ {0}]
  /\ QuotasOf \in [HostedRequests -> Seq(Quotas)] \* each quota once
  /\ \A r \in HostedRequests : \A i, j \in DOMAIN QuotasOf[r] :
       QuotasOf[r][i] = QuotasOf[r][j] => i = j

VARIABLES
  clock,
  rows,     \* the count of each window that has a row, else 0
  stage,    \* quotas a request has passed
  quotaPc,  \* what it does about the next one
  read,     \* the clock it read for that
  admitted, \* history: requests admitted in each window
  refused,  \* history: requests refused in each window
  late      \* history: windows a request wrote to when they were over

quotaVars == <<clock, rows, stage, quotaPc, read, admitted, refused, late>>

QuotaInit ==
  /\ clock = 0
  /\ rows = [b \in Windows |-> 0]
  /\ stage = [r \in HostedRequests |-> 0]
  /\ quotaPc = [r \in HostedRequests |-> "next"]
  /\ read = [r \in HostedRequests |-> 0]
  /\ admitted = [b \in Windows |-> {}]
  /\ refused = [b \in Windows |-> {}]
  /\ late = {}

Quota(r) == QuotasOf[r][stage[r] + 1]
Bucket(r) == <<Quota(r), Window(Quota(r), read[r])>>

Served(r) == quotaPc[r] = "next" /\ stage[r] = Len(QuotasOf[r])

(* admit reads the clock *)
ReadClock(r) ==
  /\ quotaPc[r] = "next" /\ ~Served(r)
  /\ read' = [read EXCEPT ![r] = clock]
  /\ quotaPc' = [quotaPc EXCEPT ![r] = "update"]
  /\ UNCHANGED <<clock, rows, stage, admitted, refused, late>>

(* The request counts, and rows of windows that ended before it read the clock
   go with the same transaction, or not at all.                             *)
Count(r, expire) ==
  /\ rows' = [b \in Windows |->
                IF b = Bucket(r) THEN rows[b] + 1
                ELSE IF expire /\ b[2] < Window(b[1], read[r]) THEN 0 ELSE rows[b]]
  /\ admitted' = [admitted EXCEPT ![Bucket(r)] = @ \cup {r}]
  /\ late' = IF Bucket(r)[2] < Window(Quota(r), clock) THEN late \cup {Bucket(r)} ELSE late
  /\ stage' = [stage EXCEPT ![r] = @ + 1]
  /\ quotaPc' = [quotaPc EXCEPT ![r] = "next"]
  /\ UNCHANGED <<clock, read, refused>>

Free(b) == rows[b] > 0 /\ rows[b] < Limits[b[1]]

Update(r) == quotaPc[r] = "update" /\ Free(Bucket(r)) /\ Count(r, TRUE)

UpdateMisses(r) ==
  /\ quotaPc[r] = "update" /\ ~Free(Bucket(r))
  /\ quotaPc' = [quotaPc EXCEPT ![r] = "insert"]
  /\ UNCHANGED <<clock, rows, stage, read, admitted, refused, late>>

InsertRow(r) == quotaPc[r] = "insert" /\ rows[Bucket(r)] = 0 /\ Count(r, TRUE)

(* Mutant: a request that lost the race to insert is let in. *)
ConflictAdmits(r) == /\ quotaPc[r] = "insert" /\ rows[Bucket(r)] > 0
                     /\ Count(r, FALSE)

(* IntegrityError: another request was first; roll back. *)
InsertConflicts(r) ==
  /\ quotaPc[r] = "insert" /\ rows[Bucket(r)] > 0
  /\ quotaPc' = [quotaPc EXCEPT ![r] = "again"]
  /\ UNCHANGED <<clock, rows, stage, read, admitted, refused, late>>

UpdateAgain(r) == quotaPc[r] = "again" /\ Free(Bucket(r)) /\ Count(r, FALSE)

Refuse(r) ==
  /\ quotaPc[r] = "again" /\ ~Free(Bucket(r))
  /\ quotaPc' = [quotaPc EXCEPT ![r] = "refused"]
  /\ refused' = [refused EXCEPT ![Bucket(r)] = @ \cup {r}]
  /\ late' = IF Bucket(r)[2] < Window(Quota(r), clock) THEN late \cup {Bucket(r)} ELSE late
  /\ UNCHANGED <<clock, rows, stage, read, admitted>>

ClockTick == /\ clock < MaxTime /\ clock' = clock + 1
             /\ UNCHANGED <<rows, stage, quotaPc, read, admitted, refused, late>>

QuotaNext ==
  \/ \E r \in HostedRequests : \/ ReadClock(r) \/ Update(r) \/ UpdateMisses(r) \/ InsertRow(r)
                               \/ InsertConflicts(r) \/ UpdateAgain(r) \/ Refuse(r)
  \/ ClockTick

QuotaSpec == QuotaInit /\ [][QuotaNext]_quotaVars
-----------------------------------------------------------------------------
QuotaTypeOK ==
  /\ clock \in 0..MaxTime
  /\ rows \in [Windows -> Nat]
  /\ stage \in [HostedRequests -> Nat] /\ \A r \in HostedRequests : stage[r] <= Len(QuotasOf[r])
  /\ quotaPc \in [HostedRequests -> {"next", "update", "insert", "again", "refused"}]
  /\ read \in [HostedRequests -> 0..MaxTime]
  /\ admitted \in [Windows -> SUBSET HostedRequests] /\ refused \in [Windows -> SUBSET HostedRequests]
  /\ late \subseteq Windows

(* docs/firebase-staging.md:82: "SQL rate limits are shared across processes".
   However requests race to create and fill the row of a window, it admits its
   limit and no more, and refuses nobody before that: unless a request read the
   clock in the window and wrote after it, when the row may be gone.        *)
QuotaIsExact ==
  \A b \in Windows \ late :
    /\ Cardinality(admitted[b]) <= Limits[b[1]]
    /\ refused[b] # {} => Cardinality(admitted[b]) = Limits[b[1]]
=============================================================================
