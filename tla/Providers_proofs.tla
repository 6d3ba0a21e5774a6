-------------------------- MODULE Providers_proofs --------------------------
(***************************************************************************)
(* Theorems about what judges, agents and hosted users need of providers:  *)
(* the credits of the budget (JudgeBudget), a session of the ChatGPT plan  *)
(* (ChatGPTPlan) or of Codex (CodexAccount), the text of an answer         *)
(* (ResponseStream), and the quotas (RateLimit).                           *)
(*                                                                         *)
(* The budget is exact and never exceeded, for any numbers of requests,    *)
(* slots, credits, days and restarts.  The argument: only a request that   *)
(* was never charged reserves, only one that is charged today is refunded, *)
(* and the day a request was charged on is never before its quote.         *)
(***************************************************************************)
EXTENDS MCProviders, FiniteSetTheorems, SequenceTheorems, WellFoundedInduction, TLAPS

Kinds == {"judge", "generation"}
Holders(k) == {r \in Requests : Kind(r) = k /\ budgetPc[r] \notin {"idle", "done"}}

(* How far a request got and what it was charged. *)
Charge(r) ==
  /\ reserved[r] <= day
  /\ budgetPc[r] \in {"idle", "quote", "reserve"} => reserved[r] = 0 /\ ~returned[r]
  /\ budgetPc[r] = "reserve" => quote[r].date <= day
  /\ budgetPc[r] \in {"call", "refund"} => reserved[r] # 0 /\ ~returned[r] /\ quote[r].date <= reserved[r]

Books == /\ ledger.date <= day
         /\ \A r \in Requests : Charge(r)
         /\ LedgerIsExact /\ WithinLimit

(* The types, the holders of slots, and the books. *)
BudgetInv == BudgetTypeOK /\ SlotsAreHeld /\ Books

LEMMA MaxOfTwo == ASSUME NEW x \in Nat, NEW y \in Nat, y <= x PROVE Max({x, y}) = x
<1>1. \E z \in {x, y} : \A w \in {x, y} : z >= w
  OBVIOUS
<1> QED
  BY <1>1 DEF Max

LEMMA FiniteParts ==
  ASSUME NEW S \in SUBSET Requests
  PROVE  /\ IsFiniteSet(S) /\ Cardinality(S) \in Nat
         /\ IsFiniteSet(S \cap Judges) /\ Cardinality(S \cap Judges) \in Nat
         /\ IsFiniteSet(S \cap Generations) /\ Cardinality(S \cap Generations) \in Nat
<1>1. \A T \in SUBSET Requests : IsFiniteSet(T) /\ Cardinality(T) \in Nat
  BY FS_Subset, FS_CardinalityType, BudgetAssumption
<1> QED
  BY <1>1

LEMMA WorthType == ASSUME NEW S \in SUBSET Requests PROVE Worth(S) \in Nat
<1> DEFINE m == Cardinality(S \cap Judges)
           n == Cardinality(S \cap Generations)
<1>1. m \in Nat /\ n \in Nat
  BY FiniteParts
<1>2. JudgeCost \in Nat /\ GenerationCost \in Nat
  BY BudgetAssumption
<1> HIDE DEF m, n
<1>3. JudgeCost * m + GenerationCost * n \in Nat
  BY <1>1, <1>2
<1> QED
  BY <1>3 DEF Worth, m, n

LEMMA WorthOfNone == Worth({}) = 0
<1>1. {} \cap Judges = {} /\ {} \cap Generations = {}
  OBVIOUS
<1>2. Cardinality({}) = 0
  BY FS_EmptySet
<1>3. JudgeCost * 0 + GenerationCost * 0 = 0
  BY BudgetAssumption
<1> QED
  BY <1>1, <1>2, <1>3 DEF Worth

(* A request more is its cost more. *)
LEMMA WorthOfOneMore ==
  ASSUME NEW S \in SUBSET Requests, NEW r \in Requests \ S
  PROVE  Worth(S \cup {r}) = Worth(S) + Cost(r)
<1> DEFINE m == Cardinality(S \cap Judges)
           n == Cardinality(S \cap Generations)
<1>1. m \in Nat /\ n \in Nat
  BY FiniteParts
<1>2. JudgeCost \in Nat /\ GenerationCost \in Nat /\ Judges \cap Generations = {}
  BY BudgetAssumption
<1>3. CASE r \in Judges
  <2>1. (S \cup {r}) \cap Judges = (S \cap Judges) \cup {r} /\ (S \cup {r}) \cap Generations = S \cap Generations
    BY <1>2, <1>3
  <2>2. Cardinality((S \cap Judges) \cup {r}) = m + 1
    BY FiniteParts, FS_AddElement
  <2> HIDE DEF m, n
  <2>3. JudgeCost * (m + 1) + GenerationCost * n = JudgeCost * m + GenerationCost * n + JudgeCost
    BY <1>1, <1>2
  <2> QED
    BY <1>3, <2>1, <2>2, <2>3 DEF Worth, Cost, m, n
<1>4. CASE r \notin Judges
  <2>1. (S \cup {r}) \cap Generations = (S \cap Generations) \cup {r} /\ (S \cup {r}) \cap Judges = S \cap Judges
    BY <1>2, <1>4 DEF Requests
  <2>2. Cardinality((S \cap Generations) \cup {r}) = n + 1
    BY FiniteParts, FS_AddElement
  <2> HIDE DEF m, n
  <2>3. JudgeCost * m + GenerationCost * (n + 1) = JudgeCost * m + GenerationCost * n + GenerationCost
    BY <1>1, <1>2
  <2> QED
    BY <1>4, <2>1, <2>2, <2>3 DEF Worth, Cost, m, n
<1> QED
  BY <1>3, <1>4

LEMMA WorthOfOneLess ==
  ASSUME NEW S \in SUBSET Requests, NEW r \in S
  PROVE  Worth(S \ {r}) = Worth(S) - Cost(r) /\ Cost(r) <= Worth(S)
<1>1. S = (S \ {r}) \cup {r} /\ r \in Requests \ (S \ {r}) /\ S \ {r} \in SUBSET Requests
  OBVIOUS
<1>2. Worth(S) = Worth(S \ {r}) + Cost(r)
  BY <1>1, WorthOfOneMore
<1>3. Worth(S \ {r}) \in Nat /\ Cost(r) \in Nat
  BY <1>1, WorthType, BudgetAssumption DEF Cost
<1> QED
  BY <1>2, <1>3

LEMMA InitOK == BudgetInit => BudgetInv
<1> SUFFICES ASSUME BudgetInit PROVE BudgetInv
  OBVIOUS
<1>1. BudgetTypeOK
  BY BudgetAssumption DEF BudgetInit, BudgetTypeOK, NoQuote
<1>2. SlotsAreHeld
  <2>1. \A k \in Kinds : {r \in Requests : Kind(r) = k /\ budgetPc[r] \notin {"idle", "done"}} = {}
    BY DEF BudgetInit
  <2> QED
    BY <2>1, FS_EmptySet, BudgetAssumption DEF BudgetInit, SlotsAreHeld, Kinds
<1>3. \A d \in 1..MaxDays : Charged(d) = {}
  BY DEF BudgetInit, Charged
<1>4. LedgerIsExact /\ WithinLimit
  <2>1. 1 \in 1..MaxDays /\ Limit \in Nat
    BY BudgetAssumption
  <2>2. \A d \in 1..MaxDays : Worth(Charged(d)) = 0
    BY <1>3, WorthOfNone
  <2>3. day = 1 /\ Spent = 0
    BY DEF BudgetInit, Spent
  <2> QED
    BY <2>1, <2>2, <2>3 DEF LedgerIsExact, WithinLimit
<1>5. ledger.date <= day /\ \A r \in Requests : Charge(r)
  BY DEF BudgetInit, Charge
<1> QED
  BY <1>1, <1>2, <1>4, <1>5 DEF BudgetInv, Books

(* What a step of a request does to the slots. *)
LEMMA SlotsStep ==
  ASSUME BudgetTypeOK, SlotsAreHeld, [BudgetNext]_budgetVars
  PROVE  SlotsAreHeld' /\ active' \in [Kinds -> Nat]
<1>0. /\ budgetPc \in [Requests -> {"idle", "quote", "reserve", "call", "refund", "leave", "done"}]
      /\ active \in [Kinds -> Nat] /\ MaxActive \in [Kinds -> Nat]
      /\ \A r \in Requests : Kind(r) \in Kinds
  BY BudgetAssumption DEF BudgetTypeOK, Kinds, Kind
<1>a. \A k \in Kinds : /\ active[k] = Cardinality(Holders(k)) /\ active[k] <= MaxActive[k]
                       /\ IsFiniteSet(Holders(k)) /\ Holders(k) \in SUBSET Requests
  <2>1. \A k \in Kinds : Holders(k) \in SUBSET Requests
    BY DEF Holders
  <2>2. \A k \in Kinds : IsFiniteSet(Holders(k))
    BY <2>1, FiniteParts
  <2> QED
    BY <2>1, <2>2 DEF SlotsAreHeld, Holders, Kinds
<1>b. SUFFICES /\ active' \in [Kinds -> Nat]
               /\ \A k \in Kinds : active'[k] = Cardinality(Holders(k)') /\ active'[k] <= MaxActive[k]
  BY DEF SlotsAreHeld, Holders, Kinds
<1>1. CASE UNCHANGED active /\ \A k \in Kinds : Holders(k)' = Holders(k)
  BY <1>0, <1>a, <1>1
<1>2. ASSUME NEW r \in Requests, budgetPc[r] = "idle", budgetPc'[r] \notin {"idle", "done"},
             \A q \in Requests \ {r} : budgetPc'[q] = budgetPc[q],
             active[Kind(r)] < MaxActive[Kind(r)], active' = [active EXCEPT ![Kind(r)] = @ + 1]
      PROVE  /\ active' \in [Kinds -> Nat]
             /\ \A k \in Kinds : active'[k] = Cardinality(Holders(k)') /\ active'[k] <= MaxActive[k]
  <2> DEFINE i == Kind(r)
  <2>1. Holders(i)' = Holders(i) \cup {r} /\ r \notin Holders(i)
    BY <1>2 DEF Holders, Kind
  <2>2. \A k \in Kinds \ {i} : Holders(k)' = Holders(k)
    BY <1>2 DEF Holders, Kind
  <2>3. Cardinality(Holders(i)') = active[i] + 1
    <3>1. i \in Kinds /\ IsFiniteSet(Holders(i)) /\ active[i] = Cardinality(Holders(i))
      BY <1>0, <1>a
    <3> HIDE DEF i
    <3>2. Cardinality(Holders(i) \cup {r}) = Cardinality(Holders(i)) + 1
      BY <2>1, <3>1, FS_AddElement
    <3> QED
      BY <2>1, <3>1, <3>2
  <2>4. active'[i] = active[i] + 1 /\ \A k \in Kinds \ {i} : active'[k] = active[k]
    BY <1>0, <1>2
  <2>5. active' \in [Kinds -> Nat] /\ active'[i] <= MaxActive[i]
    BY <1>0, <1>2
  <2> HIDE DEF i
  <2> QED
    BY <1>a, <2>2, <2>3, <2>4, <2>5
<1>3. ASSUME NEW r \in Requests, budgetPc[r] = "leave", budgetPc'[r] = "done",
             \A q \in Requests \ {r} : budgetPc'[q] = budgetPc[q],
             active' = [active EXCEPT ![Kind(r)] = @ - 1]
      PROVE  /\ active' \in [Kinds -> Nat]
             /\ \A k \in Kinds : active'[k] = Cardinality(Holders(k)') /\ active'[k] <= MaxActive[k]
  <2> DEFINE i == Kind(r)
  <2>1. Holders(i)' = Holders(i) \ {r} /\ r \in Holders(i)
    BY <1>3 DEF Holders, Kind
  <2>2. \A k \in Kinds \ {i} : Holders(k)' = Holders(k)
    BY <1>3 DEF Holders, Kind
  <2>3. Cardinality(Holders(i)') = active[i] - 1 /\ active[i] # 0
    <3>1. i \in Kinds /\ IsFiniteSet(Holders(i)) /\ active[i] = Cardinality(Holders(i)) /\ active[i] \in Nat
      BY <1>0, <1>a
    <3> HIDE DEF i
    <3>2. Cardinality(Holders(i) \ {r}) = Cardinality(Holders(i)) - 1
      BY <2>1, <3>1, FS_RemoveElement
    <3>3. Cardinality(Holders(i)) # 0
      BY <2>1, <3>1, FS_EmptySet
    <3> QED
      BY <2>1, <3>1, <3>2, <3>3
  <2>4. active'[i] = active[i] - 1 /\ \A k \in Kinds \ {i} : active'[k] = active[k]
    BY <1>0, <1>3
  <2>5. active' \in [Kinds -> Nat] /\ active'[i] <= MaxActive[i]
    BY <1>0, <1>a, <1>3, <2>3
  <2> HIDE DEF i
  <2> QED
    BY <1>a, <2>2, <2>3, <2>4, <2>5
<1>4. ASSUME NEW r \in Requests, budgetPc[r] \notin {"idle", "done"}, budgetPc'[r] \notin {"idle", "done"},
             \A q \in Requests \ {r} : budgetPc'[q] = budgetPc[q]
      PROVE  \A k \in Kinds : Holders(k)' = Holders(k)
  BY <1>4 DEF Holders, Kind
<1>5. ASSUME NEW r \in Requests, Enter(r)
      PROVE  /\ active' \in [Kinds -> Nat]
             /\ \A k \in Kinds : active'[k] = Cardinality(Holders(k)') /\ active'[k] <= MaxActive[k]
  <2>1. CASE active[Kind(r)] < MaxActive[Kind(r)]
    BY <1>0, <1>2, <1>5, <2>1 DEF Enter, BudgetGoto
  <2>2. CASE ~(active[Kind(r)] < MaxActive[Kind(r)])
    <3>1. UNCHANGED active /\ \A k \in Kinds : Holders(k)' = Holders(k)
      BY <1>0, <1>5, <2>2 DEF Enter, BudgetGoto, Holders, Kind
    <3> QED
      BY <1>1, <3>1
  <2> QED
    BY <2>1, <2>2
<1>6. ASSUME NEW r \in Requests, Leave(r)
      PROVE  /\ active' \in [Kinds -> Nat]
             /\ \A k \in Kinds : active'[k] = Cardinality(Holders(k)') /\ active'[k] <= MaxActive[k]
  BY <1>0, <1>3, <1>6 DEF Leave, BudgetGoto
<1>7. ASSUME NEW r \in Requests,
             Quote(r) \/ Reserve(r) \/ BudgetRefused(r) \/ Called(r) \/ Refund(r) \/ RefundError(r)
      PROVE  UNCHANGED active /\ \A k \in Kinds : Holders(k)' = Holders(k)
  BY <1>0, <1>4, <1>7 DEF Quote, Reserve, BudgetRefused, Called, Refund, RefundError, BudgetGoto
<1>8. CASE BudgetCrash
  <2>1. \A k \in Kinds : Holders(k)' = {}
    BY <1>0, <1>8 DEF BudgetCrash, Holders
  <2>2. active' = [k \in Kinds |-> 0]
    BY <1>0, <1>8 DEF BudgetCrash
  <2> QED
    BY <1>0, <2>1, <2>2, FS_EmptySet
<1>9. CASE Midnight \/ UNCHANGED budgetVars
  BY <1>1, <1>9 DEF Midnight, budgetVars, Holders
<1> QED
  BY <1>1, <1>5, <1>6, <1>7, <1>8, <1>9 DEF BudgetNext, BudgetStep

LEMMA Numbers == /\ JudgeCost \in Nat /\ GenerationCost \in Nat /\ Limit \in Nat
                 /\ MaxDays \in Nat \ {0} /\ MaxBudgetCrashes \in Nat
                 /\ \A r \in Requests : Cost(r) \in Nat
  BY BudgetAssumption DEF Cost

LEMMA SpentType == ASSUME BudgetTypeOK PROVE Spent \in 0..Limit
  BY Numbers DEF BudgetTypeOK, Spent

(* A refund takes off what the same request was charged today. *)
LEMMA RefundFacts ==
  ASSUME BudgetTypeOK, Books, NEW r \in Requests, Refund(r), quote[r].date = day
  PROVE  /\ r \in Charged(day) /\ Cost(r) <= Spent
         /\ ledger' = [date |-> day, spent |-> Spent - Cost(r)]
         /\ returned' = [returned EXCEPT ![r] = TRUE]
<1>1. r \in Charged(day)
  <2>1. budgetPc[r] = "refund" /\ Charge(r)
    BY DEF Refund, Books
  <2>2. reserved[r] \in Nat /\ day \in Nat
    BY Numbers DEF BudgetTypeOK
  <2> QED
    BY <2>1, <2>2 DEF Charge, Charged
<1>2. Cost(r) <= Spent
  <2>1. Charged(day) \in SUBSET Requests
    BY DEF Charged
  <2> QED
    BY <1>1, <2>1, WorthOfOneLess DEF Books, LedgerIsExact
<1>3. Max({Spent, Cost(r)}) = Spent
  <2>1. Spent \in Nat /\ Cost(r) \in Nat
    BY Numbers, SpentType
  <2> QED
    BY <1>2, <2>1, MaxOfTwo
<1> QED
  BY <1>1, <1>2, <1>3 DEF Refund

LEMMA BudgetTypeStep ==
  ASSUME BudgetTypeOK, SlotsAreHeld, Books, [BudgetNext]_budgetVars
  PROVE  BudgetTypeOK'
<1>0. Spent \in 0..Limit /\ day \in 1..MaxDays
  BY SpentType DEF BudgetTypeOK
<1>1. active' \in [{"judge", "generation"} -> Nat]
  BY SlotsStep DEF Kinds
<1> DEFINE Others == /\ budgetPc' \in [Requests -> {"idle", "quote", "reserve", "call", "refund", "leave", "done"}]
                     /\ outcome' \in [Requests -> {"none", "ready", "failed", "unrefunded"}]
                     /\ returned' \in [Requests -> BOOLEAN]
                     /\ budgetCrashes' \in 0..MaxBudgetCrashes /\ day' \in 1..MaxDays
           Ledger == ledger' \in [date : 1..MaxDays, spent : 0..Limit]
           Dates  == /\ quote' \in [Requests -> [date : 0..MaxDays, spent : 0..Limit]]
                     /\ reserved' \in [Requests -> 0..MaxDays]
<1>2. ASSUME NEW r \in Requests, Enter(r) \/ BudgetRefused(r) \/ Called(r) \/ RefundError(r)
      PROVE  Others /\ Ledger /\ Dates
  BY <1>2 DEF BudgetTypeOK, Enter, BudgetRefused, Called, RefundError, BudgetGoto
<1>3. ASSUME NEW r \in Requests, Quote(r) PROVE Others /\ Ledger /\ Dates
  <2>1. [date |-> day, spent |-> Spent] \in [date : 0..MaxDays, spent : 0..Limit]
    BY <1>0, Numbers
  <2>2. quote' \in [Requests -> [date : 0..MaxDays, spent : 0..Limit]]
    BY <1>3, <2>1 DEF BudgetTypeOK, Quote
  <2> QED
    BY <1>3, <2>2 DEF BudgetTypeOK, Quote, BudgetGoto
<1>4. ASSUME NEW r \in Requests, Reserve(r) PROVE Others /\ Ledger /\ Dates
  <2>1. Spent + Cost(r) \in 0..Limit
    BY <1>0, <1>4, Numbers DEF Reserve
  <2>2. Ledger
    BY <1>0, <1>4, <2>1 DEF Reserve
  <2>3. day \in 0..MaxDays
    BY <1>0
  <2> QED
    BY <1>4, <2>2, <2>3 DEF BudgetTypeOK, Reserve, BudgetGoto
<1>5. ASSUME NEW r \in Requests, Refund(r) PROVE Others /\ Ledger /\ Dates
  <2>1. CASE quote[r].date = day
    <3>1. Cost(r) <= Spent /\ ledger' = [date |-> day, spent |-> Spent - Cost(r)]
          /\ returned' = [returned EXCEPT ![r] = TRUE]
      BY <1>5, <2>1, RefundFacts
    <3>2. Spent - Cost(r) \in 0..Limit
      BY <1>0, <3>1, Numbers
    <3>3. Ledger
      BY <1>0, <3>1, <3>2
    <3> QED
      BY <1>5, <3>1, <3>3 DEF BudgetTypeOK, Refund, BudgetGoto
  <2>2. CASE quote[r].date # day
    BY <1>5, <2>2 DEF BudgetTypeOK, Refund, BudgetGoto
  <2> QED
    BY <2>1, <2>2
<1>6. NoQuote \in [date : 0..MaxDays, spent : 0..Limit]
  BY Numbers DEF NoQuote
<1>7. ASSUME NEW r \in Requests, Leave(r) PROVE Others /\ Ledger /\ Dates
  BY <1>6, <1>7 DEF BudgetTypeOK, Leave, BudgetGoto
<1>8. CASE Midnight
  <2>1. day' \in 1..MaxDays
    BY <1>0, <1>8, Numbers DEF Midnight
  <2> QED
    BY <1>1, <1>8, <2>1 DEF BudgetTypeOK, Midnight
<1>9. CASE BudgetCrash
  <2>1. budgetCrashes' \in 0..MaxBudgetCrashes
    BY <1>9, Numbers DEF BudgetTypeOK, BudgetCrash
  <2> QED
    BY <1>1, <1>6, <1>9, <2>1 DEF BudgetTypeOK, BudgetCrash
<1>10. CASE UNCHANGED budgetVars
  BY <1>10 DEF BudgetTypeOK, budgetVars
<1>11. CASE \E r \in Requests : BudgetStep(r)
  <2>1. Others /\ Ledger /\ Dates
    BY <1>2, <1>3, <1>4, <1>5, <1>7, <1>11 DEF BudgetStep
  <2> QED
    BY <1>1, <2>1 DEF BudgetTypeOK
<1> QED
  BY <1>8, <1>9, <1>10, <1>11 DEF BudgetNext

LEMMA ChargeStep ==
  ASSUME BudgetTypeOK, Books, [BudgetNext]_budgetVars, NEW q \in Requests
  PROVE  Charge(q)'
<1>0. /\ budgetPc \in [Requests -> {"idle", "quote", "reserve", "call", "refund", "leave", "done"}]
      /\ reserved \in [Requests -> 0..MaxDays] /\ quote \in [Requests -> [date : 0..MaxDays, spent : 0..Limit]]
      /\ returned \in [Requests -> BOOLEAN] /\ day \in 1..MaxDays
  BY DEF BudgetTypeOK
<1>a. /\ Charge(q) /\ reserved[q] \in Nat /\ quote[q].date \in Nat /\ day \in Nat /\ 1 <= day
  BY <1>0, Numbers DEF Books
<1>1. ASSUME NEW r \in Requests, r # q, BudgetStep(r)
      PROVE  /\ day' = day /\ budgetPc'[q] = budgetPc[q] /\ reserved'[q] = reserved[q]
             /\ returned'[q] = returned[q] /\ quote'[q] = quote[q]
  BY <1>0, <1>1 DEF BudgetStep, Enter, Quote, Reserve, BudgetRefused, Called, Refund, RefundError, Leave, BudgetGoto
<1>2. CASE Enter(q) \/ BudgetRefused(q) \/ Called(q) \/ RefundError(q) \/ Leave(q)
  BY <1>0, <1>a, <1>2 DEF Enter, BudgetRefused, Called, RefundError, Leave, BudgetGoto, Charge
<1>3. CASE Quote(q)
  <2>1. /\ budgetPc[q] = "quote" /\ budgetPc'[q] = "reserve" /\ quote'[q] = [date |-> day, spent |-> Spent]
        /\ UNCHANGED <<day, reserved, returned>>
    BY <1>0, <1>3 DEF Quote, BudgetGoto
  <2> QED
    BY <1>a, <2>1 DEF Charge
<1>4. CASE Reserve(q)
  <2>1. /\ budgetPc[q] = "reserve" /\ budgetPc'[q] = "call" /\ reserved'[q] = day
        /\ UNCHANGED <<day, quote, returned>>
    BY <1>0, <1>4 DEF Reserve, BudgetGoto
  <2> QED
    BY <1>a, <2>1 DEF Charge
<1>5. CASE Refund(q)
  <2>1. budgetPc'[q] = "leave" /\ UNCHANGED <<day, quote, reserved>>
    BY <1>0, <1>5 DEF Refund, BudgetGoto
  <2> QED
    BY <1>a, <2>1 DEF Charge
<1>6. CASE Midnight
  <2>1. day' = day + 1 /\ UNCHANGED <<budgetPc, quote, reserved, returned>>
    BY <1>6 DEF Midnight
  <2> QED
    BY <1>a, <2>1 DEF Charge
<1>7. CASE BudgetCrash
  <2>1. /\ budgetPc'[q] = IF budgetPc[q] = "idle" THEN "idle" ELSE "done"
        /\ UNCHANGED <<day, reserved, returned>>
    BY <1>0, <1>7 DEF BudgetCrash
  <2> QED
    BY <1>a, <2>1 DEF Charge
<1>8. CASE UNCHANGED budgetVars
  BY <1>a, <1>8 DEF budgetVars, Charge
<1>9. CASE \E r \in Requests : r # q /\ BudgetStep(r)
  BY <1>a, <1>1, <1>9 DEF Charge
<1>10. CASE BudgetStep(q)
  BY <1>2, <1>3, <1>4, <1>5, <1>10 DEF BudgetStep
<1> QED
  BY <1>6, <1>7, <1>8, <1>9, <1>10 DEF BudgetNext

LEMMA BooksStep ==
  ASSUME BudgetTypeOK, Books, [BudgetNext]_budgetVars
  PROVE  Books'
<1>0. /\ reserved \in [Requests -> 0..MaxDays] /\ returned \in [Requests -> BOOLEAN]
      /\ day \in 1..MaxDays /\ ledger.date \in 1..MaxDays /\ Spent \in 0..Limit
  BY SpentType DEF BudgetTypeOK
<1>a. /\ ledger.date <= day /\ Spent = Worth(Charged(day))
      /\ \A d \in 1..MaxDays : Charged(d) \in SUBSET Requests /\ Worth(Charged(d)) <= Limit
  BY DEF Books, LedgerIsExact, WithinLimit, Charged
<1>b. SUFFICES /\ ledger'.date <= day' /\ Spent' = Worth(Charged(day))'
               /\ \A d \in 1..MaxDays : Worth(Charged(d)') <= Limit
  BY ChargeStep DEF Books, LedgerIsExact, WithinLimit, Worth
<1>1. CASE UNCHANGED <<day, ledger, reserved, returned>>
  BY <1>1, <1>a DEF Charged, Spent, Worth
<1>2. CASE Midnight
  <2>1. day' = day + 1 /\ UNCHANGED <<ledger, reserved, returned>>
    BY <1>2 DEF Midnight
  <2>2. ledger'.date <= day' /\ Spent' = 0
    BY <1>0, <1>a, <2>1, Numbers DEF Spent
  <2>3. \A r \in Requests : reserved[r] <= day
    BY DEF Books, Charge
  <2>4. Charged(day)' = {}
    BY <1>0, <2>1, <2>3, Numbers DEF Charged
  <2>5. \A d \in 1..MaxDays : Charged(d)' = Charged(d)
    BY <2>1 DEF Charged
  <2>6. Worth(Charged(day))' = Worth(Charged(day)')
    BY DEF Worth
  <2> QED
    BY <1>a, <2>2, <2>4, <2>5, <2>6, WorthOfNone
(* One request is charged, or gets back what it was charged, today. *)
<1>3. ASSUME NEW S \in SUBSET Requests, day' = day, ledger' = [date |-> day, spent |-> Worth(S)],
             Charged(day)' = S, Worth(S) <= Limit,
             \A d \in 1..MaxDays \ {day} : Charged(d)' = Charged(d)
      PROVE  /\ ledger'.date <= day' /\ Spent' = Worth(Charged(day))'
             /\ \A d \in 1..MaxDays : Worth(Charged(d)') <= Limit
  <2>1. ledger'.date = day' /\ Spent' = Worth(S)
    BY <1>3 DEF Spent
  <2>2. Worth(Charged(day))' = Worth(S)
    BY <1>3 DEF Worth
  <2>3. ASSUME NEW d \in 1..MaxDays PROVE Worth(Charged(d)') <= Limit
    <3>1. CASE d = day
      BY <1>3, <3>1 DEF Charged
    <3>2. CASE d # day
      BY <1>3, <1>a, <3>2
    <3> QED
      BY <3>1, <3>2
  <2>4. ledger'.date <= day'
    BY <1>0, <1>3, <2>1, Numbers
  <2>5. Spent' = Worth(Charged(day))'
    BY <2>1, <2>2
  <2> QED
    BY <2>3, <2>4, <2>5
<1>4. ASSUME NEW r \in Requests, Reserve(r)
      PROVE  /\ ledger'.date <= day' /\ Spent' = Worth(Charged(day))'
             /\ \A d \in 1..MaxDays : Worth(Charged(d)') <= Limit
  <2> DEFINE S == Charged(day) \cup {r}
  <2>1. reserved[r] = 0 /\ ~returned[r]
    BY <1>4 DEF Reserve, Books, Charge
  <2>2. day' = day /\ reserved' = [reserved EXCEPT ![r] = day] /\ returned' = returned
        /\ ledger' = [date |-> day, spent |-> Spent + Cost(r)] /\ Spent + Cost(r) <= Limit
    BY <1>4 DEF Reserve
  <2>3. Charged(day)' = S
    BY <1>0, <2>1, <2>2 DEF Charged
  <2>4. \A d \in 1..MaxDays \ {day} : Charged(d)' = Charged(d)
    BY <1>0, <2>1, <2>2, Numbers DEF Charged
  <2>5. r \notin Charged(day) /\ Charged(day) \in SUBSET Requests
    BY <1>0, <2>1, Numbers DEF Charged
  <2>6. Worth(S) = Spent + Cost(r)
    BY <1>a, <2>5, WorthOfOneMore
  <2>7. S \in SUBSET Requests
    BY <2>5
  <2> HIDE DEF S
  <2> QED
    BY <1>3, <2>2, <2>3, <2>4, <2>6, <2>7
<1>5. ASSUME NEW r \in Requests, Refund(r), quote[r].date = day
      PROVE  /\ ledger'.date <= day' /\ Spent' = Worth(Charged(day))'
             /\ \A d \in 1..MaxDays : Worth(Charged(d)') <= Limit
  <2> DEFINE S == Charged(day) \ {r}
  <2>1. /\ r \in Charged(day) /\ Cost(r) <= Spent
        /\ ledger' = [date |-> day, spent |-> Spent - Cost(r)]
        /\ returned' = [returned EXCEPT ![r] = TRUE]
    BY <1>5, RefundFacts
  <2>2. day' = day /\ reserved' = reserved
    BY <1>5 DEF Refund
  <2>3. Charged(day)' = S
    BY <1>0, <2>1, <2>2 DEF Charged
  <2>4. \A d \in 1..MaxDays \ {day} : Charged(d)' = Charged(d)
    BY <1>0, <2>1, <2>2 DEF Charged
  <2>5. Worth(S) = Spent - Cost(r)
    <3>1. Charged(day) \in SUBSET Requests /\ r \in Charged(day)
      BY <2>1 DEF Charged
    <3> QED
      BY <1>a, <3>1, WorthOfOneLess
  <2>6. S \in SUBSET Requests /\ Worth(S) <= Limit
    BY <1>0, <2>1, <2>5, Numbers DEF Charged
  <2> HIDE DEF S
  <2> QED
    BY <1>3, <2>1, <2>2, <2>3, <2>4, <2>5, <2>6
<1>6. ASSUME NEW r \in Requests, BudgetStep(r), ~Reserve(r), ~(Refund(r) /\ quote[r].date = day)
      PROVE  UNCHANGED <<day, ledger, reserved, returned>>
  BY <1>6 DEF BudgetStep, Enter, Quote, BudgetRefused, Called, Refund, RefundError, Leave
<1>7. CASE BudgetCrash \/ UNCHANGED budgetVars
  BY <1>1, <1>7 DEF BudgetCrash, budgetVars
<1> QED
  BY <1>1, <1>2, <1>4, <1>5, <1>6, <1>7 DEF BudgetNext

LEMMA Invariance == BudgetSpec => []BudgetInv
<1>1. BudgetInv /\ [BudgetNext]_budgetVars => BudgetInv'
  BY BudgetTypeStep, SlotsStep, BooksStep DEF BudgetInv
<1> QED
  BY <1>1, InitOK, PTL DEF BudgetSpec

(* Every reachable state is well typed; the ledger never shows more than the
   limit.                                                                   *)
THEOREM BudgetTypeCorrect == BudgetSpec => []BudgetTypeOK
  BY Invariance, PTL DEF BudgetInv

(* The ledger of today is what today's requests hold or have spent, and no
   day's requests are charged more than the limit.                          *)
THEOREM BudgetIsKeptHolds == BudgetSpec => []BudgetIsKept
  BY Invariance, PTL DEF BudgetInv, Books, BudgetIsKept

(* A slot is in use exactly while a request holds it. *)
THEOREM SlotsAreHeldHolds == BudgetSpec => []SlotsAreHeld
  BY Invariance, PTL DEF BudgetInv
-----------------------------------------------------------------------------
(* The inductive invariant. *)

(* The attempts.  What waits with its page or exchanges belongs to no later generation; once the
   user signs out, to an earlier one.                                       *)
Attempting(g) == (pending = g /\ opened = g) \/ callback[g] \in {"exchange", "granted"}

AttemptsOK ==
  /\ AttemptIsServed /\ opened <= generation
  /\ \A g \in Attempts : callback[g] # "none" => g <= generation
  /\ signedOut \/ mutex = "disconnect" => \A g \in Attempts : Attempting(g) => g # generation

(* After a sign-out there is nothing to renew. *)
SignOutOK ==
  signedOut => /\ \A u \in Users : use[u] # "refresh"
               /\ selected # NoAccount =>
                    session[selected] = NoToken /\ access[selected] \in {"none", "identity"}

(* A session is one account's, one attempt's or one reply's. *)
Spare(t) == t \in valid /\ \A a \in Accounts : session[a] # t

GrantsOK ==
  \A g \in Attempts : callback[g] = "granted" =>
    /\ granted[g][1] \in Accounts /\ Spare(granted[g][2])
    /\ \A h \in Attempts : callback[h] = "granted" /\ granted[h][2] = granted[g][2] => h = g

SessionsOK ==
  /\ \A a \in Accounts : session[a] <= minted
  /\ \A a, b \in Accounts : session[a] = session[b] /\ session[a] # NoToken => a = b

(* One user refreshes, and holds the file lock meanwhile. *)
Current(a) == a \in unsure \/ session[a] \in {NoToken} \cup valid

RefreshOK ==
  \A u \in Users :
    /\ reply[u] > 0 => /\ use[u] = "refresh" /\ Spare(reply[u])
                       /\ \A g \in Attempts : callback[g] = "granted" => granted[g][2] # reply[u]
    /\ use[u] = "refresh" => /\ filelock = u
                             /\ holds[u][1] \in Accounts /\ holds[u][2] = session[holds[u][1]]
                             /\ reply[u] > 0 \/ Current(holds[u][1])

PlanInv == /\ PlanTypeOK /\ AttemptsOK /\ SignOutOK
           /\ SessionsOK /\ GrantsOK /\ RefreshOK /\ SessionIsCurrent
-----------------------------------------------------------------------------
(* Types. *)

FileTypes == /\ selected \in Accounts \cup {NoAccount}
             /\ session \in [Accounts -> {NoToken} \cup Token]
             /\ access \in [Accounts -> {"none", "fresh", "due", "identity"}]

SignInTypes ==
  /\ generation \in Nat /\ pending \in 0..MaxGeneration
  /\ opened \in 0..MaxGeneration /\ alarm \in 0..MaxGeneration
  /\ listener \in BOOLEAN
  /\ rung \subseteq Attempts
  /\ callback \in [Attempts -> {"none", "exchange", "granted", "closing"}]
  /\ chosen \in [Attempts -> Accounts \cup {NoAccount}]
  /\ granted \in [Attempts -> Hand]

UseTypes ==
  /\ mutex \in {"free", "disconnect"} /\ filelock \in {"free", "disconnect"} \cup Users
  /\ use \in [Users -> {"idle", "bound", "refresh"}]
  /\ bound \in [Users -> Accounts \cup {NoAccount}]
  /\ holds \in [Users -> Hand]
  /\ reply \in [Users -> {Refused, NoToken} \cup Token]

RemoteTypes == /\ minted \in 0..MaxTokens /\ valid \subseteq 1..minted /\ unsure \subseteq Accounts
               /\ signedOut \in BOOLEAN

LEMMA PlanTypes == PlanTypeOK <=> FileTypes /\ SignInTypes /\ UseTypes /\ RemoteTypes
  BY DEF PlanTypeOK, FileTypes, SignInTypes, UseTypes, RemoteTypes

LEMMA SignInTypesStep ==
  ASSUME PlanTypeOK, [PlanNext]_planVars
  PROVE  SignInTypes'
<1> USE PlanAssumption DEF Attempts
<1>0. FileTypes /\ SignInTypes /\ UseTypes /\ RemoteTypes
  BY PlanTypes
<1>a. ASSUME listener' = FALSE \/ UNCHANGED listener
      PROVE  listener' \in BOOLEAN
  BY <1>0, <1>a DEF SignInTypes
<1>1. CASE UNCHANGED signIn
  BY <1>0, <1>1 DEF signIn, SignInTypes
<1>2. ASSUME NEW a \in Accounts \cup {NoAccount}, StartOAuth(a)
      PROVE  SignInTypes'
  <2>1. generation' = generation + 1 /\ generation' \in 1..MaxGeneration
    BY <1>0, <1>2 DEF StartOAuth, SignInTypes
  <2>2. chosen' \in [Attempts -> Accounts \cup {NoAccount}]
    BY <1>0, <1>2 DEF StartOAuth, SignInTypes
  <2>3. pending' \in 0..MaxGeneration /\ opened' \in 0..MaxGeneration /\ alarm' \in 0..MaxGeneration
    BY <1>0, <1>2, <2>1 DEF StartOAuth, SignInTypes
  <2>4. listener' = TRUE \/ UNCHANGED listener
    BY <1>2 DEF StartOAuth
  <2> QED
    <3>1. UNCHANGED <<rung, callback, granted>>
      BY <1>2 DEF StartOAuth
    <3>2. listener' \in BOOLEAN
      BY <1>0, <2>4 DEF SignInTypes
    <3> QED
      BY <1>0, <2>1, <2>2, <2>3, <3>1, <3>2 DEF SignInTypes
<1>3. ASSUME NEW g \in Attempts, Callback(g)
      PROVE  SignInTypes'
  <2>1. CASE Consume(g) \/ CallbackFails(g) \/ InstallSession(g) \/ CloseCallback(g)
    <3>1. NoHand \in Hand
      BY DEF NoHand, Hand
    <3>2. /\ callback' \in [Attempts -> {"none", "exchange", "granted", "closing"}]
          /\ chosen' \in [Attempts -> Accounts \cup {NoAccount}]
          /\ granted' \in [Attempts -> Hand]
      BY <1>0, <2>1, <3>1 DEF Consume, CallbackFails, InstallSession, CloseCallback, SignInTypes
    <3>3. listener' \in BOOLEAN
      BY <1>a, <2>1 DEF Consume, CallbackFails, InstallSession, CloseCallback, StopListener
    <3>4. /\ generation' = generation /\ rung' = rung /\ opened' = opened
          /\ pending' \in {0, pending} /\ alarm' \in {0, alarm}
      BY <2>1 DEF Consume, CallbackFails, InstallSession, CloseCallback, StopListener
    <3> QED
      BY <1>0, <3>2, <3>3, <3>4 DEF SignInTypes
  <2>2. ASSUME NEW a \in Accounts, Exchange(g, a)
        PROVE  SignInTypes'
    <3>1. minted' \in Token
      BY <1>0, <2>2 DEF Exchange, RemoteTypes, Token
    <3>2. <<a, minted'>> \in Hand
      BY <3>1 DEF Hand
    <3>3. /\ callback' \in [Attempts -> {"none", "exchange", "granted", "closing"}]
          /\ chosen' \in [Attempts -> Accounts \cup {NoAccount}]
          /\ granted' \in [Attempts -> Hand]
      BY <1>0, <2>2, <3>2 DEF Exchange, SignInTypes
    <3> QED
      BY <1>0, <2>2, <3>3 DEF Exchange, SignInTypes
  <2> QED
    BY <1>3, <2>1, <2>2 DEF Callback
<1>4. CASE AlarmRings
  BY <1>0, <1>4 DEF AlarmRings, SignInTypes
<1>12. CASE StrayCallback
  BY <1>0, <1>12 DEF StrayCallback, StopListener, SignInTypes
<1>5. ASSUME NEW g \in Attempts, ExpireAttempt(g)
      PROVE  SignInTypes'
  <2>1. listener' \in BOOLEAN
    BY <1>a, <1>5 DEF ExpireAttempt, CancelAttempt, StopListener
  <2> QED
    BY <1>0, <1>5, <2>1 DEF ExpireAttempt, CancelAttempt, StopListener, SignInTypes
<1>6. ASSUME NEW a \in Accounts, SelectProfile(a) \/ AccessAges(a)
      PROVE  SignInTypes'
  <2>1. listener' \in BOOLEAN
    BY <1>a, <1>6 DEF SelectProfile, AccessAges, CancelAttempt, StopListener, signIn
  <2> QED
    <3>1. CASE SelectProfile(a)
      BY <1>0, <2>1, <3>1 DEF SelectProfile, CancelAttempt, StopListener, SignInTypes
    <3>2. CASE AccessAges(a)
      BY <1>1, <3>2 DEF AccessAges
    <3> QED
      BY <1>6, <3>1, <3>2
<1>7. CASE DisconnectBegins
  <2>1. listener' \in BOOLEAN
    BY <1>a, <1>7 DEF DisconnectBegins, CancelAttempt, StopListener
  <2> QED
    BY <1>0, <1>7, <2>1 DEF DisconnectBegins, CancelAttempt, StopListener, SignInTypes
<1>8. CASE DisconnectRevokes \/ DisconnectSaves \/ DisconnectGivesUp
  BY <1>1, <1>8 DEF DisconnectRevokes, DisconnectSaves, DisconnectGivesUp
<1>9. ASSUME NEW u \in Users, TokenUser(u)
      PROVE  SignInTypes'
  BY <1>1, <1>9 DEF TokenUser, BindReview, AccessToken, Refresh, Rotate, SaveRotation, SaveRefusal,
                   LoseAnswer
<1>10. CASE RestartAPI
  <2>1. NoHand \in Hand
    BY DEF NoHand, Hand
  <2>2. listener' \in BOOLEAN
    BY <1>a, <1>10 DEF RestartAPI
  <2> QED
    BY <1>0, <1>10, <2>1, <2>2 DEF RestartAPI, SignInTypes
<1>11. CASE UNCHANGED planVars
  BY <1>1, <1>11 DEF planVars
<1> QED
  BY <1>2, <1>3, <1>4, <1>5, <1>6, <1>7, <1>8, <1>9, <1>10, <1>11, <1>12 DEF PlanNext

LEMMA FileTypesStep ==
  ASSUME PlanTypeOK, RefreshOK, GrantsOK, [PlanNext]_planVars
  PROVE  FileTypes'
<1>0. FileTypes /\ SignInTypes /\ UseTypes /\ RemoteTypes
  BY PlanTypes
<1>1. ASSUME NEW a \in Accounts, NEW t \in {NoToken} \cup Token, NEW s \in {"fresh", "due", "identity"},
             \/ session' = [session EXCEPT ![a] = t] \/ UNCHANGED session,
             access' = [access EXCEPT ![a] = s] \/ UNCHANGED access,
             selected' = a \/ UNCHANGED selected
      PROVE  FileTypes'
  BY <1>0, <1>1 DEF FileTypes
<1>2. CASE UNCHANGED file
  BY <1>0, <1>2 DEF file, FileTypes
<1>3. ASSUME NEW a \in Accounts \cup {NoAccount}, StartOAuth(a)
      PROVE  FileTypes'
  BY <1>2, <1>3 DEF StartOAuth
<1>4. ASSUME NEW g \in Attempts, Callback(g)
      PROVE  FileTypes'
  <2>1. CASE InstallSession(g) /\ Wanted(g)
    <3>1. granted[g][1] \in Accounts /\ granted[g][2] \in {NoToken} \cup Token
      BY <1>0, <2>1 DEF InstallSession, GrantsOK, SignInTypes, Hand
    <3> QED
      BY <1>1, <2>1, <3>1 DEF InstallSession
  <2>2. CASE InstallSession(g) /\ ~Wanted(g)
    BY <1>2, <2>2 DEF InstallSession
  <2> QED
    BY <1>2, <1>4, <2>1, <2>2 DEF Callback, Consume, Exchange, CallbackFails, CloseCallback
<1>5. ASSUME NEW g \in Attempts, AlarmRings \/ ExpireAttempt(g)
      PROVE  FileTypes'
  BY <1>2, <1>5 DEF AlarmRings, ExpireAttempt
<1>6. ASSUME NEW a \in Accounts, SelectProfile(a) \/ AccessAges(a)
      PROVE  FileTypes'
  BY <1>0, <1>6 DEF SelectProfile, AccessAges, FileTypes
<1>7. CASE DisconnectBegins \/ DisconnectRevokes \/ DisconnectGivesUp
  BY <1>2, <1>7 DEF DisconnectBegins, DisconnectRevokes, DisconnectGivesUp
<1>8. CASE DisconnectSaves
  BY <1>0, <1>8 DEF DisconnectSaves, Cleared, FileTypes
<1>9. ASSUME NEW u \in Users, TokenUser(u)
      PROVE  FileTypes'
  <2>1. CASE SaveRotation(u) \/ SaveRefusal(u)
    <3>1. holds[u][1] \in Accounts
      BY <2>1 DEF SaveRotation, SaveRefusal, RefreshOK
    <3>2. reply[u] > 0 => reply[u] \in {NoToken} \cup Token
      BY <1>0 DEF UseTypes, Token, Refused, NoToken
    <3> QED
      BY <1>1, <2>1, <3>1, <3>2 DEF SaveRotation, SaveRefusal, Renewed, Cleared
  <2> QED
    BY <1>2, <1>9, <2>1 DEF TokenUser, BindReview, AccessToken, Refresh, Rotate, LoseAnswer
<1>10. CASE RestartAPI \/ UNCHANGED planVars
  BY <1>2, <1>10 DEF RestartAPI, planVars
<1>11. CASE StrayCallback \/ AlarmRings
  BY <1>2, <1>11 DEF StrayCallback, AlarmRings
<1> QED
  BY <1>3, <1>4, <1>5, <1>6, <1>7, <1>8, <1>9, <1>10, <1>11 DEF PlanNext

LEMMA RemoteTypesStep ==
  ASSUME PlanTypeOK, RefreshOK, GrantsOK, [PlanNext]_planVars
  PROVE  RemoteTypes'
<1>0. FileTypes /\ SignInTypes /\ UseTypes /\ RemoteTypes
  BY PlanTypes
<1>1. minted' \in 0..MaxTokens /\ valid' \subseteq 1..minted'
  <2>1. CASE UNCHANGED remote
    BY <1>0, <2>1 DEF remote, RemoteTypes
  <2>2. ASSUME NEW g \in Attempts, NEW a \in Accounts, Exchange(g, a)
        PROVE  minted' \in 0..MaxTokens /\ valid' \subseteq 1..minted'
    BY <1>0, <2>2, PlanAssumption DEF Exchange, RemoteTypes
  <2>3. ASSUME NEW u \in Users, Rotate(u)
        PROVE  minted' \in 0..MaxTokens /\ valid' \subseteq 1..minted'
    <3>1. CASE UNCHANGED remote
      BY <2>1, <3>1
    <3>2. CASE /\ minted < MaxTokens /\ minted' = minted + 1
               /\ valid' = (valid \ {holds[u][2]}) \cup {minted'}
      <4>1. minted \in 0..MaxTokens /\ valid \subseteq 1..minted /\ MaxTokens \in Nat
        BY <1>0, PlanAssumption DEF RemoteTypes
      <4>2. minted' \in 0..MaxTokens /\ 1..minted \subseteq 1..minted' /\ minted' \in 1..minted'
        BY <3>2, <4>1
      <4> QED
        BY <3>2, <4>1, <4>2
    <3> QED
      BY <2>3, <3>1, <3>2 DEF Rotate
  <2>4. CASE DisconnectRevokes
    BY <1>0, <2>4 DEF DisconnectRevokes, RemoteTypes
  <2> QED
    BY <2>1, <2>2, <2>3, <2>4
       DEF PlanNext, StartOAuth, Callback, Consume, CallbackFails, InstallSession, CloseCallback,
           StrayCallback, AlarmRings, ExpireAttempt, SelectProfile, AccessAges, DisconnectBegins, DisconnectSaves, DisconnectGivesUp,
           TokenUser, BindReview, AccessToken, Refresh, SaveRotation, SaveRefusal, LoseAnswer, RestartAPI,
           planVars
<1>2. signedOut' \in BOOLEAN
  <2>1. \/ signedOut' = TRUE \/ signedOut' = FALSE \/ UNCHANGED signedOut
    BY DEF PlanNext, StartOAuth, Callback, Consume, Exchange, CallbackFails, InstallSession, CloseCallback,
           StrayCallback, AlarmRings, ExpireAttempt, SelectProfile, AccessAges, DisconnectBegins, DisconnectRevokes,
           DisconnectSaves, DisconnectGivesUp, TokenUser, BindReview, AccessToken, Refresh, Rotate,
           SaveRotation, SaveRefusal, LoseAnswer, RestartAPI, planVars
  <2> QED
    BY <1>0, <2>1 DEF RemoteTypes
<1>3. unsure' \subseteq Accounts
  <2>1. CASE UNCHANGED unsure
    BY <1>0, <2>1 DEF RemoteTypes
  <2>2. ASSUME NEW g \in Attempts, InstallSession(g)
        PROVE  unsure' \subseteq Accounts
    BY <1>0, <2>2 DEF InstallSession, RemoteTypes
  <2>3. CASE DisconnectRevokes \/ DisconnectSaves
    BY <1>0, <2>3 DEF DisconnectRevokes, DisconnectSaves, FileTypes, RemoteTypes
  <2>4. ASSUME NEW u \in Users, SaveRotation(u) \/ SaveRefusal(u) \/ LoseAnswer(u)
        PROVE  unsure' \subseteq Accounts
    BY <1>0, <2>4 DEF SaveRotation, SaveRefusal, LoseAnswer, RefreshOK, RemoteTypes
  <2>5. CASE RestartAPI
    <3>1. \A t \in Threads : reply[t] > 0 => holds[t][1] \in Accounts
      BY DEF RefreshOK, Users
    <3> QED
      BY <1>0, <2>5, <3>1 DEF RestartAPI, RemoteTypes
  <2> QED
    BY <2>1, <2>2, <2>3, <2>4, <2>5
       DEF PlanNext, StartOAuth, Callback, Consume, Exchange, CallbackFails, CloseCallback,
           StrayCallback, AlarmRings, ExpireAttempt, SelectProfile, AccessAges, DisconnectBegins, DisconnectGivesUp,
           TokenUser, BindReview, AccessToken, Refresh, Rotate, planVars
<1> QED
  BY <1>1, <1>2, <1>3 DEF RemoteTypes

LEMMA UseTypesStep ==
  ASSUME PlanTypeOK, [PlanNext]_planVars
  PROVE  UseTypes'
<1>0. FileTypes /\ SignInTypes /\ UseTypes /\ RemoteTypes
  BY PlanTypes
<1>1. mutex' \in {"free", "disconnect"}
  BY <1>0
     DEF PlanNext, StartOAuth, Callback, Consume, Exchange, CallbackFails, InstallSession, CloseCallback,
         StrayCallback, AlarmRings, ExpireAttempt, SelectProfile, AccessAges, DisconnectBegins, DisconnectRevokes,
         DisconnectSaves, DisconnectGivesUp, TokenUser, BindReview, AccessToken, Refresh, Rotate,
         SaveRotation, SaveRefusal, LoseAnswer, RestartAPI, planVars, UseTypes
<1>2. filelock' \in {"free", "disconnect"} \cup Users
  BY <1>0
     DEF PlanNext, StartOAuth, Callback, Consume, Exchange, CallbackFails, InstallSession, CloseCallback,
         StrayCallback, AlarmRings, ExpireAttempt, SelectProfile, AccessAges, DisconnectBegins, DisconnectRevokes,
         DisconnectSaves, DisconnectGivesUp, TokenUser, BindReview, AccessToken, Refresh, Rotate,
         SaveRotation, SaveRefusal, LoseAnswer, Unlock, RestartAPI, planVars, UseTypes
<1>3. NoHand \in Hand
  BY DEF NoHand, Hand
<1> DEFINE Tokens == /\ use' \in [Users -> {"idle", "bound", "refresh"}]
                     /\ bound' \in [Users -> Accounts \cup {NoAccount}]
                     /\ holds' \in [Users -> Hand]
                     /\ reply' \in [Users -> {Refused, NoToken} \cup Token]
<1>4. Tokens
  <2>1. CASE UNCHANGED tokenUse
    BY <1>0, <2>1 DEF tokenUse, UseTypes
  <2>2. ASSUME NEW u \in Users, BindReview(u)
        PROVE  Tokens
    BY <1>0, <2>2 DEF BindReview, FileTypes, UseTypes
  <2>3. ASSUME NEW u \in Users, LetGo(u)
        PROVE  Tokens
    BY <1>0, <1>3, <2>3 DEF LetGo, UseTypes
  <2>4. ASSUME NEW u \in Users, Refresh(u)
        PROVE  Tokens
    <3>1. <<selected, session[selected]>> \in Hand
      BY <1>0, <2>4 DEF Refresh, MustRefresh, MayUse, FileTypes, Hand
    <3> QED
      BY <1>0, <2>4, <3>1 DEF Refresh, Read, UseTypes
  <2>5. ASSUME NEW u \in Users, Rotate(u)
        PROVE  Tokens
    <3>1. \E r \in {Refused, NoToken} \cup Token : reply' = [reply EXCEPT ![u] = r]
      <4>1. CASE holds[u][2] \in valid
        <5>1. minted' \in Token /\ reply' = [reply EXCEPT ![u] = minted']
          BY <1>0, <2>5, <4>1, PlanAssumption DEF Rotate, RemoteTypes, Token
        <5> QED
          BY <5>1
      <4>2. CASE holds[u][2] \notin valid
        BY <2>5, <4>2 DEF Rotate
      <4> QED
        BY <4>1, <4>2
    <3>2. UNCHANGED <<use, bound, holds>>
      BY <2>5 DEF Rotate
    <3> QED
      BY <1>0, <3>1, <3>2 DEF UseTypes
  <2>6. CASE RestartAPI
    BY <1>0, <1>3, <2>6 DEF RestartAPI, UseTypes
  <2>7. ASSUME NEW u \in Users, TokenUser(u)
        PROVE  Tokens
    BY <2>2, <2>3, <2>4, <2>5, <2>7 DEF TokenUser, AccessToken, SaveRotation, SaveRefusal, LoseAnswer
  <2> HIDE DEF Tokens
  <2> QED
    BY <2>1, <2>6, <2>7
       DEF PlanNext, StartOAuth, Callback, Consume, Exchange, CallbackFails, InstallSession, CloseCallback,
           StrayCallback, AlarmRings, ExpireAttempt, SelectProfile, AccessAges, DisconnectBegins, DisconnectRevokes,
           DisconnectSaves, DisconnectGivesUp, planVars
<1> QED
  BY <1>1, <1>2, <1>4 DEF UseTypes
-----------------------------------------------------------------------------
(* Attempts and sign-outs. *)

LEMMA AttemptsStep ==
  ASSUME PlanInv, [PlanNext]_planVars
  PROVE  AttemptsOK'
<1> USE DEF AttemptsOK, Attempting
<1>0. FileTypes /\ SignInTypes /\ UseTypes /\ RemoteTypes /\ AttemptsOK
  BY PlanTypes DEF PlanInv
<1>1. CASE UNCHANGED signIn /\ (signedOut' => signedOut) /\ (mutex' = "disconnect" => mutex = "disconnect")
  BY <1>0, <1>1 DEF signIn, AttemptIsServed
<1>2. ASSUME NEW a \in Accounts \cup {NoAccount}, StartOAuth(a)
      PROVE  AttemptsOK'
  <2>1. generation' = generation + 1 /\ generation \in Nat /\ mutex' # "disconnect" /\ UNCHANGED callback
    BY <1>0, <1>2 DEF StartOAuth, SignInTypes, Unlocked
  <2>2. \/ /\ pending' = generation' /\ opened' = generation' /\ ~signedOut'
           /\ listener' = TRUE /\ alarm' = generation'
        \/ pending' \in {0, generation'} /\ opened' = opened /\ signedOut' = signedOut
    BY <1>2 DEF StartOAuth
  <2>3. opened \in Nat /\ opened <= generation
    BY <1>0 DEF SignInTypes
  <2>4. AttemptIsServed' /\ opened' <= generation'
    BY <2>1, <2>2, <2>3 DEF AttemptIsServed
  <2>5. \A g \in Attempts : callback'[g] # "none" => g <= generation'
    BY <1>0, <2>1 DEF Attempts
  <2>6. \A g \in Attempts : callback'[g] \in {"exchange", "granted"} => g # generation'
    BY <1>0, <2>1 DEF Attempts
  <2>7. signedOut' => \A g \in Attempts : Attempting(g)' => g # generation'
    BY <2>1, <2>2, <2>3, <2>6
  <2> QED
    BY <2>1, <2>4, <2>5, <2>7
<1>3. ASSUME NEW g \in Attempts, Callback(g)
      PROVE  AttemptsOK'
  <2>1. CASE Consume(g)
    <3>1. g = generation /\ pending = g /\ opened = g /\ g # 0
      BY <1>0, <2>1 DEF Consume, AttemptIsServed, Attempts
    <3>2. ~signedOut /\ mutex = "free"
      BY <1>0, <2>1, <3>1 DEF Consume
    <3> QED
      BY <1>0, <2>1, <3>1, <3>2 DEF Consume, AttemptIsServed, SignInTypes, Attempts
  <2>2. ASSUME NEW a \in Accounts, Exchange(g, a)
        PROVE  AttemptsOK'
    <3>1. /\ UNCHANGED <<generation, pending, opened, listener, alarm, rung, signedOut, mutex>>
          /\ callback[g] = "exchange" /\ callback' = [callback EXCEPT ![g] = "granted"]
      BY <2>2 DEF Exchange
    <3> QED
      BY <1>0, <3>1 DEF AttemptIsServed, SignInTypes
  <2>3. CASE CallbackFails(g) \/ InstallSession(g)
    <3>1. /\ UNCHANGED <<generation, pending, opened, listener, alarm, rung, signedOut, mutex>>
          /\ callback[g] # "none" /\ callback' = [callback EXCEPT ![g] = "closing"]
      BY <2>3 DEF CallbackFails, InstallSession
    <3> QED
      BY <1>0, <3>1 DEF AttemptIsServed, SignInTypes
  <2>4. CASE CloseCallback(g)
    <3>1. /\ UNCHANGED <<generation, pending, opened, rung, signedOut, mutex>>
          /\ callback' = [callback EXCEPT ![g] = "none"]
          /\ pending # 0 => UNCHANGED <<listener, alarm>>
      BY <2>4 DEF CloseCallback
    <3> QED
      BY <1>0, <3>1 DEF AttemptIsServed, SignInTypes
  <2> QED
    BY <1>3, <2>1, <2>2, <2>3, <2>4 DEF Callback
<1>4. CASE AlarmRings
  BY <1>0, <1>4 DEF AlarmRings, AttemptIsServed
<1>13. CASE StrayCallback
  BY <1>0, <1>13 DEF StrayCallback, StopListener, AttemptIsServed
<1>5. ASSUME NEW g \in Attempts, ExpireAttempt(g)
      PROVE  AttemptsOK'
  <2>1. CASE g = generation
    BY <1>0, <1>5, <2>1 DEF ExpireAttempt, CancelAttempt, StopListener, AttemptIsServed, SignInTypes, Attempts
  <2>2. CASE g # generation
    BY <1>0, <1>5, <2>2 DEF ExpireAttempt, AttemptIsServed
  <2> QED
    BY <2>1, <2>2
<1>6. ASSUME NEW a \in Accounts, SelectProfile(a)
      PROVE  AttemptsOK'
  BY <1>0, <1>6 DEF SelectProfile, CancelAttempt, StopListener, AttemptIsServed, SignInTypes, Attempts
<1>7. CASE DisconnectBegins
  BY <1>0, <1>7 DEF DisconnectBegins, CancelAttempt, StopListener, AttemptIsServed, SignInTypes, Attempts
<1>8. CASE DisconnectSaves
  BY <1>0, <1>8 DEF DisconnectSaves, signIn, AttemptIsServed
<1>9. CASE RestartAPI
  BY <1>0, <1>9 DEF RestartAPI, AttemptIsServed, Attempts
<1> HIDE DEF AttemptsOK
<1>10. CASE DisconnectRevokes \/ DisconnectGivesUp \/ UNCHANGED planVars
  BY <1>1, <1>10 DEF DisconnectRevokes, DisconnectGivesUp, planVars
<1>11. ASSUME NEW a \in Accounts, AccessAges(a)
       PROVE  AttemptsOK'
  BY <1>1, <1>11 DEF AccessAges
<1>12. ASSUME NEW u \in Users, TokenUser(u)
       PROVE  AttemptsOK'
  BY <1>1, <1>12 DEF TokenUser, BindReview, AccessToken, Refresh, Rotate, SaveRotation, SaveRefusal, LoseAnswer
<1> QED
  BY <1>2, <1>3, <1>4, <1>5, <1>6, <1>7, <1>8, <1>9, <1>10, <1>11, <1>12, <1>13 DEF PlanNext

LEMMA SignOutStep ==
  ASSUME PlanInv, [PlanNext]_planVars
  PROVE  SignOutOK'
<1> USE DEF SignOutOK
<1>0. FileTypes /\ SignInTypes /\ UseTypes /\ RemoteTypes /\ SignOutOK
  BY PlanTypes DEF PlanInv
<1>1. CASE ~signedOut'
  BY <1>1
<1>2. CASE UNCHANGED file /\ (signedOut' => signedOut) /\ \A u \in Users : use'[u] = "refresh" => use[u] = "refresh"
  BY <1>0, <1>2 DEF file
<1>3. ASSUME NEW g \in Attempts, InstallSession(g)
      PROVE  SignOutOK'
  <2>1. signedOut => ~Wanted(g)
    BY <1>3 DEF PlanInv, AttemptsOK, Attempting, InstallSession, Wanted
  <2> QED
    BY <1>2, <1>3, <2>1 DEF InstallSession, file, tokenUse
<1>4. ASSUME NEW a \in Accounts, AccessAges(a)
      PROVE  SignOutOK'
  <2>1. signedOut => a # selected
    BY <1>0, <1>4, PlanAssumption DEF AccessAges, SignOutOK, FileTypes
  <2>2. access' = [access EXCEPT ![a] = "due"] /\ UNCHANGED <<selected, session, signedOut, use>>
    BY <1>4 DEF AccessAges, tokenUse
  <2> QED
    BY <1>0, <2>1, <2>2 DEF FileTypes
<1>5. CASE DisconnectSaves
  <2>1. \A u \in Users : use'[u] # "refresh"
    BY <1>5, PlanAssumption DEF PlanInv, RefreshOK, DisconnectSaves, tokenUse, Users
  <2>2. selected' # NoAccount => session'[selected'] = NoToken /\ access'[selected'] = "identity"
    BY <1>0, <1>5 DEF DisconnectSaves, Cleared, FileTypes
  <2> QED
    BY <2>1, <2>2
<1>6. ASSUME NEW u \in Users, TokenUser(u)
      PROVE  SignOutOK'
  <2>1. CASE BindReview(u) \/ Rotate(u) \/ AccessToken(u) \/ LoseAnswer(u)
    <3>1. \A v \in Users : use'[v] = "refresh" => use[v] = "refresh"
      BY <1>0, <2>1 DEF BindReview, AccessToken, Rotate, LoseAnswer, LetGo, UseTypes
    <3> QED
      BY <1>2, <2>1, <3>1 DEF BindReview, AccessToken, Rotate, LoseAnswer
  <2>2. CASE Refresh(u)
    BY <1>0, <2>2 DEF Refresh, MustRefresh, MayUse
  <2>3. CASE SaveRotation(u) \/ SaveRefusal(u)
    BY <1>0, <2>3 DEF SaveRotation, SaveRefusal
  <2> QED
    BY <1>6, <2>1, <2>2, <2>3 DEF TokenUser
<1>7. CASE RestartAPI
  BY <1>2, <1>7 DEF RestartAPI
<1> HIDE DEF SignOutOK
<1>8. CASE UNCHANGED <<file, tokenUse, signedOut>>
  BY <1>2, <1>8 DEF tokenUse
<1>9. ASSUME NEW a \in Accounts \cup {NoAccount}, StartOAuth(a)
      PROVE  SignOutOK'
  BY <1>1, <1>8, <1>9 DEF StartOAuth
<1>10. ASSUME NEW a \in Accounts, SelectProfile(a)
       PROVE  SignOutOK'
  BY <1>1, <1>8, <1>10 DEF SelectProfile, file
<1>11. ASSUME NEW g \in Attempts, Callback(g) \/ ExpireAttempt(g)
       PROVE  SignOutOK'
  BY <1>3, <1>8, <1>11 DEF Callback, Consume, Exchange, CallbackFails, CloseCallback, ExpireAttempt
<1>12. CASE StrayCallback \/ AlarmRings \/ DisconnectBegins \/ DisconnectRevokes \/ DisconnectGivesUp
            \/ UNCHANGED planVars
  BY <1>8, <1>12 DEF StrayCallback, AlarmRings, DisconnectBegins, DisconnectRevokes, DisconnectGivesUp, planVars
<1> QED
  BY <1>4, <1>5, <1>6, <1>7, <1>9, <1>10, <1>11, <1>12 DEF PlanNext
-----------------------------------------------------------------------------
(* Sessions. *)

TokensOK == SessionsOK /\ GrantsOK /\ RefreshOK /\ SessionIsCurrent

(* Who holds the file lock for a refresh is the one who refreshes. *)
LEMMA OneRefreshes ==
  ASSUME RefreshOK, NEW u \in Users, NEW v \in Users, use[u] = "refresh", use[v] = "refresh"
  PROVE  u = v
  BY DEF RefreshOK

LEMMA NoRefresh ==
  ASSUME PlanTypeOK, TokensOK, filelock \notin Users
  PROVE  /\ \A u \in Users : use[u] # "refresh" /\ ~(reply[u] > 0)
         /\ \A a \in Accounts : Current(a)
<1>1. \A u \in Users : use[u] # "refresh" /\ ~(reply[u] > 0)
  BY DEF TokensOK, RefreshOK
<1> QED
  BY <1>1 DEF TokensOK, SessionIsCurrent, Current

(* The grants, the sessions and the refreshes are as they were, or fewer. *)
SameGrants == \A g \in Attempts : callback'[g] = "granted" => callback[g] = "granted" /\ granted'[g] = granted[g]
SameSessions == UNCHANGED <<session, valid, minted, unsure, filelock>>
SameRefreshes ==
  \A u \in Users : /\ use[u] = "refresh" \/ use'[u] = "refresh" =>
                        use'[u] = use[u] /\ holds'[u] = holds[u] /\ reply'[u] = reply[u]
                   /\ reply'[u] > 0 => reply'[u] = reply[u]

LEMMA SameTokens ==
  ASSUME TokensOK, SameGrants, SameSessions, SameRefreshes
  PROVE  TokensOK'
<1>1. SessionsOK'
  BY DEF TokensOK, SessionsOK, SameSessions
<1>2. GrantsOK'
  BY DEF TokensOK, GrantsOK, SameGrants, SameSessions, Spare
<1>3. RefreshOK'
  BY DEF TokensOK, RefreshOK, SameGrants, SameSessions, SameRefreshes, Spare, Current
<1>4. SessionIsCurrent'
  BY DEF TokensOK, SessionIsCurrent, SameSessions, SameRefreshes
<1> QED
  BY <1>1, <1>2, <1>3, <1>4 DEF TokensOK

LEMMA AttemptTokens ==
  ASSUME PlanInv, TokensOK, NEW g \in Attempts, Callback(g)
  PROVE  TokensOK'
<1>0. FileTypes /\ SignInTypes /\ UseTypes /\ RemoteTypes
  BY PlanTypes DEF PlanInv
<1>1. ASSUME SameGrants, SameSessions, UNCHANGED tokenUse
      PROVE  TokensOK'
  BY <1>1, SameTokens DEF SameRefreshes, tokenUse
<1>2. CASE Consume(g) \/ CallbackFails(g) \/ CloseCallback(g) \/ (InstallSession(g) /\ ~Wanted(g))
  <2>1. SameGrants
    BY <1>0, <1>2 DEF Consume, CallbackFails, CloseCallback, InstallSession, SameGrants, SignInTypes
  <2> QED
    BY <1>1, <1>2, <2>1 DEF Consume, CallbackFails, CloseCallback, InstallSession, SameSessions, file, remote
<1>3. ASSUME NEW a \in Accounts, Exchange(g, a)
      PROVE  TokensOK'
  <2> DEFINE n == minted + 1
  <2>1. /\ UNCHANGED <<session, unsure, filelock, use, holds, reply>>
        /\ minted' = n /\ valid' = valid \cup {n} /\ minted \in Nat
        /\ granted' = [granted EXCEPT ![g] = <<a, n>>] /\ callback' = [callback EXCEPT ![g] = "granted"]
    BY <1>0, <1>3 DEF Exchange, file, tokenUse, RemoteTypes
  <2>2. n \notin valid /\ (\A b \in Accounts : session[b] # n /\ session[b] <= n) /\ n > minted
    BY <1>0, <2>1 DEF TokensOK, SessionsOK, RemoteTypes, FileTypes, Token, NoToken
  <2>3. SessionsOK'
    BY <2>1, <2>2 DEF TokensOK, SessionsOK
  <2>4. /\ granted'[g] = <<a, n>>
        /\ \A h \in Attempts : h # g => granted'[h] = granted[h] /\ callback'[h] = callback[h]
    BY <1>0, <2>1 DEF SignInTypes
  <2>5. \A h \in Attempts : h # g /\ callback'[h] = "granted" =>
          granted'[h][1] \in Accounts /\ granted'[h][2] \in valid /\ \A b \in Accounts : session[b] # granted'[h][2]
    BY <2>4 DEF TokensOK, GrantsOK, Spare
  <2>6. GrantsOK'
    BY <2>1, <2>2, <2>4, <2>5 DEF TokensOK, GrantsOK, Spare
  <2>7. \A u \in Users : reply[u] > 0 => reply[u] \in valid
    BY DEF TokensOK, RefreshOK, Spare
  <2>8. RefreshOK'
    BY <2>1, <2>2, <2>4, <2>7 DEF TokensOK, RefreshOK, Spare, Current
  <2>9. SessionIsCurrent'
    BY <2>1 DEF TokensOK, SessionIsCurrent
  <2> QED
    BY <2>3, <2>6, <2>8, <2>9 DEF TokensOK
<1>4. CASE InstallSession(g) /\ Wanted(g)
  <2> DEFINE a == granted[g][1]
             t == granted[g][2]
  <2>1. a \in Accounts /\ Spare(t) /\ t <= minted
    <3>1. a \in Accounts /\ Spare(t)
      BY <1>4 DEF InstallSession, TokensOK, GrantsOK
    <3>2. t \in 1..minted
      BY <1>0, <3>1 DEF Spare, RemoteTypes
    <3> QED
      BY <1>0, <3>1, <3>2 DEF RemoteTypes
  <2>2. /\ session' = [session EXCEPT ![a] = t] /\ unsure' = unsure \ {a}
        /\ callback' = [callback EXCEPT ![g] = "closing"] /\ granted' = [granted EXCEPT ![g] = NoHand]
        /\ UNCHANGED <<minted, valid, filelock, use, holds, reply>> /\ callback[g] = "granted"
    BY <1>4 DEF InstallSession, tokenUse, remote
  <2>3. /\ \A u \in Users : use[u] # "refresh" /\ ~(reply[u] > 0)
        /\ \A b \in Accounts : Current(b)
    BY <1>4, NoRefresh, PlanAssumption DEF InstallSession, Unlocked, PlanInv, Users
  <2>4. session'[a] = t /\ \A b \in Accounts : b # a => session'[b] = session[b]
    BY <1>0, <2>1, <2>2 DEF FileTypes
  <2>5. \A h \in Attempts : callback'[h] = "granted" =>
          h # g /\ callback[h] = "granted" /\ granted'[h] = granted[h] /\ granted[h][2] # t
    BY <1>0, <2>2 DEF SignInTypes, TokensOK, GrantsOK
  <2> HIDE DEF a, t
  <2>6. SessionsOK'
    BY <2>1, <2>2, <2>4 DEF TokensOK, SessionsOK, Spare
  <2>7. \A h \in Attempts : callback'[h] = "granted" => \A b \in Accounts : session'[b] # granted'[h][2]
    BY <2>4, <2>5 DEF TokensOK, GrantsOK, Spare
  <2>8. GrantsOK'
    BY <2>2, <2>5, <2>7 DEF TokensOK, GrantsOK, Spare
  <2>9. RefreshOK'
    BY <2>2, <2>3 DEF RefreshOK
  <2>10. SessionIsCurrent'
    BY <2>1, <2>2, <2>3, <2>4 DEF SessionIsCurrent, Current, Spare
  <2> QED
    BY <2>6, <2>8, <2>9, <2>10 DEF TokensOK
<1> QED
  BY <1>2, <1>3, <1>4 DEF Callback

LEMMA DisconnectTokens ==
  ASSUME PlanInv, TokensOK,
         DisconnectRevokes \/ DisconnectSaves \/ (DisconnectGivesUp /\ filelock = "disconnect")
  PROVE  TokensOK'
<1>0. FileTypes /\ SignInTypes /\ UseTypes /\ RemoteTypes
  BY PlanTypes DEF PlanInv
<1>1. filelock \notin Users /\ UNCHANGED <<minted, callback, granted, use, holds, reply, selected>>
  BY PlanAssumption DEF DisconnectRevokes, DisconnectSaves, DisconnectGivesUp, signIn, tokenUse, remote, file,
                        Users
<1>2. /\ \A u \in Users : use[u] # "refresh" /\ ~(reply[u] > 0)
      /\ \A b \in Accounts : Current(b)
  BY <1>1, NoRefresh DEF PlanInv
<1>3. RefreshOK'
  BY <1>1, <1>2 DEF RefreshOK
<1>4. CASE DisconnectRevokes
  <2>1. UNCHANGED session /\ \/ UNCHANGED <<valid, unsure>>
                             \/ /\ selected \in Accounts /\ valid' = valid \ {session[selected]}
                                /\ unsure' = unsure \cup {selected}
    BY <1>0, <1>4 DEF DisconnectRevokes, file, FileTypes
  <2>2. SessionsOK'
    BY <1>1, <2>1 DEF TokensOK, SessionsOK
  <2>3. GrantsOK'
    BY <1>1, <2>1 DEF TokensOK, GrantsOK, Spare
  <2>4. SessionIsCurrent'
    BY <1>2, <2>1 DEF TokensOK, SessionsOK, SessionIsCurrent, Current
  <2> QED
    BY <1>3, <2>2, <2>3, <2>4 DEF TokensOK
<1>5. CASE DisconnectSaves
  <2>1. /\ UNCHANGED valid
        /\ \/ UNCHANGED <<session, unsure>>
           \/ /\ selected \in Accounts /\ session' = [session EXCEPT ![selected] = NoToken]
              /\ unsure' = unsure \ {selected}
    BY <1>0, <1>5 DEF DisconnectSaves, remote, FileTypes, Cleared
  <2>2. \A b \in Accounts : session'[b] = session[b] \/ (session'[b] = NoToken /\ unsure' = unsure \ {b})
    BY <1>0, <2>1 DEF FileTypes
  <2>3. \A b \in Accounts : session'[b] = session[b] \/ session'[b] = NoToken
    BY <2>2
  <2>4. SessionsOK'
    BY <1>0, <1>1, <2>3 DEF TokensOK, SessionsOK, RemoteTypes, NoToken
  <2>5. NoToken \notin valid
    BY <1>0 DEF RemoteTypes, NoToken
  <2>6. GrantsOK'
    BY <1>1, <2>1, <2>3, <2>5 DEF TokensOK, GrantsOK, Spare
  <2>7. SessionIsCurrent'
    BY <1>0, <1>2, <2>1 DEF SessionIsCurrent, Current, FileTypes
  <2> QED
    BY <1>3, <2>4, <2>6, <2>7 DEF TokensOK
<1>6. CASE DisconnectGivesUp
  <2>1. UNCHANGED <<session, valid, unsure>>
    BY <1>6 DEF DisconnectGivesUp, file, remote
  <2>2. SessionsOK' /\ GrantsOK'
    BY <1>1, <2>1 DEF TokensOK, SessionsOK, GrantsOK, Spare
  <2>3. SessionIsCurrent'
    BY <1>2, <2>1 DEF SessionIsCurrent, Current
  <2> QED
    BY <1>3, <2>2, <2>3 DEF TokensOK
<1> QED
  BY <1>4, <1>5, <1>6

LEMMA UserTokens ==
  ASSUME PlanInv, TokensOK, NEW u \in Users, TokenUser(u)
  PROVE  TokensOK'
<1>0. FileTypes /\ SignInTypes /\ UseTypes /\ RemoteTypes
  BY PlanTypes DEF PlanInv
<1>1. SameGrants
  BY DEF SameGrants, TokenUser, BindReview, AccessToken, Refresh, Rotate, SaveRotation, SaveRefusal, LoseAnswer,
         signIn
<1>2. CASE BindReview(u) \/ AccessToken(u)
  <2>1. SameSessions
    BY <1>2 DEF BindReview, AccessToken, SameSessions, file, remote
  <2>2. use[u] # "refresh" /\ use'[u] # "refresh" /\ reply'[u] \in {reply[u], NoToken}
    BY <1>0, <1>2 DEF BindReview, AccessToken, Ready, LetGo, UseTypes
  <2>3. \A v \in Users : v # u => use'[v] = use[v] /\ holds'[v] = holds[v] /\ reply'[v] = reply[v]
    BY <1>0, <1>2 DEF BindReview, AccessToken, LetGo, UseTypes
  <2>4. SameRefreshes
    BY <2>2, <2>3 DEF SameRefreshes, NoToken
  <2> QED
    BY <1>1, <2>1, <2>4, SameTokens
<1>3. CASE Refresh(u)
  <2>1. /\ filelock = "free" /\ selected \in Accounts
        /\ UNCHANGED <<session, valid, minted, unsure, granted, callback, reply>>
        /\ filelock' = u
        /\ use' = [use EXCEPT ![u] = "refresh"]
        /\ holds' = [holds EXCEPT ![u] = <<selected, session[selected]>>]
    BY <1>0, <1>3 DEF Refresh, MustRefresh, Ready, MayUse, Read, file, signIn, remote, FileTypes
  <2>2. /\ \A v \in Users : use[v] # "refresh" /\ ~(reply[v] > 0)
        /\ \A b \in Accounts : Current(b)
    BY <2>1, NoRefresh, PlanAssumption DEF PlanInv, Users
  <2>3. /\ \A v \in Users : use'[v] = "refresh" => v = u
        /\ holds'[u] = <<selected, session[selected]>>
    BY <1>0, <2>1, <2>2 DEF UseTypes
  <2>4. SessionsOK' /\ GrantsOK'
    BY <2>1 DEF TokensOK, SessionsOK, GrantsOK, Spare
  <2>5. RefreshOK'
    BY <2>1, <2>2, <2>3 DEF RefreshOK, Current
  <2>6. SessionIsCurrent'
    BY <2>1, <2>2 DEF SessionIsCurrent, Current
  <2> QED
    BY <2>4, <2>5, <2>6 DEF TokensOK
<1> DEFINE a == holds[u][1]
           s == holds[u][2]
<1>4. ASSUME use[u] = "refresh"
      PROVE  /\ filelock = u /\ a \in Accounts /\ s = session[a] /\ holds[u] = <<a, s>>
             /\ reply[u] > 0 => Spare(reply[u])
             /\ reply[u] > 0 \/ Current(a)
             /\ \A v \in Users : v # u => use[v] # "refresh" /\ ~(reply[v] > 0)
             /\ \A b \in Accounts : b # a => Current(b)
  <2>1. /\ filelock = u /\ a \in Accounts /\ s = session[a]
        /\ reply[u] > 0 => Spare(reply[u])
        /\ reply[u] > 0 \/ Current(a)
    BY <1>4 DEF TokensOK, RefreshOK
  <2>2. \A v \in Users : v # u => use[v] # "refresh" /\ ~(reply[v] > 0)
    BY <1>4 DEF TokensOK, RefreshOK
  <2>3. \A b \in Accounts : b # a => Current(b)
    BY <2>2 DEF TokensOK, SessionIsCurrent, Current
  <2>4. holds[u] = <<a, s>>
    BY <1>0 DEF UseTypes, Hand
  <2> QED
    BY <2>1, <2>2, <2>3, <2>4
<1> HIDE DEF a, s
<1>5. CASE Rotate(u)
  <2>1. /\ use[u] = "refresh" /\ ~(reply[u] > 0)
        /\ UNCHANGED <<session, unsure, granted, callback, use, holds, filelock>>
    BY <1>5 DEF Rotate, file, signIn, NoToken
  <2>2. CASE s \notin valid
    <3>1. reply' = [reply EXCEPT ![u] = Refused] /\ UNCHANGED <<minted, valid>>
      BY <1>5, <2>2 DEF Rotate, remote, s
    <3>2. ~(reply'[u] > 0) /\ \A v \in Users : v # u => reply'[v] = reply[v]
      BY <1>0, <3>1 DEF UseTypes, Refused
    <3>3. SessionsOK' /\ GrantsOK' /\ SessionIsCurrent'
      BY <2>1, <3>1 DEF TokensOK, SessionsOK, GrantsOK, Spare, SessionIsCurrent
    <3>4. RefreshOK'
      BY <2>1, <3>1, <3>2, <1>4 DEF TokensOK, RefreshOK, Current, a, s
    <3> QED
      BY <3>3, <3>4 DEF TokensOK
  <2>3. CASE s \in valid
    <3> DEFINE n == minted + 1
    <3>1. /\ minted' = n /\ valid' = (valid \ {s}) \cup {n} /\ reply' = [reply EXCEPT ![u] = n]
      BY <1>5, <2>3 DEF Rotate, s
    <3>2. /\ minted \in Nat /\ n > minted /\ n > 0
          /\ n \notin valid /\ \A b \in Accounts : session[b] # n /\ session[b] <= n
      BY <1>0 DEF TokensOK, SessionsOK, RemoteTypes, FileTypes, Token, NoToken
    <3>3. reply'[u] = n /\ \A v \in Users : v # u => reply'[v] = reply[v]
      BY <1>0, <3>1 DEF UseTypes
    <3>4. SessionsOK'
      BY <2>1, <3>1, <3>2 DEF TokensOK, SessionsOK
    <3>5. \A g \in Attempts : callback[g] = "granted" => granted[g][2] # n /\ granted[g][2] # s
      BY <3>2, <2>1, <1>4 DEF TokensOK, GrantsOK, Spare
    <3>6. GrantsOK'
      BY <2>1, <3>1, <3>5 DEF TokensOK, GrantsOK, Spare
    <3>7. RefreshOK'
      <4>1. n \in valid' /\ \A b \in Accounts : session'[b] # n
        BY <2>1, <3>1, <3>2
      <4>2. /\ reply'[u] > 0 /\ use'[u] = "refresh" /\ filelock' = u
            /\ holds'[u][1] \in Accounts /\ holds'[u][2] = session'[holds'[u][1]]
        BY <2>1, <3>2, <3>3, <1>4 DEF a, s
      <4>3. \A g \in Attempts : callback'[g] = "granted" => granted'[g][2] # n
        BY <2>1, <3>5
      <4>4. \A v \in Users : v # u => use'[v] # "refresh" /\ ~(reply'[v] > 0)
        BY <2>1, <3>3, <1>4
      <4> HIDE DEF n
      <4> QED
        BY <3>3, <4>1, <4>2, <4>3, <4>4 DEF RefreshOK, Spare
    <3>8. SessionIsCurrent'
      <4> SUFFICES ASSUME NEW b \in Accounts, b \notin unsure
                   PROVE  \/ session[b] \in {NoToken} \cup valid'
                          \/ filelock = u /\ use[u] = "refresh" /\ holds[u] = <<b, session[b]>>
        BY <2>1 DEF SessionIsCurrent
      <4>1. CASE b = a
        BY <2>1, <1>4, <4>1
      <4>2. CASE b # a
        BY <2>1, <2>3, <3>1, <1>4, <4>2 DEF Current, TokensOK, SessionsOK
      <4> QED
        BY <4>1, <4>2
    <3> QED
      BY <3>4, <3>6, <3>7, <3>8 DEF TokensOK
  <2> QED
    BY <2>2, <2>3
<1>6. CASE SaveRotation(u) \/ SaveRefusal(u)
  <2>1. \E t \in {NoToken} \cup Token :
          /\ session' = [session EXCEPT ![a] = t]
          /\ t = NoToken \/ (reply[u] > 0 /\ t = reply[u])
    BY <1>0, <1>6 DEF SaveRotation, SaveRefusal, Renewed, Cleared, UseTypes, Token, NoToken, Refused, a
  <2>2. PICK t \in {NoToken} \cup Token :
          /\ session' = [session EXCEPT ![a] = t]
          /\ t = NoToken \/ (reply[u] > 0 /\ t = reply[u])
    BY <2>1
  <2>3. /\ use[u] = "refresh" /\ UNCHANGED <<minted, valid, granted, callback>>
        /\ unsure' = unsure \ {a} /\ LetGo(u)
    BY <1>6 DEF SaveRotation, SaveRefusal, signIn, remote, a
  <2>4. /\ a \in Accounts /\ (t = NoToken \/ Spare(t))
        /\ session'[a] = t /\ \A b \in Accounts : b # a => session'[b] = session[b]
    BY <1>0, <2>2, <2>3, <1>4 DEF FileTypes
  <2>5. \A v \in Users : use'[v] # "refresh" /\ ~(reply'[v] > 0)
    BY <1>0, <2>3, <1>4 DEF LetGo, UseTypes, NoToken
  <2>6. NoToken \notin valid /\ (\A x \in valid : x <= minted) /\ NoToken <= minted
    BY <1>0 DEF RemoteTypes, NoToken
  <2>7. SessionsOK'
    BY <2>3, <2>4, <2>6 DEF TokensOK, SessionsOK, Spare
  <2>8. \A g \in Attempts : callback[g] = "granted" => granted[g][2] # t
    BY <2>2, <2>6 DEF TokensOK, GrantsOK, RefreshOK, Spare
  <2>9. GrantsOK'
    BY <2>3, <2>4, <2>8 DEF TokensOK, GrantsOK, Spare
  <2>10. RefreshOK'
    BY <2>5 DEF RefreshOK
  <2>11. SessionIsCurrent'
    BY <2>3, <2>4, <1>4 DEF SessionIsCurrent, Current, Spare
  <2> QED
    BY <2>7, <2>9, <2>10, <2>11 DEF TokensOK
<1>7. CASE LoseAnswer(u)
  <2>1. /\ use[u] = "refresh" /\ UNCHANGED <<session, minted, valid, granted, callback>>
        /\ unsure' = IF reply[u] > 0 THEN unsure \cup {a} ELSE unsure
        /\ LetGo(u)
    BY <1>7 DEF LoseAnswer, file, signIn, remote, a
  <2>2. \A v \in Users : use'[v] # "refresh" /\ ~(reply'[v] > 0)
    BY <1>0, <2>1, <1>4 DEF LetGo, UseTypes, NoToken
  <2>3. SessionsOK' /\ GrantsOK' /\ RefreshOK'
    BY <2>1, <2>2 DEF TokensOK, SessionsOK, GrantsOK, RefreshOK, Spare
  <2>4. SessionIsCurrent'
    BY <2>1, <1>4 DEF SessionIsCurrent, Current
  <2> QED
    BY <2>3, <2>4 DEF TokensOK
<1> QED
  BY <1>2, <1>3, <1>5, <1>6, <1>7 DEF TokenUser

LEMMA RestartTokens ==
  ASSUME PlanInv, TokensOK, RestartAPI
  PROVE  TokensOK'
<1>0. FileTypes /\ SignInTypes /\ UseTypes /\ RemoteTypes
  BY PlanTypes DEF PlanInv
<1>1. /\ UNCHANGED <<session, minted, valid>>
      /\ \A g \in Attempts : callback'[g] # "granted"
      /\ unsure' = unsure \cup {holds[u][1] : u \in {t \in Threads : reply[t] > 0}}
  BY DEF RestartAPI, file, remote
<1>2. /\ \A u \in Users : use'[u] = "refresh" \/ reply'[u] > 0 =>
            u \in JudgeProcesses /\ use'[u] = use[u] /\ holds'[u] = holds[u] /\ reply'[u] = reply[u]
      /\ \A u \in JudgeProcesses : use'[u] = use[u] /\ holds'[u] = holds[u] /\ reply'[u] = reply[u]
  BY DEF RestartAPI, Users, NoToken
<1>3. filelock \in JudgeProcesses => filelock' = filelock
  BY DEF RestartAPI
<1>4. SessionsOK'
  BY <1>1 DEF TokensOK, SessionsOK
<1>5. GrantsOK'
  BY <1>1 DEF GrantsOK
<1>6. \A u \in JudgeProcesses : use[u] = "refresh" => filelock' = u
  BY <1>3 DEF TokensOK, RefreshOK, Users
<1>7. RefreshOK'
  BY <1>1, <1>2, <1>6 DEF TokensOK, RefreshOK, Spare, Current
<1>8. SessionIsCurrent'
  <2> SUFFICES ASSUME NEW a \in Accounts, a \notin unsure', session[a] \notin {NoToken} \cup valid
               PROVE  \E u \in Users : filelock' = u /\ use'[u] = "refresh" /\ holds'[u] = <<a, session[a]>>
    BY <1>1 DEF SessionIsCurrent
  <2>1. PICK u \in Users : filelock = u /\ use[u] = "refresh" /\ holds[u] = <<a, session[a]>>
    BY <1>1 DEF TokensOK, SessionIsCurrent
  <2>2. reply[u] > 0
    BY <1>1, <2>1 DEF TokensOK, RefreshOK, Current
  <2>3. u \in JudgeProcesses
    BY <1>1, <2>1, <2>2 DEF Users
  <2> QED
    BY <1>2, <1>3, <2>1, <2>3
<1> QED
  BY <1>4, <1>5, <1>7, <1>8 DEF TokensOK

LEMMA TokensStep ==
  ASSUME PlanInv, [PlanNext]_planVars
  PROVE  TokensOK'
<1>0. TokensOK
  BY DEF PlanInv, TokensOK
<1>1. CASE UNCHANGED <<callback, granted, tokenUse>> /\ SameSessions
  BY <1>0, <1>1, SameTokens DEF SameGrants, SameRefreshes, tokenUse
<1>2. ASSUME NEW g \in Attempts, Callback(g) \/ ExpireAttempt(g)
      PROVE  TokensOK'
  BY <1>0, <1>1, <1>2, AttemptTokens DEF ExpireAttempt, SameSessions, file, remote
<1>3. ASSUME NEW u \in Users, TokenUser(u)
      PROVE  TokensOK'
  BY <1>0, <1>3, UserTokens
<1>4. ASSUME NEW a \in Accounts \cup {NoAccount}, StartOAuth(a)
      PROVE  TokensOK'
  BY <1>1, <1>4 DEF StartOAuth, SameSessions, file, remote
<1>5. ASSUME NEW a \in Accounts, SelectProfile(a) \/ AccessAges(a)
      PROVE  TokensOK'
  BY <1>1, <1>5 DEF SelectProfile, AccessAges, SameSessions, signIn, remote
<1>6. CASE StrayCallback \/ AlarmRings \/ DisconnectBegins \/ (DisconnectGivesUp /\ filelock # "disconnect")
  BY <1>1, <1>6 DEF StrayCallback, AlarmRings, DisconnectBegins, DisconnectGivesUp, SameSessions, signIn, file,
                    remote
<1>7. CASE UNCHANGED planVars
  BY <1>1, <1>7 DEF planVars, SameSessions, signIn, file, remote
<1> QED
  BY <1>0, <1>2, <1>3, <1>4, <1>5, <1>6, <1>7, DisconnectTokens, RestartTokens DEF PlanNext

-----------------------------------------------------------------------------
(* The theorems. *)

LEMMA PlanInvInit == PlanInit => PlanInv
<1> SUFFICES ASSUME PlanInit
             PROVE  PlanInv
  OBVIOUS
<1>1. NoHand \in Hand
  BY DEF NoHand, Hand
<1>2. PlanTypeOK
  <2>1. FileTypes
    BY DEF PlanInit, FileTypes
  <2>2. SignInTypes
    <3>1. listener \in BOOLEAN
      BY DEF PlanInit
    <3>2. generation \in Nat /\ pending \in 0..MaxGeneration /\ alarm \in 0..MaxGeneration
      BY PlanAssumption DEF PlanInit
    <3> QED
      BY <1>1, <3>1, <3>2 DEF PlanInit, SignInTypes
  <2>3. UseTypes
    BY <1>1 DEF PlanInit, UseTypes
  <2>4. RemoteTypes
    <3>1. signedOut \in BOOLEAN
      BY DEF PlanInit
    <3> QED
      BY <3>1, PlanAssumption DEF PlanInit, RemoteTypes
  <2> QED
    BY <2>1, <2>2, <2>3, <2>4, PlanTypes
<1>3. AttemptsOK /\ SignOutOK
  BY PlanAssumption DEF PlanInit, AttemptsOK, Attempting, AttemptIsServed, SignOutOK, Attempts
<1>4. SessionsOK /\ GrantsOK
  BY DEF PlanInit, SessionsOK, GrantsOK, NoToken
<1>5. RefreshOK /\ SessionIsCurrent
  BY DEF PlanInit, RefreshOK, SessionIsCurrent, NoToken
<1> QED
  BY <1>2, <1>3, <1>4, <1>5 DEF PlanInv

LEMMA PlanInvStep == PlanInv /\ [PlanNext]_planVars => PlanInv'
<1> SUFFICES ASSUME PlanInv, [PlanNext]_planVars
             PROVE  PlanInv'
  OBVIOUS
<1>1. FileTypes' /\ SignInTypes' /\ UseTypes' /\ RemoteTypes'
  BY FileTypesStep, SignInTypesStep, UseTypesStep, RemoteTypesStep DEF PlanInv
<1>2. PlanTypeOK'
  BY <1>1 DEF PlanTypeOK, FileTypes, SignInTypes, UseTypes, RemoteTypes
<1> QED
  BY <1>2, AttemptsStep, SignOutStep, TokensStep DEF PlanInv, TokensOK

LEMMA PlanInvHolds == PlanSpec => []PlanInv
  BY PlanInvInit, PlanInvStep, PTL DEF PlanSpec

(* Every reachable state is well typed, for any number of accounts, threads and
   judge processes.                                                         *)
THEOREM PlanTypeCorrect == PlanSpec => []PlanTypeOK
  BY PlanInvHolds, PTL DEF PlanInv

(* disconnect: no session comes back for the selected account, however a callback,
   a rotation, a late timer or a restart falls.                             *)
THEOREM SignedOutStaysHolds == PlanSpec => []SignedOutStays
<1>1. PlanInv => SignedOutStays
  BY DEF PlanInv, SignOutOK, SignedOutStays
<1> QED
  BY <1>1, PlanInvHolds, PTL

(* _refresh_profile: two processes never spend the same session, and a saved one
   that no outcome was lost of is accepted by the provider.                 *)
THEOREM SessionIsCurrentHolds == PlanSpec => []SessionIsCurrent
  BY PlanInvHolds, PTL DEF PlanInv

(* start_oauth, do_GET and _expire: an attempt that waits is the last one, and if
   its page was opened, its port is served and its timer will end it, whatever
   operation fails to save.                                                 *)
THEOREM AttemptIsServedHolds == PlanSpec => []AttemptIsServed
<1>1. PlanInv => AttemptIsServed
  BY DEF PlanInv, AttemptsOK
<1> QED
  BY <1>1, PlanInvHolds, PTL
-----------------------------------------------------------------------------
(* Codex.  After Disconnect nothing of a sign-in is left, and while the token is
   gone the tombstone is there and only what was in flight still is.        *)
SignedOff ==
  /\ lock = "disconnect" => ~server
  /\ lock = "marking" \/ away => ~server /\ ~attempt /\ handler = "idle"
  /\ away => lock = "free"
  /\ away /\ ~stored => marker /\ \A c \in Callers : caller[c] # "idle" => c \in flights

CodexInv == CodexTypeOK /\ SignedOff

LEMMA CodexInvInit == CodexInit => CodexInv
  BY DEF CodexInit, CodexInv, SignedOff, CodexTypeOK

Flags == /\ stored \in BOOLEAN /\ expiring \in BOOLEAN /\ marker \in BOOLEAN /\ home \in BOOLEAN
         /\ attempt \in BOOLEAN /\ server \in BOOLEAN /\ away \in BOOLEAN

Rest == /\ handler \in {"idle", "arrived", "exchange", "closing"}
        /\ lock \in {"free", "start", "disconnect", "marking"}
        /\ caller \in [Callers -> {"idle", "request", "refresh", "import"}]
        /\ flights \subseteq Callers

LEMMA TypeIsFlags == CodexTypeOK <=> Flags /\ Rest
  BY DEF CodexTypeOK, Flags, Rest

LEMMA FlagsStep ==
  ASSUME Flags, [CodexNext]_codexVars
  PROVE  Flags'
<1>1. CASE UNCHANGED codexVars
  BY <1>1 DEF codexVars, Flags
<1>2. ASSUME NEW c \in Callers, Session(c)
      PROVE  Flags'
  BY <1>2 DEF Session, UseSession, Unauthorized, StartImport, SaveSession, SessionEnds, Returns,
              SaveTokens, Flags
<1>3. ASSUME NEW op \in {"start", "disconnect"}, Takes(op)
      PROVE  Flags'
  BY <1>3 DEF Takes, Flags
<1>4. CASE DisconnectDeletes \/ DisconnectEnds
  BY <1>4 DEF DisconnectDeletes, DisconnectEnds, Flags
<1>5. CASE SignsIn
  BY <1>5 DEF SignsIn, ConnectEnds, CallbackArrives, ReadAttempt, ExchangeFails, ExchangeSaves,
              CallbackCloses, SaveTokens, Flags
<1>6. CASE SessionAges \/ RestartCodex
  BY <1>6 DEF SessionAges, RestartCodex, Flags
<1>7. CASE HomeChanges
  BY <1>7 DEF HomeChanges, Flags
<1> QED
  BY <1>1, <1>2, <1>3, <1>4, <1>5, <1>6, <1>7 DEF CodexNext

LEMMA RestStep ==
  ASSUME Rest, [CodexNext]_codexVars
  PROVE  Rest'
<1>1. CASE UNCHANGED codexVars
  BY <1>1 DEF codexVars, Rest
<1>2. ASSUME NEW c \in Callers, Session(c)
      PROVE  Rest'
  BY <1>2 DEF Session, UseSession, Unauthorized, StartImport, SaveSession, SessionEnds, Returns,
              SaveTokens, Rest
<1>3. ASSUME NEW op \in {"start", "disconnect"}, Takes(op)
      PROVE  Rest'
  BY <1>3 DEF Takes, Rest
<1>4. CASE DisconnectDeletes \/ DisconnectEnds
  BY <1>4 DEF DisconnectDeletes, DisconnectEnds, Rest
<1>5. CASE SignsIn
  BY <1>5 DEF SignsIn, ConnectEnds, CallbackArrives, ReadAttempt, ExchangeFails, ExchangeSaves,
              CallbackCloses, SaveTokens, Rest
<1>6. CASE SessionAges \/ HomeChanges \/ RestartCodex
  BY <1>6 DEF SessionAges, HomeChanges, RestartCodex, Rest
<1> QED
  BY <1>1, <1>2, <1>3, <1>4, <1>5, <1>6 DEF CodexNext

LEMMA SessionStep ==
  ASSUME CodexInv, NEW c \in Callers, Session(c)
  PROVE  /\ SignedOff'
         /\ away /\ ~stored /\ stored' => \E d \in flights : caller'[d] = "idle"
<1>0. caller \in [Callers -> {"idle", "request", "refresh", "import"}] /\ flights \subseteq Callers
  BY DEF CodexInv, CodexTypeOK
<1>1. UNCHANGED <<home, attempt, server, handler, lock, away>>
  BY DEF Session, UseSession, Unauthorized, StartImport, SaveSession, SessionEnds, Returns, SaveTokens
<1>2. \E step \in {"idle", "request", "refresh", "import"} :
        /\ caller' = [caller EXCEPT ![c] = step]
        /\ flights' = flights \/ (flights' = flights \ {c} /\ step = "idle")
  BY DEF Session, UseSession, Unauthorized, StartImport, SaveSession, SessionEnds, Returns, SaveTokens
<1>3. \/ UNCHANGED <<stored, marker>> /\ (stored \/ ~marker \/ caller[c] # "idle")
      \/ stored' /\ caller[c] # "idle" /\ caller' = [caller EXCEPT ![c] = "idle"]
  BY DEF Session, UseSession, Unauthorized, StartImport, SaveSession, SessionEnds, Returns, SaveTokens
<1>4. away /\ ~stored /\ stored' => c \in flights /\ caller'[c] = "idle"
  BY <1>0, <1>3 DEF CodexInv, SignedOff
<1>5. away' /\ ~stored' => marker' /\ \A d \in Callers : caller'[d] # "idle" => d \in flights'
  <2> SUFFICES ASSUME away', ~stored'
               PROVE  marker' /\ \A d \in Callers : caller'[d] # "idle" => d \in flights'
    OBVIOUS
  <2>1. UNCHANGED <<stored, marker>> /\ away /\ ~stored /\ marker /\ caller[c] # "idle"
    BY <1>1, <1>3 DEF CodexInv, SignedOff
  <2>2. \A d \in Callers : caller[d] # "idle" => d \in flights
    BY <2>1 DEF CodexInv, SignedOff
  <2> QED
    BY <1>0, <1>2, <2>1, <2>2
<1> QED
  BY <1>1, <1>3, <1>4, <1>5 DEF CodexInv, SignedOff

LEMMA CodexStep ==
  ASSUME CodexInv, [CodexNext]_codexVars
  PROVE  /\ CodexInv'
         /\ away /\ ~stored /\ stored' => \E d \in flights : caller'[d] = "idle"
<1> USE DEF SignedOff
<1> DEFINE Done == SignedOff' /\ (away /\ ~stored /\ stored' => \E d \in flights : caller'[d] = "idle")
<1>0. SignedOff /\ Flags /\ Rest
  BY TypeIsFlags DEF CodexInv
<1>10. CodexTypeOK'
  <2>1. Flags' /\ Rest'
    BY <1>0, FlagsStep, RestStep
  <2> QED
    BY <2>1 DEF CodexTypeOK, Flags, Rest
<1> SUFFICES Done
  BY <1>10 DEF CodexInv
<1>1. CASE UNCHANGED codexVars
  BY <1>0, <1>1 DEF codexVars
<1>2. ASSUME NEW c \in Callers, Session(c)
      PROVE  Done
  BY <1>2, SessionStep
<1>3. ASSUME NEW op \in {"start", "disconnect"}, Takes(op)
      PROVE  Done
  BY <1>0, <1>3 DEF Takes
<1>4. CASE DisconnectDeletes
  BY <1>0, <1>4 DEF DisconnectDeletes
<1>5. CASE DisconnectEnds
  BY <1>0, <1>5 DEF DisconnectEnds
<1>6. CASE SignsIn
  BY <1>0, <1>6 DEF SignsIn, ConnectEnds, CallbackArrives, ReadAttempt, ExchangeFails, ExchangeSaves,
                    CallbackCloses, SaveTokens
<1>7. CASE SessionAges \/ HomeChanges
  BY <1>0, <1>7 DEF SessionAges, HomeChanges
<1>8. CASE RestartCodex
  BY <1>0, <1>8 DEF RestartCodex
<1> QED
  BY <1>1, <1>2, <1>3, <1>4, <1>5, <1>6, <1>7, <1>8 DEF CodexNext

LEMMA CodexInvHolds == CodexSpec => []CodexInv
  BY CodexInvInit, CodexStep, PTL DEF CodexSpec

(* Every reachable state is well typed. *)
THEOREM CodexTypeCorrect == CodexSpec => []CodexTypeOK
  BY CodexInvHolds, PTL DEF CodexInv

(* disconnect: afterwards a session appears only by a request or an import that
   was in flight then, neither by a callback nor by a later status poll; for
   any number of threads.                                                   *)
THEOREM OnlyFlightsReturnHolds == CodexSpec => OnlyFlightsReturn
<1> DEFINE Returned == away /\ ~stored /\ stored' => \E c \in flights : caller'[c] = "idle"
<1>1. CodexInv /\ [CodexNext]_codexVars => [Returned]_codexVars
  BY CodexStep
<1> HIDE DEF Returned
<1>2. CodexSpec => [][Returned]_codexVars
  BY <1>1, CodexInvHolds, PTL DEF CodexSpec
<1> QED
  BY <1>2 DEF Returned, OnlyFlightsReturn
-----------------------------------------------------------------------------
(* Quotas.  A window that is over stays over: only requests that read the clock
   in it write to it any more, and those are late.                          *)
Over(b) == b[2] < Window(b[1], clock)

(* The row of a window counts who was admitted, until it expires; refusals come
   when it is full; a request passes each of its quotas once.               *)
CountOK(b) ==
  /\ rows[b] = Cardinality(admitted[b]) \/ (rows[b] = 0 /\ Over(b))
  /\ Cardinality(admitted[b]) <= Limits[b[1]]
  /\ refused[b] # {} => Cardinality(admitted[b]) = Limits[b[1]]

QuotaInv ==
  /\ QuotaTypeOK
  /\ \A b \in Windows : IsFiniteSet(admitted[b])
  /\ \A b \in Windows : \A r \in admitted[b] : \E i \in 1..stage[r] : QuotasOf[r][i] = b[1]
  /\ \A r \in HostedRequests : read[r] <= clock
  /\ \A r \in HostedRequests : quotaPc[r] # "next" => stage[r] < Len(QuotasOf[r])
  /\ \A r \in HostedRequests : quotaPc[r] = "again" => rows[Bucket(r)] > 0 \/ Over(Bucket(r))
  /\ \A b \in Windows \ late : CountOK(b)

LEMMA DivisionGrows ==
  ASSUME NEW L \in Nat \ {0}, NEW s \in Nat, NEW t \in Nat, s <= t
  PROVE  s \div L \in Nat /\ s \div L <= t \div L /\ s \div L <= s
<1>1. /\ s = L * (s \div L) + (s % L) /\ s % L \in 0..(L - 1) /\ s \div L \in Nat
      /\ t = L * (t \div L) + (t % L) /\ t % L \in 0..(L - 1) /\ t \div L \in Nat
  BY SMT
<1>2. \A x, y \in Nat : x > y => L * x >= L * y + L
  BY SMT
<1>3. s \div L <= t \div L
  BY <1>1, <1>2
<1> QED
  BY <1>1, <1>3, SMT

LEMMA WindowGrows ==
  ASSUME NEW q \in Quotas, NEW s \in Nat, NEW t \in Nat, s <= t
  PROVE  Window(q, s) \in Nat /\ Window(q, s) <= Window(q, t) /\ Window(q, s) <= s
<1>1. Lengths[q] \in Nat \ {0}
  BY QuotaAssumption
<1> QED
  BY <1>1, DivisionGrows DEF Window

(* The window a request counts in. *)
LEMMA BucketFacts ==
  ASSUME QuotaInv, NEW r \in HostedRequests, stage[r] < Len(QuotasOf[r])
  PROVE  /\ Quota(r) \in Quotas /\ Bucket(r) \in Windows /\ Bucket(r)[1] = Quota(r)
         /\ Limits[Bucket(r)[1]] \in Nat \ {0} /\ r \notin admitted[Bucket(r)]
         /\ stage[r] \in Nat /\ stage[r] + 1 \in DOMAIN QuotasOf[r]
         /\ Bucket(r)[2] = Window(Quota(r), read[r])
<1>1. /\ stage[r] \in Nat /\ QuotasOf[r] \in Seq(Quotas) /\ read[r] \in 0..MaxTime /\ MaxTime \in Nat
  BY QuotaAssumption DEF QuotaInv, QuotaTypeOK
<1>2. stage[r] + 1 \in DOMAIN QuotasOf[r] /\ Quota(r) \in Quotas
  BY <1>1 DEF Quota
<1>3. Bucket(r)[1] = Quota(r) /\ Bucket(r)[2] = Window(Quota(r), read[r])
  BY DEF Bucket
<1>4. Bucket(r) \in Windows
  <2>1. /\ Window(Quota(r), read[r]) \in Nat /\ Window(Quota(r), read[r]) <= read[r]
        /\ Window(Quota(r), read[r]) <= Window(Quota(r), MaxTime)
    <3>1. read[r] \in Nat /\ read[r] <= MaxTime
      BY <1>1
    <3> QED
      BY <1>1, <1>2, <3>1, WindowGrows
  <2>2. Window(Quota(r), read[r]) \in 0..MaxTime
    BY <1>1, <2>1
  <2> QED
    BY <1>2, <2>1, <2>2 DEF Bucket, Windows
<1>5. r \notin admitted[Bucket(r)]
  <2> SUFFICES ASSUME NEW i \in 1..stage[r] PROVE QuotasOf[r][i] # Quota(r)
    BY <1>3, <1>4 DEF QuotaInv
  <2>1. i \in DOMAIN QuotasOf[r] /\ i # stage[r] + 1
    BY <1>1
  <2> QED
    BY <1>2, <2>1, QuotaAssumption DEF Quota
<1> QED
  BY <1>1, <1>2, <1>3, <1>4, <1>5, QuotaAssumption

LEMMA WindowsAreOver ==
  ASSUME QuotaInv, NEW b \in Windows
  PROVE  /\ b[1] \in Quotas /\ b[2] \in Nat /\ Window(b[1], clock) \in Nat
         /\ Limits[b[1]] \in Nat \ {0} /\ rows[b] \in Nat
         /\ \A r \in HostedRequests : /\ Window(b[1], read[r]) \in Nat
                                      /\ Window(b[1], read[r]) <= Window(b[1], clock)
<1>1. /\ b[1] \in Quotas /\ b[2] \in Nat /\ clock \in Nat /\ rows[b] \in Nat
      /\ \A r \in HostedRequests : read[r] \in Nat /\ read[r] <= clock
  BY QuotaAssumption DEF Windows, QuotaInv, QuotaTypeOK
<1>2. Window(b[1], clock) \in Nat
  BY <1>1, WindowGrows
<1>3. ASSUME NEW r \in HostedRequests
      PROVE  Window(b[1], read[r]) \in Nat /\ Window(b[1], read[r]) <= Window(b[1], clock)
  BY <1>1, WindowGrows
<1> QED
  BY <1>1, <1>2, <1>3, QuotaAssumption

LEMMA QuotaInvInit == QuotaInit => QuotaInv
<1> SUFFICES ASSUME QuotaInit PROVE QuotaInv
  OBVIOUS
<1>1. QuotaTypeOK
  BY QuotaAssumption DEF QuotaInit, QuotaTypeOK
<1>2. \A b \in Windows : IsFiniteSet(admitted[b]) /\ Cardinality(admitted[b]) = 0
  BY FS_EmptySet DEF QuotaInit
<1>3. \A b \in Windows : Limits[b[1]] \in Nat
  BY QuotaAssumption DEF Windows
<1> QED
  BY <1>1, <1>2, <1>3 DEF QuotaInit, QuotaInv, CountOK

(* A request is counted, while its window has room. *)
LEMMA CountStep ==
  ASSUME QuotaInv, NEW r \in HostedRequests, NEW expire \in BOOLEAN, Count(r, expire),
         quotaPc[r] \in {"update", "insert", "again"}, rows[Bucket(r)] < Limits[Bucket(r)[1]],
         quotaPc[r] = "insert" => rows[Bucket(r)] = 0
  PROVE  QuotaInv'
<1> DEFINE B == Bucket(r)
<1>1. /\ Quota(r) \in Quotas /\ B \in Windows /\ B[1] = Quota(r) /\ Limits[B[1]] \in Nat \ {0}
      /\ r \notin admitted[B] /\ stage[r] \in Nat /\ stage[r] + 1 \in DOMAIN QuotasOf[r]
      /\ stage[r] < Len(QuotasOf[r]) /\ Quota(r) = QuotasOf[r][stage[r] + 1]
      /\ B[2] = Window(Quota(r), read[r])
  BY BucketFacts DEF QuotaInv, Quota
<1>2. /\ rows \in [Windows -> Nat] /\ stage \in [HostedRequests -> Nat]
      /\ quotaPc \in [HostedRequests -> {"next", "update", "insert", "again", "refused"}]
      /\ admitted \in [Windows -> SUBSET HostedRequests] /\ late \subseteq Windows
      /\ QuotasOf[r] \in Seq(Quotas)
  BY QuotaAssumption DEF QuotaInv, QuotaTypeOK
<1>3. /\ rows' = [b \in Windows |->
                IF b = B THEN rows[b] + 1
                ELSE IF expire /\ b[2] < Window(b[1], read[r]) THEN 0 ELSE rows[b]]
      /\ admitted' = [admitted EXCEPT ![B] = @ \cup {r}]
      /\ late' = IF B[2] < Window(Quota(r), clock) THEN late \cup {B} ELSE late
      /\ stage' = [stage EXCEPT ![r] = @ + 1]
      /\ quotaPc' = [quotaPc EXCEPT ![r] = "next"]
      /\ UNCHANGED <<clock, read, refused>>
  BY DEF Count
<1> HIDE DEF B
<1>4. /\ rows' \in [Windows -> Nat] /\ rows'[B] = rows[B] + 1
      /\ \A b \in Windows : b # B => rows'[b] = rows[b] \/ (rows'[b] = 0 /\ Over(b))
  <2>1. ASSUME NEW b \in Windows, b # B PROVE rows'[b] = rows[b] \/ (rows'[b] = 0 /\ Over(b))
    <3>1. b[2] \in Nat /\ Window(b[1], read[r]) \in Nat /\ Window(b[1], clock) \in Nat
          /\ Window(b[1], read[r]) <= Window(b[1], clock)
      BY WindowsAreOver
    <3> QED
      BY <1>3, <2>1, <3>1 DEF Over
  <2> QED
    BY <1>1, <1>2, <1>3, <2>1
<1>5. /\ admitted' \in [Windows -> SUBSET HostedRequests] /\ admitted'[B] = admitted[B] \cup {r}
      /\ \A b \in Windows : b # B => admitted'[b] = admitted[b]
  BY <1>1, <1>2, <1>3
<1>6. /\ IsFiniteSet(admitted[B]) /\ Cardinality(admitted[B]) \in Nat
      /\ IsFiniteSet(admitted'[B]) /\ Cardinality(admitted'[B]) = Cardinality(admitted[B]) + 1
  <2>1. IsFiniteSet(admitted[B])
    BY <1>1 DEF QuotaInv
  <2> QED
    BY <1>1, <1>5, <2>1, FS_AddElement, FS_CardinalityType
<1>7. /\ stage' \in [HostedRequests -> Nat] /\ stage'[r] = stage[r] + 1
      /\ quotaPc' \in [HostedRequests -> {"next", "update", "insert", "again", "refused"}]
      /\ quotaPc'[r] = "next" /\ \A s \in HostedRequests : s # r => stage'[s] = stage[s] /\ quotaPc'[s] = quotaPc[s]
  BY <1>1, <1>2, <1>3
<1>8. /\ late' \subseteq Windows /\ late \subseteq late' /\ (B \notin late' => ~Over(B))
      /\ \A b \in Windows : Over(b)' <=> Over(b)
  BY <1>1, <1>2, <1>3 DEF Over
<1>9. QuotaTypeOK'
  <2>1. ASSUME NEW s \in HostedRequests PROVE stage'[s] <= Len(QuotasOf[s])
    <3>1. CASE s = r
      <4>1. Len(QuotasOf[r]) \in Nat
        BY <1>2
      <4> QED
        BY <1>1, <1>7, <3>1, <4>1
    <3>2. CASE s # r
      BY <1>7, <3>2 DEF QuotaInv, QuotaTypeOK
    <3> QED
      BY <3>1, <3>2
  <2> QED
    BY <1>3, <1>4, <1>5, <1>7, <1>8, <2>1 DEF QuotaInv, QuotaTypeOK
<1>10. ASSUME NEW b \in Windows \ late' PROVE CountOK(b)'
  <2>1. CASE b = B
    <3>1. CountOK(B) /\ ~Over(B) /\ Limits[B[1]] \in Nat /\ rows[B] < Limits[B[1]]
      BY <1>1, <1>8, <1>10, <2>1 DEF QuotaInv, B
    <3>2. rows[B] = Cardinality(admitted[B])
      BY <3>1 DEF CountOK
    <3>3. rows'[B] = Cardinality(admitted'[B]) /\ Cardinality(admitted'[B]) <= Limits[B[1]]
      BY <1>4, <1>6, <3>1, <3>2
    <3>4. refused[B] = {}
      BY <1>6, <3>1, <3>2 DEF CountOK
    <3> QED
      BY <1>3, <2>1, <3>3, <3>4 DEF CountOK
  <2>2. CASE b # B
    <3>1. CountOK(b)
      BY <1>8, <1>10 DEF QuotaInv
    <3> QED
      BY <1>3, <1>4, <1>5, <1>8, <2>2, <3>1 DEF CountOK
  <2> QED
    BY <2>1, <2>2
<1>11. ASSUME NEW b \in Windows, NEW s \in admitted'[b]
       PROVE  \E i \in 1..stage'[s] : QuotasOf[s][i] = b[1]
  <2>1. CASE b = B /\ s = r
    <3>1. stage'[r] \in 1..stage'[r] /\ stage'[r] = stage[r] + 1
      BY <1>1, <1>7
    <3> QED
      BY <1>1, <2>1, <3>1
  <2>2. CASE ~(b = B /\ s = r)
    <3>1. s \in admitted[b] /\ s \in HostedRequests
      BY <1>2, <1>5, <2>2
    <3>2. PICK i \in 1..stage[s] : QuotasOf[s][i] = b[1]
      BY <3>1 DEF QuotaInv
    <3>3. i \in 1..stage'[s]
      <4>1. stage[s] \in Nat /\ stage'[s] \in Nat
        BY <1>2, <1>7, <3>1
      <4>2. stage'[s] = stage[s] \/ stage'[s] = stage[s] + 1
        BY <1>7, <3>1
      <4> QED
        BY <3>2, <4>1, <4>2
    <3> QED
      BY <3>2, <3>3
  <2> QED
    BY <2>1, <2>2
<1>12. \A b \in Windows : IsFiniteSet(admitted'[b])
  BY <1>5, <1>6 DEF QuotaInv
<1>13. ASSUME NEW s \in HostedRequests, quotaPc'[s] = "again"
       PROVE  (rows[Bucket(s)] > 0 \/ Over(Bucket(s)))'
  <2>1. s # r /\ quotaPc[s] = "again" /\ Bucket(s)' = Bucket(s)
    BY <1>3, <1>7, <1>13 DEF Bucket, Quota
  <2>2. /\ rows[Bucket(s)] > 0 \/ Over(Bucket(s))
        /\ Bucket(s) \in Windows
    BY <2>1, BucketFacts DEF QuotaInv
  <2>3. CASE Bucket(s) = B
    <3>1. rows'[B] > 0
      BY <1>1, <1>2, <1>4
    <3> QED
      BY <2>1, <2>3, <3>1
  <2>4. CASE Bucket(s) # B
    BY <1>4, <1>8, <2>1, <2>2, <2>4
  <2> QED
    BY <2>3, <2>4
<1>14. \A s \in HostedRequests : quotaPc'[s] # "next" => stage'[s] < Len(QuotasOf[s])
  BY <1>7 DEF QuotaInv
<1> QED
  BY <1>3, <1>9, <1>10, <1>11, <1>12, <1>13, <1>14 DEF QuotaInv

(* A request reads the clock, or finds a row full, absent or just inserted. *)
LEMMA QuotaMoves ==
  ASSUME QuotaInv, NEW r \in HostedRequests, ReadClock(r) \/ UpdateMisses(r) \/ InsertConflicts(r)
  PROVE  QuotaInv'
<1>1. /\ UNCHANGED <<clock, rows, stage, admitted, refused, late>>
      /\ \E pc \in {"update", "insert", "again"} : quotaPc' = [quotaPc EXCEPT ![r] = pc]
      /\ read' = read \/ (quotaPc[r] = "next" /\ read' = [read EXCEPT ![r] = clock])
      /\ quotaPc'[r] = "again" => InsertConflicts(r)
  BY DEF ReadClock, UpdateMisses, InsertConflicts, QuotaInv, QuotaTypeOK
<1>2. /\ quotaPc' \in [HostedRequests -> {"next", "update", "insert", "again", "refused"}]
      /\ \A s \in HostedRequests : s # r => quotaPc'[s] = quotaPc[s]
      /\ read' \in [HostedRequests -> 0..MaxTime] /\ \A s \in HostedRequests : read'[s] <= clock
      /\ \A s \in HostedRequests : s # r => read'[s] = read[s]
  <2>1. /\ read \in [HostedRequests -> 0..MaxTime] /\ clock \in 0..MaxTime /\ clock <= clock
        /\ quotaPc \in [HostedRequests -> {"next", "update", "insert", "again", "refused"}]
        /\ \A s \in HostedRequests : read[s] <= clock
    BY QuotaAssumption DEF QuotaInv, QuotaTypeOK
  <2>2. /\ quotaPc' \in [HostedRequests -> {"next", "update", "insert", "again", "refused"}]
        /\ \A s \in HostedRequests : s # r => quotaPc'[s] = quotaPc[s]
    BY <1>1, <2>1
  <2>3. CASE read' = read
    BY <2>1, <2>2, <2>3
  <2>4. CASE read' = [read EXCEPT ![r] = clock]
    BY <2>1, <2>2, <2>4
  <2> QED
    BY <1>1, <2>3, <2>4
<1>3. QuotaTypeOK'
  BY <1>1, <1>2 DEF QuotaInv, QuotaTypeOK
<1>4. stage[r] < Len(QuotasOf[r])
  <2>1. QuotasOf[r] \in Seq(Quotas) /\ stage[r] \in Nat /\ stage[r] <= Len(QuotasOf[r])
    BY QuotaAssumption DEF QuotaInv, QuotaTypeOK
  <2> QED
    BY <2>1 DEF ReadClock, Served, UpdateMisses, InsertConflicts, QuotaInv
<1>5. ASSUME NEW s \in HostedRequests, quotaPc'[s] = "again"
      PROVE  (rows[Bucket(s)] > 0 \/ Over(Bucket(s)))'
  <2>1. CASE s = r
    <3>1. InsertConflicts(r)
      BY <1>1, <1>5, <2>1
    <3> QED
      BY <2>1, <3>1 DEF InsertConflicts, Bucket, Quota
  <2>2. CASE s # r
    <3>1. Bucket(s)' = Bucket(s) /\ quotaPc[s] = "again"
      BY <1>1, <1>2, <1>5, <2>2 DEF Bucket, Quota
    <3> QED
      BY <1>1, <3>1 DEF QuotaInv, Over
  <2> QED
    BY <2>1, <2>2
<1> QED
  BY <1>1, <1>2, <1>3, <1>4, <1>5 DEF QuotaInv, CountOK, Over

(* A refusal: the window is full, or the request is late. *)
LEMMA RefuseStep == ASSUME QuotaInv, NEW r \in HostedRequests, Refuse(r) PROVE QuotaInv'
<1> DEFINE B == Bucket(r)
<1>1. /\ quotaPc[r] = "again" /\ ~Free(B)
      /\ quotaPc' = [quotaPc EXCEPT ![r] = "refused"]
      /\ refused' = [refused EXCEPT ![B] = @ \cup {r}]
      /\ late' = IF B[2] < Window(Quota(r), clock) THEN late \cup {B} ELSE late
      /\ UNCHANGED <<clock, rows, stage, read, admitted>>
  BY DEF Refuse
<1>2. /\ Quota(r) \in Quotas /\ B \in Windows /\ B[1] = Quota(r) /\ Limits[B[1]] \in Nat \ {0}
      /\ rows[B] > 0 \/ Over(B)
  BY <1>1, BucketFacts DEF QuotaInv
<1> HIDE DEF B
<1>3. /\ quotaPc' \in [HostedRequests -> {"next", "update", "insert", "again", "refused"}]
      /\ quotaPc'[r] = "refused" /\ \A s \in HostedRequests : s # r => quotaPc'[s] = quotaPc[s]
      /\ refused' \in [Windows -> SUBSET HostedRequests]
      /\ \A b \in Windows : b # B => refused'[b] = refused[b]
      /\ late' \subseteq Windows /\ late \subseteq late' /\ (B \notin late' => ~Over(B))
      /\ \A b \in Windows : Over(b)' <=> Over(b)
  BY <1>1, <1>2 DEF Over, QuotaInv, QuotaTypeOK
<1>4. QuotaTypeOK'
  BY <1>1, <1>3 DEF QuotaInv, QuotaTypeOK
<1>5. ASSUME NEW b \in Windows \ late' PROVE CountOK(b)'
  <2>1. CountOK(b)
    BY <1>3, <1>5 DEF QuotaInv
  <2>2. CASE b = B
    <3>1. rows[B] = Cardinality(admitted[B]) /\ rows[B] > 0 /\ ~(rows[B] < Limits[B[1]])
      BY <1>1, <1>2, <1>3, <1>5, <2>1, <2>2 DEF CountOK, Free
    <3>2. rows[B] \in Nat
      BY <1>2 DEF QuotaInv, QuotaTypeOK
    <3>3. Cardinality(admitted[B]) = Limits[B[1]]
      BY <1>2, <2>1, <2>2, <3>1, <3>2 DEF CountOK
    <3> QED
      BY <1>1, <2>2, <3>1, <3>3, <1>2 DEF CountOK
  <2>3. CASE b # B
    BY <1>1, <1>3, <2>1, <2>3 DEF CountOK
  <2> QED
    BY <2>2, <2>3
<1>6. \A s \in HostedRequests : quotaPc'[s] # "next" => stage'[s] < Len(QuotasOf[s])
  BY <1>1, <1>3 DEF QuotaInv
<1>7. ASSUME NEW s \in HostedRequests, quotaPc'[s] = "again"
      PROVE  (rows[Bucket(s)] > 0 \/ Over(Bucket(s)))'
  <2>1. Bucket(s)' = Bucket(s) /\ quotaPc[s] = "again"
    BY <1>1, <1>3, <1>7 DEF Bucket, Quota
  <2> QED
    BY <1>1, <2>1 DEF QuotaInv, Over
<1> QED
  BY <1>1, <1>4, <1>5, <1>6, <1>7 DEF QuotaInv

LEMMA QuotaTicks == ASSUME QuotaInv, ClockTick PROVE QuotaInv'
<1>1. /\ clock \in Nat /\ clock' \in 0..MaxTime /\ clock <= clock' /\ clock' \in Nat
      /\ UNCHANGED <<rows, stage, quotaPc, read, admitted, refused, late>>
  BY QuotaAssumption DEF ClockTick, QuotaInv, QuotaTypeOK
<1>2. ASSUME NEW b \in Windows, Over(b) PROVE Over(b)'
  <2>1. b[2] \in Nat /\ b[1] \in Quotas
    BY WindowsAreOver
  <2>2. Window(b[1], clock) \in Nat /\ Window(b[1], clock') \in Nat /\ Window(b[1], clock) <= Window(b[1], clock')
    BY <1>1, <2>1, WindowGrows
  <2> QED
    BY <1>2, <2>1, <2>2 DEF Over, Window
<1>3. QuotaTypeOK'
  BY <1>1 DEF QuotaInv, QuotaTypeOK
<1>4. \A b \in Windows \ late' : CountOK(b)'
  BY <1>1, <1>2 DEF QuotaInv, CountOK
<1>5. \A s \in HostedRequests : quotaPc'[s] = "again" => (rows[Bucket(s)] > 0 \/ Over(Bucket(s)))'
  <2> SUFFICES ASSUME NEW s \in HostedRequests, quotaPc[s] = "again"
               PROVE  (rows[Bucket(s)] > 0 \/ Over(Bucket(s)))'
    BY <1>1
  <2>1. Bucket(s)' = Bucket(s)
    BY <1>1 DEF Bucket, Quota
  <2>2. Bucket(s) \in Windows
    BY BucketFacts DEF QuotaInv
  <2> QED
    BY <1>1, <1>2, <2>1, <2>2 DEF QuotaInv
<1>6. \A s \in HostedRequests : read'[s] <= clock'
  BY <1>1, QuotaAssumption DEF QuotaInv, QuotaTypeOK
<1> QED
  BY <1>1, <1>3, <1>4, <1>5, <1>6 DEF QuotaInv

LEMMA QuotaInvStep == QuotaInv /\ [QuotaNext]_quotaVars => QuotaInv'
<1> SUFFICES ASSUME QuotaInv, [QuotaNext]_quotaVars PROVE QuotaInv'
  OBVIOUS
<1>1. CASE UNCHANGED quotaVars
  <2>1. \A r \in HostedRequests : Bucket(r)' = Bucket(r)
    BY <1>1 DEF quotaVars, Bucket, Quota
  <2> QED
    BY <1>1, <2>1 DEF quotaVars, QuotaInv, QuotaTypeOK, CountOK, Over
<1>2. ASSUME NEW r \in HostedRequests, ReadClock(r) \/ UpdateMisses(r) \/ InsertConflicts(r) PROVE QuotaInv'
  BY <1>2, QuotaMoves
<1>3. ASSUME NEW r \in HostedRequests, Update(r) \/ UpdateAgain(r) PROVE QuotaInv'
  BY <1>3, CountStep DEF Update, UpdateAgain, Free
<1>4. ASSUME NEW r \in HostedRequests, InsertRow(r) PROVE QuotaInv'
  <2>1. stage[r] < Len(QuotasOf[r])
    BY <1>4 DEF InsertRow, QuotaInv
  <2>2. Limits[Bucket(r)[1]] \in Nat \ {0} /\ rows[Bucket(r)] = 0
    BY <1>4, <2>1, BucketFacts DEF InsertRow
  <2>3. rows[Bucket(r)] < Limits[Bucket(r)[1]]
    BY <2>2
  <2> QED
    BY <1>4, <2>2, <2>3, CountStep DEF InsertRow
<1>5. ASSUME NEW r \in HostedRequests, Refuse(r) PROVE QuotaInv'
  BY <1>5, RefuseStep
<1> QED
  BY <1>1, <1>2, <1>3, <1>4, <1>5, QuotaTicks DEF QuotaNext

LEMMA QuotaInvHolds == QuotaSpec => []QuotaInv
  BY QuotaInvInit, QuotaInvStep, PTL DEF QuotaSpec

(* Every reachable state is well typed. *)
THEOREM QuotaTypeCorrect == QuotaSpec => []QuotaTypeOK
  BY QuotaInvHolds, PTL DEF QuotaInv

(* admit: however many requests race for the row of a window, and whatever rows
   expire, a window that nobody writes to late admits its limit and no more,
   and refuses nobody before that; for any quotas, limits and lengths.      *)
THEOREM QuotaIsExactHolds == QuotaSpec => []QuotaIsExact
<1>1. QuotaInv => QuotaIsExact
  BY DEF QuotaInv, CountOK, QuotaIsExact
<1> QED
  BY <1>1, QuotaInvHolds, PTL
-----------------------------------------------------------------------------
(* The text of a stream is joined from texts, one after the other. *)

Texts == Seq(Nat \X Nat)
JoinsTo(f, s, n) == \A i \in 1..n : f[i] = IF i = 1 THEN s[i] ELSE f[i - 1] \o s[i]
Joins(f, s) == JoinsTo(f, s, Len(s))

(* A set of numbers has a least member: what follows is by the least counterexample. *)
LEMMA LeastMember ==
  ASSUME NEW S, S \subseteq Nat, S # {}
  PROVE  \E x \in S : \A y \in S : x <= y
<1> DEFINE R == {pair \in Nat \X Nat : pair[1] < pair[2]}
<1>1. IsWellFoundedOn(R, Nat)
  BY NatLessThanWellFounded DEF OpToRel
<1>2. PICK x \in S : \A y \in S : ~(<<y, x>> \in R)
  <2> HIDE DEF R
  <2> QED
    BY <1>1, WFMin
<1>3. ASSUME NEW y \in S PROVE x <= y
  <2>1. x \in Nat /\ y \in Nat /\ ~(y < x)
    BY <1>2
  <2> QED
    BY <2>1
<1> QED
  BY <1>3

(* Each text is put behind those before it. *)
LEMMA JoinsOnce ==
  ASSUME NEW g, NEW t, NEW n \in Nat \ {0}, JoinsTo(g, t, n + 1)
  PROVE  JoinsTo(g, t, n) /\ g[n + 1] = g[n] \o t[n + 1]
<1>1. \A i \in 1..(n + 1) : g[i] = IF i = 1 THEN t[i] ELSE g[i - 1] \o t[i]
  BY DEF JoinsTo
<1>2. n + 1 \in 1..(n + 1) /\ n + 1 # 1 /\ (n + 1) - 1 = n /\ 1..n \subseteq 1..(n + 1)
  OBVIOUS
<1>3. g[n + 1] = g[(n + 1) - 1] \o t[n + 1]
  BY <1>1, <1>2, Zenon
<1>4. JoinsTo(g, t, n)
  BY <1>1, <1>2, Zenon DEF JoinsTo
<1> QED
  BY <1>2, <1>3, <1>4

(* Some texts can be joined ... *)
LEMMA JoinExists ==
  ASSUME NEW s \in Seq(Texts)
  PROVE  \E f \in [1..Len(s) -> Texts] : Joins(f, s)
<1> DEFINE To(f, k) == \A i \in 1..k : f[i] = IF i = 1 THEN s[i] ELSE f[i - 1] \o s[i]
           Bad == {k \in 0..Len(s) : ~\E f \in [1..k -> Texts] : To(f, k)}
<1>1. SUFFICES ASSUME Bad # {} PROVE FALSE
  BY DEF Joins, JoinsTo
<1>2. Bad \subseteq Nat
  OBVIOUS
<1>3. PICK k \in Bad : \A y \in Bad : k <= y
  <2> HIDE DEF Bad
  <2> QED
    BY <1>1, <1>2, LeastMember
<1>4. k # 0
  <2>1. [i \in 1..0 |-> <<>>] \in [1..0 -> Texts] /\ To([i \in 1..0 |-> <<>>], 0)
    OBVIOUS
  <2> QED
    BY <2>1
<1>5. k \in 1..Len(s) /\ k - 1 \in 0..Len(s) /\ ~(k <= k - 1)
  BY <1>4
<1>6. PICK f \in [1..(k - 1) -> Texts] : To(f, k - 1)
  <2>1. k - 1 \notin Bad
    <3> HIDE DEF Bad
    <3> QED
      BY <1>3, <1>5
  <2> QED
    BY <1>5, <2>1
<1> DEFINE g == [i \in 1..k |-> IF i = k THEN IF k = 1 THEN s[k] ELSE f[k - 1] \o s[k] ELSE f[i]]
<1>7. s[k] \in Texts
  BY <1>5
<1>8. k # 1 => f[k - 1] \o s[k] \in Texts
  <2>1. k # 1 => f[k - 1] \in Texts
    BY <1>5
  <2> QED
    BY <2>1, <1>7 DEF Texts
<1>9. g \in [1..k -> Texts]
  <2>1. \A i \in 1..k : i # k => i \in 1..(k - 1)
    BY <1>5
  <2> QED
    BY <2>1, <1>7, <1>8
<1>10. To(g, k)
  <2> TAKE i \in 1..k
  <2>1. CASE i = k
    <3>1. k # 1 => k - 1 \in 1..k /\ k - 1 # k
      BY <1>5
    <3> QED
      BY <2>1, <3>1
  <2>2. CASE i # k
    <3>1. i \in 1..(k - 1) /\ (i # 1 => i - 1 \in 1..k /\ i - 1 # k)
      BY <2>2, <1>5
    <3>2. g[i] = f[i] /\ (i # 1 => g[i - 1] = f[i - 1])
      BY <3>1, <2>2
    <3> QED
      BY <3>1, <3>2, <1>6
  <2> QED
    BY <2>1, <2>2
<1> QED
  BY <1>9, <1>10

(* ... in one way. *)
LEMMA JoinUnique ==
  ASSUME NEW f, NEW g, NEW s, NEW t, NEW n \in Nat,
         JoinsTo(f, s, n), JoinsTo(g, t, n), \A i \in 1..n : s[i] = t[i]
  PROVE  \A i \in 1..n : f[i] = g[i]
<1> DEFINE Bad == {i \in 1..n : f[i] # g[i]}
<1>1. SUFFICES ASSUME Bad # {} PROVE FALSE
  OBVIOUS
<1>2. Bad \subseteq Nat
  OBVIOUS
<1>3. PICK k \in Bad : \A y \in Bad : k <= y
  <2> HIDE DEF Bad
  <2> QED
    BY <1>1, <1>2, LeastMember
<1>4. k # 1
  BY <1>3 DEF JoinsTo
<1>5. k - 1 \in 1..n /\ ~(k <= k - 1)
  BY <1>4
<1>6. f[k - 1] = g[k - 1]
  <2>1. k - 1 \notin Bad
    <3> HIDE DEF Bad
    <3> QED
      BY <1>3, <1>5
  <2> QED
    BY <1>5, <2>1
<1>7. f[k] = f[k - 1] \o s[k] /\ g[k] = g[k - 1] \o t[k] /\ s[k] = t[k]
  BY <1>4 DEF JoinsTo
<1> QED
  BY <1>6, <1>7

(* That is how the library joins them. *)
LEMMA FlattenIsJoin ==
  ASSUME NEW s \in Seq(Texts), Len(s) # 0, NEW f \in [1..Len(s) -> Texts], Joins(f, s)
  PROVE  FlattenSeq(s) = f[Len(s)]
<1> DEFINE g == CHOOSE h : h = [i \in 1..Len(s) |-> IF i = 1 THEN s[i] ELSE h[i - 1] \o s[i]]
<1>1. f = [i \in 1..Len(s) |-> IF i = 1 THEN s[i] ELSE f[i - 1] \o s[i]]
  BY DEF Joins, JoinsTo
<1>2. g = [i \in 1..Len(s) |-> IF i = 1 THEN s[i] ELSE g[i - 1] \o s[i]]
  BY <1>1
<1>3. FlattenSeq(s) = g[Len(s)]
  BY DEF FlattenSeq
<1> HIDE DEF g
<1>4. Len(s) \in Nat /\ Len(s) \in 1..Len(s)
  OBVIOUS
<1>5. JoinsTo(g, s, Len(s))
  BY <1>2 DEF JoinsTo
<1>6. JoinsTo(f, s, Len(s)) /\ \A i \in 1..Len(s) : s[i] = s[i]
  BY DEF Joins
<1>7. \A i \in 1..Len(s) : f[i] = g[i]
  BY <1>4, <1>5, <1>6, JoinUnique
<1> QED
  BY <1>3, <1>4, <1>7

LEMMA FlattenNone == FlattenSeq(<<>>) = <<>>
  BY DEF FlattenSeq

LEMMA FlattenType == ASSUME NEW s \in Seq(Texts) PROVE FlattenSeq(s) \in Texts
<1>1. CASE Len(s) = 0
  <2>1. s = <<>> /\ <<>> \in Texts
    BY <1>1 DEF Texts
  <2> QED
    BY <2>1, FlattenNone
<1>2. CASE Len(s) # 0
  <2>1. PICK f \in [1..Len(s) -> Texts] : Joins(f, s)
    BY JoinExists
  <2>2. FlattenSeq(s) = f[Len(s)] /\ Len(s) \in 1..Len(s)
    BY <1>2, <2>1, FlattenIsJoin
  <2> QED
    BY <2>2
<1> QED
  BY <1>1, <1>2

LEMMA FlattenAppend ==
  ASSUME NEW s \in Seq(Texts), NEW x \in Texts
  PROVE  FlattenSeq(Append(s, x)) = FlattenSeq(s) \o x
<1> DEFINE t == Append(s, x)
<1>1. t \in Seq(Texts) /\ Len(t) = Len(s) + 1 /\ Len(s) \in Nat /\ t[Len(t)] = x
      /\ \A i \in 1..Len(s) : t[i] = s[i]
  OBVIOUS
<1> HIDE DEF t
<1>2. PICK g \in [1..Len(t) -> Texts] : Joins(g, t)
  BY <1>1, JoinExists
<1>3. FlattenSeq(t) = g[Len(t)]
  BY <1>1, <1>2, FlattenIsJoin
<1>4. CASE Len(s) = 0
  <2>1. g[Len(t)] = x
    BY <1>1, <1>2, <1>4 DEF Joins, JoinsTo
  <2>2. FlattenSeq(s) = <<>>
    BY <1>4, FlattenNone
  <2> QED
    BY <1>3, <2>1, <2>2 DEF Texts, t
<1>5. CASE Len(s) # 0
  <2>1. PICK f \in [1..Len(s) -> Texts] : Joins(f, s)
    BY JoinExists
  <2>2. FlattenSeq(s) = f[Len(s)]
    BY <1>5, <2>1, FlattenIsJoin
  <2>3. JoinsTo(f, s, Len(s))
    BY <2>1 DEF Joins
  <2>. DEFINE n == Len(s)
  <2>4. n \in Nat /\ n \in Nat \ {0} /\ n \in 1..n /\ Len(t) = n + 1
    BY <1>1, <1>5
  <2>. HIDE DEF n
  <2>5. JoinsTo(g, t, n + 1)
    BY <1>2, <2>4 DEF Joins
  <2>6. JoinsTo(g, t, n)
    BY <2>4, <2>5, JoinsOnce, Zenon
  <2>7. \A i \in 1..n : t[i] = s[i]
    BY <1>1 DEF n
  <2>8. JoinsTo(f, s, n)
    BY <2>3 DEF n
  <2>9. g[n] = f[n]
    BY <2>4, <2>6, <2>7, <2>8, JoinUnique
  <2>10. g[n + 1] = g[n] \o t[n + 1]
    BY <2>4, <2>5, JoinsOnce, Zenon
  <2>11. t[n + 1] = x /\ FlattenSeq(t) = g[n + 1] /\ FlattenSeq(s) = f[n]
    BY <1>1, <1>3, <2>2, <2>4 DEF n
  <2> QED
    BY <2>9, <2>10, <2>11 DEF t
<1> QED
  BY <1>4, <1>5

(* Texts that are all empty are joined to nothing. *)
LEMMA FlattenEmpties ==
  ASSUME NEW s \in Seq(Texts), \A i \in 1..Len(s) : s[i] = <<>>
  PROVE  FlattenSeq(s) = <<>>
<1>1. SUFFICES ASSUME Len(s) # 0 PROVE FlattenSeq(s) = <<>>
  <2>1. Len(s) = 0 => s = <<>>
    OBVIOUS
  <2> QED
    BY <2>1, FlattenNone
<1>2. PICK f \in [1..Len(s) -> Texts] : Joins(f, s)
  BY JoinExists
<1>3. Len(s) \in Nat /\ Len(s) \in 1..Len(s)
  BY <1>1
<1> DEFINE g == [i \in 1..Len(s) |-> <<>>]
<1>4. \A i \in 1..Len(s) : g[i] = IF i = 1 THEN s[i] ELSE g[i - 1] \o s[i]
  <2> TAKE i \in 1..Len(s)
  <2>1. g[i] = <<>> /\ s[i] = <<>>
    OBVIOUS
  <2>2. i # 1 => i - 1 \in 1..Len(s)
    BY <1>3
  <2>3. <<>> \o <<>> = <<>>
    OBVIOUS
  <2> QED
    BY <2>1, <2>2, <2>3
<1>5. g[Len(s)] = <<>>
  BY <1>3
<1> HIDE DEF g
<1>6. JoinsTo(g, s, Len(s)) /\ JoinsTo(f, s, Len(s)) /\ \A i \in 1..Len(s) : s[i] = s[i]
  BY <1>2, <1>4 DEF Joins, JoinsTo
<1>7. f[Len(s)] = g[Len(s)]
  BY <1>3, <1>6, JoinUnique
<1> QED
  BY <1>1, <1>2, <1>5, <1>7, FlattenIsJoin

(* What is joined for one index more. *)
LEMMA FlattenOneMore ==
  ASSUME NEW n \in Nat, NEW s \in [1..(n + 1) -> Texts]
  PROVE  FlattenSeq(s) = FlattenSeq([i \in 1..n |-> s[i]]) \o s[n + 1]
<1> DEFINE t == [i \in 1..n |-> s[i]]
<1>1. t \in Seq(Texts) /\ Len(t) = n /\ \A i \in 1..n : t[i] = s[i]
  OBVIOUS
<1>2. s[n + 1] \in Texts
  OBVIOUS
<1> HIDE DEF t
<1>3. s = Append(t, s[n + 1])
  <2>1. s \in Seq(Texts) /\ Len(s) = n + 1
    OBVIOUS
  <2>2. Append(t, s[n + 1]) \in Seq(Texts) /\ Len(Append(t, s[n + 1])) = n + 1
    BY <1>1, <1>2
  <2>3. \A i \in 1..(n + 1) : s[i] = Append(t, s[n + 1])[i]
    BY <1>1, <1>2
  <2> QED
    BY <2>1, <2>2, <2>3, SeqEqual
<1>4. FlattenSeq(Append(t, s[n + 1])) = FlattenSeq(t) \o s[n + 1]
  BY <1>1, <1>2, FlattenAppend
<1> QED
  BY <1>3, <1>4 DEF t

(* The chunks of a part that have been said. *)
Begun(p, b) == SubSeq(Part(p), 1, b)

LEMMA PartFacts ==
  ASSUME NEW p \in Nat \ {0}
  PROVE  /\ Part(p) \in Texts /\ Len(Part(p)) = Chunks /\ Chunks \in Nat \ {0}
         /\ \A b \in 0..Chunks : Begun(p, b) \in Texts
         /\ Begun(p, 0) = <<>> /\ Begun(p, Chunks) = Part(p)
         /\ \A b \in 0..Chunks : b < Chunks => Begun(p, b + 1) = Begun(p, b) \o <<<<p, b + 1>>>>
<1>1. Chunks \in Nat \ {0}
  BY StreamAssumption
<1>2. Part(p) \in Texts /\ Len(Part(p)) = Chunks /\ \A c \in 1..Chunks : Part(p)[c] = <<p, c>>
  BY <1>1 DEF Part, Texts
<1>3. ASSUME NEW b \in 0..Chunks PROVE Begun(p, b) \in Texts
  BY <1>1, <1>2, SubSeqProperties DEF Begun, Texts
<1>4. Begun(p, 0) = <<>> /\ Begun(p, Chunks) = Part(p)
  <2>1. SubSeq(Part(p), 1, Len(Part(p))) = Part(p)
    BY <1>2, SubSeqFull DEF Texts
  <2>2. SubSeq(Part(p), 1, 0) = <<>>
    BY <1>2, SubSeqEmpty
  <2> QED
    BY <1>2, <2>1, <2>2 DEF Begun
<1>5. ASSUME NEW b \in 0..Chunks, b < Chunks
      PROVE  Begun(p, b + 1) = Begun(p, b) \o <<<<p, b + 1>>>>
  <2>1. b + 1 \in 1..Len(Part(p)) /\ (b + 1) - 1 = b
    BY <1>1, <1>2, <1>5
  <2>2. SubSeq(Part(p), 1, b + 1) = SubSeq(Part(p), 1, (b + 1) - 1) \o <<Part(p)[b + 1]>>
    BY <1>2, <2>1, SubSeqRecursiveSecond DEF Texts
  <2>3. Part(p)[b + 1] = <<p, b + 1>>
    BY <1>2, <2>1
  <2> QED
    BY <2>1, <2>2, <2>3 DEF Begun
<1> QED
  BY <1>1, <1>2, <1>3, <1>4, <1>5

(* The parts, one after the other. *)
LEMMA UpToFacts ==
  ASSUME NEW n \in Nat
  PROVE  UpTo(n) \in Texts /\ UpTo(n + 1) = UpTo(n) \o Part(n + 1)
<1>1. [p \in 1..n |-> Part(p)] \in Seq(Texts)
  BY PartFacts
<1>2. [p \in 1..(n + 1) |-> Part(p)] \in [1..(n + 1) -> Texts]
  BY PartFacts
<1> DEFINE s == [p \in 1..(n + 1) |-> Part(p)]
<1>3. [p \in 1..n |-> s[p]] = [p \in 1..n |-> Part(p)] /\ s[n + 1] = Part(n + 1)
  OBVIOUS
<1> HIDE DEF s
<1>4. FlattenSeq(s) = FlattenSeq([p \in 1..n |-> s[p]]) \o s[n + 1]
  BY <1>2, FlattenOneMore DEF s
<1>5. UpTo(n) \in Texts
  BY <1>1, FlattenType DEF UpTo
<1> QED
  BY <1>3, <1>4, <1>5 DEF UpTo, s

LEMMA UpToNone == UpTo(0) = <<>>
<1>1. [p \in 1..0 |-> Part(p)] = <<>>
  OBVIOUS
<1> QED
  BY <1>1, FlattenNone DEF UpTo

LEMMA WholeFacts == Parts \in Nat \ {0} /\ Whole \in Texts /\ Whole # <<>>
<1>1. Parts \in Nat \ {0} /\ Parts - 1 \in Nat /\ (Parts - 1) + 1 = Parts
  BY StreamAssumption
<1>2. Whole = UpTo(Parts - 1) \o Part(Parts) /\ UpTo(Parts - 1) \in Texts /\ Whole \in Texts
  BY <1>1, UpToFacts DEF Whole
<1>3. Part(Parts) \in Texts /\ Len(Part(Parts)) # 0
  BY <1>1, PartFacts
<1>4. Len(Whole) # 0
  BY <1>2, <1>3 DEF Texts
<1> QED
  BY <1>1, <1>2, <1>4

(* What has been said is a beginning of all that will be. *)
LEMMA Beginning ==
  ASSUME NEW n \in Nat, NEW m \in Nat, n <= m
  PROVE  \E r \in Texts : UpTo(m) = UpTo(n) \o r
<1> DEFINE Bad == {k \in Nat : n <= k /\ ~\E r \in Texts : UpTo(k) = UpTo(n) \o r}
<1>1. SUFFICES ASSUME Bad # {} PROVE FALSE
  OBVIOUS
<1>2. PICK k \in Bad : \A y \in Bad : k <= y
  <2>1. Bad \subseteq Nat
    OBVIOUS
  <2> HIDE DEF Bad
  <2> QED
    BY <1>1, <2>1, LeastMember
<1>3. k # n
  <2>1. <<>> \in Texts /\ UpTo(n) = UpTo(n) \o <<>>
    BY UpToFacts DEF Texts
  <2> QED
    BY <2>1
<1>4. k \in Nat /\ k - 1 \in Nat /\ n <= k - 1 /\ ~(k <= k - 1) /\ (k - 1) + 1 = k
  BY <1>3
<1>5. k - 1 \notin Bad
  <2> HIDE DEF Bad
  <2> QED
    BY <1>2, <1>4
<1>6. PICK r \in Texts : UpTo(k - 1) = UpTo(n) \o r
  BY <1>4, <1>5
<1>7. UpTo(k) = UpTo(k - 1) \o Part(k) /\ Part(k) \in Texts /\ UpTo(n) \in Texts
  <2>1. UpTo((k - 1) + 1) = UpTo(k - 1) \o Part((k - 1) + 1) /\ UpTo(n) \in Texts
    BY <1>4, UpToFacts
  <2>2. k \in Nat \ {0}
    BY <1>4
  <2>3. Part(k) \in Texts
    BY <2>2, PartFacts
  <2> QED
    BY <1>4, <2>1, <2>3
<1>8. r \o Part(k) \in Texts /\ (UpTo(n) \o r) \o Part(k) = UpTo(n) \o (r \o Part(k))
  <2> DEFINE X == Nat \X Nat
             a == UpTo(n)
             b == Part(k)
  <2>1. a \in Seq(X) /\ b \in Seq(X) /\ r \in Seq(X)
    BY <1>7 DEF Texts
  <2> HIDE DEF X, a, b
  <2>2. r \o b \in Seq(X) /\ (a \o r) \o b = a \o (r \o b)
    BY <2>1
  <2> QED
    BY <2>2 DEF X, a, b, Texts
<1>9. k \in Bad
  BY <1>2
<1> QED
  BY <1>6, <1>7, <1>8, <1>9

(* What is yielded meanwhile, chunk after chunk, is a beginning of the whole text. *)
LEMMA Begins ==
  ASSUME NEW n \in 0..Parts, NEW b \in 0..Chunks, n = Parts => b = 0, NEW text, text = UpTo(n) \o Begun(n + 1, b)
  PROVE  text = SubSeq(Whole, 1, Len(text)) /\ text \in Texts /\ (n = Parts => text = Whole)
<1>1. Parts \in Nat /\ n \in Nat /\ n <= Parts
  BY WholeFacts
<1> DEFINE X == Nat \X Nat
<1>2. ASSUME NEW a \in Texts, NEW r \in Texts, Whole = a \o r
      PROVE  a = SubSeq(Whole, 1, Len(a))
  <2>1. a \in Seq(X) /\ r \in Seq(X)
    BY DEF Texts
  <2> HIDE DEF X
  <2>2. CASE Len(a) = 0
    <3>1. a = <<>>
      BY <2>1, <2>2
    <3>2. SubSeq(Whole, 1, 0) = <<>>
      BY SubSeqEmpty
    <3> QED
      BY <2>2, <3>1, <3>2
  <2>3. CASE Len(a) # 0
    <3>1. 1 \in 1..Len(a) /\ Len(a) \in 1..Len(a)
      BY <2>1, <2>3
    <3>2. SubSeq(a \o r, 1, Len(a)) = SubSeq(a, 1, Len(a))
      BY <2>1, <3>1, SubSeqOfConcat1
    <3>3. SubSeq(a, 1, Len(a)) = a
      BY <2>1, SubSeqFull
    <3> QED
      BY <1>2, <3>2, <3>3
  <2> QED
    BY <2>2, <2>3
<1>3. \E r \in Texts : Whole = text \o r /\ text \in Texts /\ (n = Parts => text = Whole)
  <2>1. CASE b = 0
    <3>1. PICK r \in Texts : UpTo(Parts) = UpTo(n) \o r
      BY <1>1, Beginning
    <3>2. Begun(n + 1, 0) = <<>> /\ UpTo(n) \in Texts
      <4>1. n + 1 \in Nat \ {0}
        BY <1>1
      <4> QED
        BY <1>1, <4>1, PartFacts, UpToFacts
    <3>3. text = UpTo(n)
      BY <2>1, <3>2, ConcatEmptySeq DEF Texts
    <3> QED
      BY <3>1, <3>2, <3>3 DEF Whole
  <2>2. CASE b # 0
    <3>1. n + 1 \in Nat \ {0} /\ n + 1 <= Parts /\ n # Parts
      BY <1>1, <2>2
    <3>2. PICK r \in Texts : UpTo(Parts) = UpTo(n + 1) \o r
      BY <1>1, <3>1, Beginning
    <3>3. UpTo(n + 1) = UpTo(n) \o Part(n + 1) /\ UpTo(n) \in Texts
      BY <1>1, UpToFacts
    <3>4. Part(n + 1) \in Texts /\ Len(Part(n + 1)) = Chunks /\ Chunks \in Nat \ {0}
      BY <3>1, PartFacts
    <3> DEFINE a == UpTo(n)
               q == Part(n + 1)
               c == SubSeq(q, 1, b)
               d == SubSeq(q, b + 1, Chunks)
    <3>5. a \in Seq(X) /\ q \in Seq(X) /\ r \in Seq(X) /\ Len(q) = Chunks /\ Chunks \in Nat \ {0}
      BY <3>3, <3>4 DEF Texts
    <3>6. text = a \o c
      BY DEF Begun
    <3> HIDE DEF X, a, q
    <3>7. q = c \o d
      <4>1. 1 \in 1..Len(q) + 1 /\ b \in 1 - 1..Len(q) /\ Chunks \in b..Len(q)
        BY <1>1, <3>5
      <4>2. c \o d = SubSeq(q, 1, Chunks)
        BY <3>5, <4>1, ConcatAdjacentSubSeq
      <4>3. SubSeq(q, 1, Len(q)) = q
        BY <3>5, SubSeqFull
      <4> QED
        BY <3>5, <4>2, <4>3
    <3>8. c \in Seq(X) /\ d \in Seq(X)
      <4>1. \A i \in 1..b : q[i] \in X
        BY <1>1, <3>5
      <4>2. \A i \in (b + 1)..Chunks : q[i] \in X
        BY <1>1, <3>5
      <4> QED
        BY <1>1, <3>5, <4>1, <4>2, SubSeqProperties
    <3> HIDE DEF c, d
    <3>9. a \o c \in Seq(X) /\ d \o r \in Seq(X) /\ (a \o (c \o d)) \o r = (a \o c) \o (d \o r)
      <4> DEFINE e == a \o c
      <4>1. e \in Seq(X) /\ d \o r \in Seq(X)
        BY <3>5, <3>8
      <4> HIDE DEF e
      <4>2. e \in Seq(X) /\ d \in Seq(X) /\ r \in Seq(X)
        BY <3>5, <3>8, <4>1
      <4>3. (e \o d) \o r = e \o (d \o r)
        BY <4>2, SMTT(40)
      <4>4. a \o (c \o d) = (a \o c) \o d
        BY <3>5, <3>8, SMTT(40)
      <4> QED
        BY <4>1, <4>3, <4>4 DEF e
    <3>10. Whole = (a \o q) \o r
      BY <3>2, <3>3 DEF Whole, a, q
    <3> QED
      BY <3>1, <3>6, <3>7, <3>9, <3>10 DEF X, Texts
  <2> QED
    BY <2>1, <2>2
<1> QED
  BY <1>2, <1>3

(* The invariant.  As long as no text was lost, the deltas and final texts of a part are
   what has been said of it, if the provider delivers it in this way; taken together
   they are in place if the parts are.  A final text is one of its part whatever
   was lost, and what ends the stream is whole.                              *)

Via(way, p, text) == IF way \in ways[p] THEN text ELSE <<>>
SaidOf(p) == IF \E k \in 1..said : order[k] = p THEN Part(p)
             ELSE IF said < Parts /\ order[said + 1] = p THEN Begun(p, begun) ELSE <<>>

DeltasAreSaid ==
  Lossless => /\ \A p \in 1..Parts : TextOf("delta", {p}) = Via("delta", p, SaidOf(p))
              /\ Plain => TextOf("delta", AnyPart) = Via("delta", 1, UpTo(said) \o Begun(said + 1, begun))

FinalsAreParts ==
  /\ \A i \in DOMAIN events : events[i].kind = "done" =>
       events[i].part \in 1..Parts /\ "done" \in ways[events[i].part] /\ events[i].text = Part(events[i].part)
  /\ Lossless => /\ \A k \in 1..said : "done" \in ways[order[k]] =>
                      \E i \in DOMAIN events : events[i].kind = "done" /\ events[i].part = order[k]
                 /\ Plain => TextOf("done", AnyPart) = Via("done", 1, UpTo(said))

EndsAreWhole ==
  /\ (ending # "parts" => said = Parts) /\ (said = Parts => begun = 0)
  /\ TextOf("message", AnyPart) \in {<<>>, Whole} /\ (ending = "parts" => TextOf("message", AnyPart) = <<>>)
  /\ TextOf("completed", AnyPart) \in {<<>>, Whole}
  /\ ending # "completed" => TextOf("completed", AnyPart) = <<>> /\ ~Has("completed")
  /\ Lossless => /\ ending # "parts" /\ "message" \in wholes => TextOf("message", AnyPart) = Whole
                 /\ ending = "completed" /\ "snapshot" \in wholes => TextOf("completed", AnyPart) = Whole

NothingIsLeftOut == wholes # {} \/ (\A p \in 1..Parts : ways[p] # {}) \/ (\A p \in 1..Parts : ways[p] = {})

(* Nothing more is yielded when the stream has been disturbed. *)
GivenBegins ==
  /\ ~Broken => given = TextOf("delta", AnyPart)
  /\ Plain => given = SubSeq(Whole, 1, Len(given))

StreamInv == StreamTypeOK /\ DeltasAreSaid /\ FinalsAreParts /\ EndsAreWhole /\ NothingIsLeftOut /\ GivenBegins

EventKinds == {"delta", "done", "message", "completed"} \cup Troubles
EventType == [kind : EventKinds, part : AnyPart, text : Texts]
Arrives(now, e) == IF now THEN events' = Append(events, e) ELSE UNCHANGED events

LEMMA EventTypes ==
  ASSUME StreamTypeOK
  PROVE  /\ events \in Seq(EventType) /\ Len(events) \in Nat /\ DOMAIN events = 1..Len(events)
         /\ \A i \in DOMAIN events : events[i].text \in Texts /\ events[i].part \in AnyPart
<1>1. events \in Seq(EventType)
  BY DEF StreamTypeOK, EventType, EventKinds, Texts
<1>2. Len(events) \in Nat /\ DOMAIN events = 1..Len(events) /\ \A i \in DOMAIN events : events[i] \in EventType
  <2> HIDE DEF EventType
  <2> QED
    BY <1>1
<1> QED
  BY <1>1, <1>2 DEF EventType

(* An event that arrives is the last one. *)
LEMMA LastArrives ==
  ASSUME StreamTypeOK, NEW kind \in EventKinds, NEW p \in AnyPart, NEW text \in Texts,
         events' = Append(events, Event(kind, p, text))
  PROVE  /\ events' \in Seq(EventType) /\ DOMAIN events' = 1..(Len(events) + 1)
         /\ \A i \in DOMAIN events : i \in DOMAIN events' /\ events'[i] = events[i]
         /\ events'[Len(events) + 1] = Event(kind, p, text)
<1> DEFINE e == Event(kind, p, text)
<1>1. events' = Append(events, e) /\ events \in Seq(EventType) /\ DOMAIN events = 1..Len(events)
      /\ Len(events) \in Nat
  BY EventTypes
<1>2. e \in EventType
  BY DEF Event, EventType
<1> HIDE DEF e
<1>3. /\ events' \in Seq(EventType) /\ DOMAIN events' = 1..(Len(events) + 1)
      /\ \A i \in 1..Len(events) : events'[i] = events[i]
      /\ events'[Len(events) + 1] = e
  <2> HIDE DEF EventType
  <2> QED
    BY <1>1, <1>2
<1>4. 1..Len(events) \subseteq 1..(Len(events) + 1)
  BY <1>1
<1> QED
  BY <1>1, <1>3, <1>4 DEF e

(* It adds its text to those of its kind and part. *)
LEMMA TextArrives ==
  ASSUME StreamTypeOK, NEW now \in BOOLEAN, NEW kind \in EventKinds, NEW p \in AnyPart, NEW text \in Texts,
         Arrives(now, Event(kind, p, text)), NEW k, NEW parts
  PROVE  /\ TextOf(k, parts)' = IF now /\ k = kind /\ p \in parts THEN TextOf(k, parts) \o text
                                ELSE TextOf(k, parts)
         /\ TextOf(k, parts) \in Texts
<1> DEFINE e == Event(kind, p, text)
           Of(x) == IF x.kind = k /\ x.part \in parts THEN x.text ELSE <<>>
           s == [i \in DOMAIN events |-> Of(events[i])]
           t == [i \in DOMAIN events' |-> Of(events'[i])]
<1>1. /\ Len(events) \in Nat /\ DOMAIN events = 1..Len(events)
      /\ \A i \in DOMAIN events : events[i].text \in Texts
  BY EventTypes
<1>2. e.kind = kind /\ e.part = p /\ e.text = text
  BY DEF Event
<1>3. <<>> \in Texts
  BY DEF Texts
<1>4. \A i \in 1..Len(events) : Of(events[i]) \in Texts
  BY <1>1, <1>3
<1>5. Of(e) \in Texts /\ Of(e) = IF k = kind /\ p \in parts THEN text ELSE <<>>
  <2> HIDE DEF e
  <2> QED
    BY <1>2, <1>3
<1>6. TextOf(k, parts) = FlattenSeq(s) /\ TextOf(k, parts)' = FlattenSeq(t)
  BY DEF TextOf
<1> HIDE DEF Of
<1>7. s \in Seq(Texts) /\ FlattenSeq(s) \in Texts
  BY <1>1, <1>4, FlattenType
<1>8. CASE now
  <2>1. /\ DOMAIN events' = 1..(Len(events) + 1)
        /\ \A i \in 1..Len(events) : i \in 1..(Len(events) + 1) /\ events'[i] = events[i]
        /\ events'[Len(events) + 1] = e
    BY <1>1, <1>8, LastArrives DEF Arrives
  <2>2. t \in [1..(Len(events) + 1) -> Texts]
    <3> SUFFICES ASSUME NEW i \in 1..(Len(events) + 1) PROVE Of(events'[i]) \in Texts
      BY <2>1
    <3>1. i \in 1..Len(events) \/ i = Len(events) + 1
      BY <1>1
    <3> HIDE DEF e
    <3> QED
      BY <2>1, <1>4, <1>5, <3>1
  <2>3. [i \in 1..Len(events) |-> t[i]] = s /\ t[Len(events) + 1] = Of(e)
    <3> HIDE DEF e
    <3>1. Len(events) + 1 \in 1..(Len(events) + 1)
      BY <1>1
    <3> QED
      BY <1>1, <2>1, <3>1
  <2>4. FlattenSeq(t) = FlattenSeq(s) \o Of(e)
    <3> HIDE DEF t, s
    <3> QED
      BY <1>1, <2>2, <2>3, FlattenOneMore
  <2> HIDE DEF s, t
  <2>5. FlattenSeq(s) \o <<>> = FlattenSeq(s)
    BY <1>7, ConcatEmptySeq DEF Texts
  <2> HIDE DEF e
  <2> QED
    BY <1>5, <1>6, <1>7, <1>8, <2>4, <2>5
<1>9. CASE ~now
  <2>1. TextOf(k, parts)' = TextOf(k, parts)
    BY <1>9 DEF Arrives, TextOf
  <2> QED
    BY <1>6, <1>7, <1>9, <2>1
<1> QED
  BY <1>8, <1>9

(* The other events stay. *)
LEMMA EventArrives ==
  ASSUME StreamTypeOK, NEW now \in BOOLEAN, NEW kind \in EventKinds, NEW p \in AnyPart, NEW text \in Texts,
         Arrives(now, Event(kind, p, text))
  PROVE  /\ events' \in Seq(EventType)
         /\ \A i \in DOMAIN events : i \in DOMAIN events' /\ events'[i] = events[i]
         /\ \A i \in DOMAIN events' :
              \/ i \in DOMAIN events
              \/ now /\ events'[i].kind = kind /\ events'[i].part = p /\ events'[i].text = text
         /\ now => \E i \in DOMAIN events' : events'[i].kind = kind /\ events'[i].part = p
<1> DEFINE e == Event(kind, p, text)
<1>1. Len(events) \in Nat /\ DOMAIN events = 1..Len(events) /\ events \in Seq(EventType)
  BY EventTypes
<1>2. e.kind = kind /\ e.part = p /\ e.text = text
  BY DEF Event
<1>3. CASE now
  <2>1. /\ events' \in Seq(EventType) /\ DOMAIN events' = 1..(Len(events) + 1)
        /\ \A i \in DOMAIN events : i \in DOMAIN events' /\ events'[i] = events[i]
        /\ events'[Len(events) + 1] = e
    BY <1>3, LastArrives DEF Arrives
  <2>2. /\ \A i \in 1..(Len(events) + 1) : i \in 1..Len(events) \/ i = Len(events) + 1
        /\ Len(events) + 1 \in 1..(Len(events) + 1)
    BY <1>1
  <2> HIDE DEF e
  <2> QED
    BY <1>1, <1>2, <1>3, <2>1, <2>2
<1>4. CASE ~now
  BY <1>1, <1>4 DEF Arrives
<1> QED
  BY <1>3, <1>4

(* What a step adds to what has been received: an event, read or not, or one of the
   troubles.                                                                 *)
Reads(now, seen, kind, p, text) ==
  /\ seen => now
  /\ Lossless' => Lossless /\ (now /\ text # <<>> => seen)
  /\ ~Broken' => ~Broken /\ (now => seen)
  /\ events' \in Seq(EventType)
  /\ \A k, parts : k \notin Troubles =>
       TextOf(k, parts)' = IF seen /\ k = kind /\ p \in parts THEN TextOf(k, parts) \o text ELSE TextOf(k, parts)
  /\ \A i \in DOMAIN events : i \in DOMAIN events' /\ events'[i] = events[i]
  /\ \A i \in DOMAIN events' :
       \/ i \in DOMAIN events
       \/ events'[i].kind \in Troubles
       \/ seen /\ events'[i].kind = kind /\ events'[i].part = p /\ events'[i].text = text
  /\ seen => \E i \in DOMAIN events' : events'[i].kind = kind /\ events'[i].part = p

LEMMA ArrivesReads ==
  ASSUME StreamTypeOK, NEW now \in BOOLEAN, NEW kind \in EventKinds, NEW p \in AnyPart, NEW text \in Texts,
         kind \notin Troubles, NEW k \in {kind} \cup Troubles, Arrives(now, Event(k, p, text)),
         k \in Troubles /\ k # "junk" => text = <<>>
  PROVE  Reads(now, now /\ k = kind, kind, p, text)
<1> DEFINE seen == now /\ k = kind
<1>1. k \in EventKinds /\ seen \in BOOLEAN /\ "junk" \in Troubles
  BY DEF EventKinds, Troubles
<1>2. /\ events' \in Seq(EventType)
      /\ \A i \in DOMAIN events : i \in DOMAIN events' /\ events'[i] = events[i]
      /\ \A i \in DOMAIN events' :
           i \in DOMAIN events \/ (now /\ events'[i].kind = k /\ events'[i].part = p /\ events'[i].text = text)
      /\ now => \E i \in DOMAIN events' : events'[i].kind = k /\ events'[i].part = p
  BY <1>1, EventArrives
<1>3. now => \E i \in DOMAIN events' : events'[i] = Event(k, p, text)
  <2>1. SUFFICES ASSUME now PROVE \E i \in DOMAIN events' : events'[i] = Event(k, p, text)
    OBVIOUS
  <2>2. DOMAIN events' = 1..(Len(events) + 1) /\ events'[Len(events) + 1] = Event(k, p, text) /\ Len(events) \in Nat
    BY <1>1, <2>1, LastArrives, EventTypes DEF Arrives
  <2>3. Len(events) + 1 \in DOMAIN events'
    BY <2>2
  <2> QED
    BY <2>2, <2>3
<1>4. ASSUME NEW j, NEW parts, j \notin Troubles
      PROVE  TextOf(j, parts)' = IF seen /\ j = kind /\ p \in parts THEN TextOf(j, parts) \o text ELSE TextOf(j, parts)
  <2>1. TextOf(j, parts)' = IF now /\ j = k /\ p \in parts THEN TextOf(j, parts) \o text ELSE TextOf(j, parts)
    BY <1>1, TextArrives
  <2>2. (now /\ j = k /\ p \in parts) <=> (seen /\ j = kind /\ p \in parts)
    BY <1>4
  <2> QED
    BY <2>1, <2>2
<1>5. Event(k, p, text).kind = k /\ Event(k, p, text).text = text
  BY DEF Event
<1>6. Lossless' => Lossless /\ (now /\ text # <<>> => seen)
  <2>1. ASSUME Lossless' PROVE Lossless
    BY <1>2, <2>1 DEF Lossless
  <2>2. ASSUME Lossless', now, text # <<>> PROVE k = kind
    <3>1. k # "junk"
      BY <1>3, <1>5, <2>2 DEF Lossless
    <3> QED
      BY <2>2, <3>1
  <2> QED
    BY <2>1, <2>2
<1>7. ~Broken' => ~Broken /\ (now => seen)
  <2>1. ASSUME ~Broken' PROVE ~Broken
    BY <1>2, <2>1 DEF Broken
  <2>2. ASSUME ~Broken', now PROVE k = kind
    BY <1>3, <1>5, <2>2 DEF Broken
  <2> QED
    BY <2>1, <2>2
<1>8. /\ \A i \in DOMAIN events' :
           \/ i \in DOMAIN events
           \/ events'[i].kind \in Troubles
           \/ seen /\ events'[i].kind = kind /\ events'[i].part = p /\ events'[i].text = text
      /\ seen => \E i \in DOMAIN events' : events'[i].kind = kind /\ events'[i].part = p
  BY <1>2
<1> HIDE DEF seen
<1> QED
  BY <1>2, <1>4, <1>6, <1>7, <1>8 DEF Reads, seen

LEMMA DeliverReads ==
  ASSUME StreamTypeOK, NEW now \in BOOLEAN, NEW kind \in EventKinds, NEW p \in AnyPart, NEW text \in Texts,
         kind \notin Troubles, Deliver(now, kind, p, text)
  PROVE  \E seen \in BOOLEAN : Reads(now, seen, kind, p, text)
<1>1. PICK k \in {kind, "junk"} : Arrives(now, Event(k, p, text))
  BY DEF Deliver, Receive, Arrives
<1>2. k \in {kind} \cup Troubles /\ (k \in Troubles /\ k # "junk" => text = <<>>)
  BY <1>1 DEF Troubles
<1>3. Reads(now, now /\ k = kind, kind, p, text)
  BY <1>1, <1>2, ArrivesReads
<1>4. (now /\ k = kind) \in BOOLEAN
  OBVIOUS
<1> QED
  BY <1>3, <1>4

(* The parts come in an order that names each of them once. *)
LEMMA OrderFacts ==
  ASSUME StreamTypeOK
  PROVE  /\ Parts \in Nat \ {0} /\ Chunks \in Nat \ {0} /\ said \in 0..Parts /\ begun \in 0..Chunks
         /\ \A k \in 1..Parts : order[k] \in 1..Parts
         /\ \A k, l \in 1..Parts : order[k] = order[l] => k = l
         /\ \A p \in 1..Parts : \E k \in 1..Parts : order[k] = p
         /\ \A p \in 1..Parts : p \in Nat \ {0} /\ p \in AnyPart /\ Part(p) \in Texts /\ ways[p] \subseteq {"delta", "done"}
<1>1. Parts \in Nat \ {0} /\ Chunks \in Nat \ {0} /\ said \in 0..Parts /\ begun \in 0..Chunks
  BY StreamAssumption DEF StreamTypeOK
<1>2. /\ order \in [1..Parts -> 1..Parts]
      /\ \A k, l \in 1..Parts : order[k] = order[l] => k = l
      /\ \A p \in 1..Parts : \E k \in 1..Parts : order[k] = p
  BY DEF StreamTypeOK, Bijection, Injection, Surjection, IsInjective
<1>3. \A p \in 1..Parts : p \in Nat \ {0} /\ p \in AnyPart /\ ways[p] \subseteq {"delta", "done"}
  BY <1>1 DEF StreamTypeOK, AnyPart
<1>4. \A p \in 1..Parts : Part(p) \in Texts
  BY <1>3, PartFacts
<1> QED
  BY <1>1, <1>2, <1>3, <1>4

LEMMA ProviderStays ==
  ASSUME UNCHANGED provider
  PROVE  /\ Plain' = Plain /\ NothingIsLeftOut' = NothingIsLeftOut /\ Whole' = Whole /\ AnyPart' = AnyPart
         /\ order' = order /\ ways' = ways /\ wholes' = wholes
BY DEF provider, Plain, NothingIsLeftOut, Whole, UpTo, Part, AnyPart

LEMMA NoneThenText == ASSUME NEW t \in Texts PROVE <<>> \o t = t /\ t \o <<>> = t /\ <<>> \in Texts
BY DEF Texts

(* The steps keep the invariant. *)
LEMMA StreamInvInit == StreamInit => StreamInv
<1> SUFFICES ASSUME StreamInit PROVE StreamInv
  OBVIOUS
<1>1. /\ said = 0 /\ begun = 0 /\ ending = "parts" /\ events = <<>> /\ given = <<>>
      /\ Parts \in Nat \ {0} /\ Chunks \in Nat \ {0}
  BY StreamAssumption DEF StreamInit
<1>2. ASSUME NEW k, NEW parts PROVE TextOf(k, parts) = <<>>
  <2>1. [i \in DOMAIN events |-> IF events[i].kind = k /\ events[i].part \in parts THEN events[i].text ELSE <<>>] = <<>>
    BY <1>1
  <2> QED
    BY <2>1, FlattenNone DEF TextOf
<1>3. StreamTypeOK
  BY <1>1 DEF StreamInit, StreamTypeOK, AnyPart
<1>4. Begun(1, 0) = <<>> /\ UpTo(0) = <<>> /\ <<>> \o <<>> = <<>> /\ \A p \in 1..Parts : Begun(p, 0) = <<>>
  BY PartFacts, UpToNone
<1>5. DeltasAreSaid
  <2>1. \A p \in 1..Parts : SaidOf(p) = <<>>
    BY <1>1, <1>4 DEF SaidOf
  <2>2. UpTo(said) \o Begun(said + 1, begun) = <<>>
    BY <1>1, <1>4
  <2> QED
    BY <1>2, <2>1, <2>2 DEF DeltasAreSaid, Via
<1>6. FinalsAreParts
  BY <1>1, <1>2, <1>4 DEF FinalsAreParts, Via
<1>7. EndsAreWhole
  BY <1>1, <1>2 DEF EndsAreWhole, Has
<1>8. NothingIsLeftOut
  BY DEF StreamInit, NothingIsLeftOut
<1>9. GivenBegins
  <2>1. SubSeq(Whole, 1, 0) = <<>> /\ Len(<<>>) = 0
    BY SubSeqEmpty
  <2> QED
    BY <1>1, <1>2, <2>1 DEF GivenBegins
<1> QED
  BY <1>3, <1>5, <1>6, <1>7, <1>8, <1>9 DEF StreamInv

LEMMA GivenStays ==
  ASSUME StreamInv, NEW now, NEW seen, NEW kind, NEW p, NEW text, Reads(now, seen, kind, p, text),
         kind # "delta", UNCHANGED <<provider, given>>
  PROVE  GivenBegins'
<1>1. TextOf("delta", AnyPart)' = TextOf("delta", AnyPart)
  <2>1. "delta" \notin Troubles /\ AnyPart' = AnyPart
    BY DEF Troubles, AnyPart
  <2> QED
    BY <2>1 DEF Reads
<1>2. (~Broken' => ~Broken) /\ Whole' = Whole /\ Plain' = Plain /\ given' = given
  BY ProviderStays DEF Reads
<1> QED
  BY <1>1, <1>2 DEF StreamInv, GivenBegins

LEMMA ChunkStep == ASSUME StreamInv, SayChunk PROVE StreamInv'
<1> DEFINE p == order[said + 1]
           c == <<<<p, begun + 1>>>>
           now == "delta" \in ways[p]
<1>1. /\ StreamTypeOK /\ said \in Nat /\ said < Parts /\ begun \in 0..Chunks /\ begun < Chunks /\ Parts \in Nat \ {0}
      /\ Chunks \in Nat \ {0} /\ said + 1 \in 1..Parts /\ 1 \in 1..Parts
  <2>1. StreamTypeOK /\ said < Parts /\ begun < Chunks
    BY DEF StreamInv, SayChunk
  <2> QED
    BY <2>1, OrderFacts
<1>2. p \in 1..Parts /\ p \in Nat \ {0} /\ p \in AnyPart /\ begun + 1 \in Nat
  BY <1>1, OrderFacts
<1>3. c \in Texts /\ c # <<>> /\ "delta" \in EventKinds /\ "delta" \notin Troubles /\ now \in BOOLEAN
  BY <1>2 DEF Texts, EventKinds, Troubles
<1>4. PICK seen \in BOOLEAN : Reads(now, seen, "delta", p, c)
  <2>1. Deliver(now, "delta", p, c)
    BY DEF SayChunk
  <2> HIDE DEF p, c, now
  <2> QED
    BY <1>1, <1>2, <1>3, <2>1, DeliverReads
<1>5. /\ UNCHANGED provider /\ said' = said /\ ending' = ending /\ begun' = begun + 1
      /\ given' = IF now /\ ~Broken' THEN given \o c ELSE given
  BY DEF SayChunk
<1>6. /\ order' = order /\ ways' = ways /\ wholes' = wholes /\ Plain' = Plain /\ Whole' = Whole /\ AnyPart' = AnyPart
      /\ NothingIsLeftOut'
  BY <1>5, ProviderStays DEF StreamInv
<1> HIDE DEF c, now
<1>7. /\ seen => now
      /\ Lossless' => Lossless /\ seen = now
      /\ ~Broken' => ~Broken /\ seen = now
      /\ \A parts : TextOf("delta", parts)' = IF seen /\ p \in parts THEN TextOf("delta", parts) \o c ELSE TextOf("delta", parts)
      /\ \A k, parts : k \notin Troubles /\ k # "delta" => TextOf(k, parts)' = TextOf(k, parts)
      /\ events' \in Seq(EventType)
      /\ \A i \in DOMAIN events : i \in DOMAIN events' /\ events'[i] = events[i]
      /\ \A i \in DOMAIN events' : i \in DOMAIN events \/ events'[i].kind \in Troubles \cup {"delta"}
  BY <1>3, <1>4 DEF Reads
<1>8. Begun(p, begun + 1) = Begun(p, begun) \o c /\ Begun(p, begun) \in Texts /\ UpTo(said) \in Texts
  <2>1. UpTo(said) \in Texts
    BY <1>1, UpToFacts
  <2> QED
    BY <1>1, <1>2, <2>1, PartFacts DEF c
<1>9. (UpTo(said) \o Begun(p, begun)) \o c = UpTo(said) \o Begun(p, begun + 1)
  <2> DEFINE X == Nat \X Nat
             a == UpTo(said)
             b == Begun(p, begun)
  <2>1. a \in Seq(X) /\ b \in Seq(X) /\ c \in Seq(X)
    BY <1>3, <1>8 DEF Texts
  <2> HIDE DEF X, a, b
  <2>2. (a \o b) \o c = a \o (b \o c)
    BY <2>1, SMTT(40)
  <2> QED
    BY <1>8, <2>2 DEF a, b
<1>10. StreamTypeOK'
  <2>1. Seq(Nat \X Nat) = Texts /\ (given \o c) \in Texts /\ given \in Texts
    BY <1>1, <1>3 DEF StreamTypeOK, Texts
  <2>2. begun' \in 0..Chunks /\ given' \in Texts
    BY <1>1, <1>5, <2>1
  <2> QED
    BY <1>1, <1>5, <1>6, <1>7, <2>1, <2>2 DEF StreamTypeOK, EventType, EventKinds
<1>11. Plain => p = said + 1 /\ (now <=> "delta" \in ways[1])
  BY <1>1, <1>2 DEF Plain, now
<1>12. Lossless' /\ Plain => TextOf("delta", AnyPart)' = Via("delta", 1, UpTo(said) \o Begun(said + 1, begun + 1))
  <2>1. SUFFICES ASSUME Lossless', Plain
                 PROVE  TextOf("delta", AnyPart)' = Via("delta", 1, UpTo(said) \o Begun(said + 1, begun + 1))
    OBVIOUS
  <2>2. TextOf("delta", AnyPart) = Via("delta", 1, UpTo(said) \o Begun(p, begun)) /\ p = said + 1
    BY <1>7, <1>11, <2>1 DEF StreamInv, DeltasAreSaid
  <2>3. TextOf("delta", AnyPart)' = IF now THEN TextOf("delta", AnyPart) \o c ELSE TextOf("delta", AnyPart)
    BY <1>2, <1>7, <2>1
  <2> QED
    BY <1>9, <1>11, <2>1, <2>2, <2>3 DEF Via
<1>13. DeltasAreSaid'
  <2>1. ASSUME Lossless', NEW q \in 1..Parts
        PROVE  TextOf("delta", {q})' = IF "delta" \in ways[q] THEN SaidOf(q)' ELSE <<>>
    <3>1. TextOf("delta", {q}) = IF "delta" \in ways[q] THEN SaidOf(q) ELSE <<>>
      BY <1>7, <2>1 DEF StreamInv, DeltasAreSaid, Via
    <3>2. TextOf("delta", {q})' = IF now /\ q = p THEN TextOf("delta", {q}) \o c ELSE TextOf("delta", {q})
      BY <1>7, <2>1
    <3>3. SaidOf(q)' = IF \E k \in 1..said : order[k] = q THEN Part(q)
                       ELSE IF p = q THEN Begun(q, begun + 1) ELSE <<>>
      BY <1>1, <1>5, <1>6 DEF SaidOf, Begun, Part
    <3>4. SaidOf(q) = IF \E k \in 1..said : order[k] = q THEN Part(q)
                      ELSE IF p = q THEN Begun(q, begun) ELSE <<>>
      BY <1>1 DEF SaidOf
    <3>5. ~\E k \in 1..said : order[k] = p
      <4>1. \A k \in 1..said : k \in 1..Parts /\ k # said + 1
        BY <1>1
      <4> QED
        BY <1>1, <4>1, OrderFacts
    <3> HIDE DEF p
    <3>6. CASE q = p
      BY <1>8, <3>1, <3>2, <3>3, <3>4, <3>5, <3>6 DEF now
    <3>7. CASE q # p
      BY <3>1, <3>2, <3>3, <3>4, <3>7
    <3> QED
      BY <3>6, <3>7
  <2>2. Via("delta", 1, UpTo(said) \o Begun(said + 1, begun))' = Via("delta", 1, UpTo(said) \o Begun(said + 1, begun + 1))
    BY <1>5, <1>6 DEF Via, UpTo, Begun, Part
  <2> QED
    BY <1>6, <1>12, <2>1, <2>2 DEF DeltasAreSaid, Via
<1>14. FinalsAreParts'
  <2>1. TextOf("done", AnyPart)' = TextOf("done", AnyPart)
    BY <1>6, <1>7 DEF Troubles
  <2>2. \A i \in DOMAIN events' : events'[i].kind = "done" => i \in DOMAIN events /\ events'[i] = events[i]
    BY <1>7 DEF Troubles
  <2>3. Via("done", 1, UpTo(said))' = Via("done", 1, UpTo(said)) /\ \A q : Part(q)' = Part(q)
    BY <1>5, <1>6 DEF Via, UpTo, Part
  <2> QED
    BY <1>5, <1>6, <1>7, <2>1, <2>2, <2>3 DEF StreamInv, FinalsAreParts
<1>15. EndsAreWhole'
  <2>1. TextOf("message", AnyPart)' = TextOf("message", AnyPart) /\ TextOf("completed", AnyPart)' = TextOf("completed", AnyPart)
    BY <1>6, <1>7 DEF Troubles
  <2>2. Has("completed")' => Has("completed")
    BY <1>7 DEF Has, Troubles
  <2> QED
    BY <1>1, <1>5, <1>6, <1>7, <2>1, <2>2 DEF StreamInv, EndsAreWhole
<1>16. GivenBegins'
  <2>1. ASSUME ~Broken' PROVE given' = TextOf("delta", AnyPart)'
    <3>1. given = TextOf("delta", AnyPart)
      BY <1>7, <2>1 DEF StreamInv, GivenBegins
    <3> QED
      BY <1>2, <1>5, <1>6, <1>7, <2>1, <3>1
  <2>2. ASSUME Plain, ~Broken' PROVE given' = SubSeq(Whole, 1, Len(given'))
    <3>1. Lossless'
      BY <2>2 DEF Broken, Lossless, Troubles
    <3>2. given' = Via("delta", 1, UpTo(said) \o Begun(said + 1, begun + 1))
      BY <1>6, <1>12, <2>1, <2>2, <3>1
    <3>3. CASE "delta" \in ways[1]
      <4>1. said \in 0..Parts /\ begun + 1 \in 0..Chunks /\ (said = Parts => begun + 1 = 0)
        BY <1>1
      <4>2. given' = UpTo(said) \o Begun(said + 1, begun + 1)
        BY <3>2, <3>3 DEF Via
      <4> QED
        BY <4>1, <4>2, Begins
    <3>4. CASE "delta" \notin ways[1]
      <4>1. given' = <<>> /\ SubSeq(Whole, 1, 0) = <<>> /\ Len(<<>>) = 0
        BY <3>2, <3>4, SubSeqEmpty DEF Via
      <4> QED
        BY <4>1
    <3> QED
      BY <3>3, <3>4
  <2>3. ASSUME Plain, Broken' PROVE given' = SubSeq(Whole, 1, Len(given'))
    BY <1>5, <2>3 DEF StreamInv, GivenBegins
  <2> QED
    BY <1>6, <2>1, <2>2, <2>3 DEF GivenBegins
<1> QED
  BY <1>6, <1>10, <1>13, <1>14, <1>15, <1>16 DEF StreamInv

LEMMA PartStep == ASSUME StreamInv, FinishPart PROVE StreamInv'
<1> DEFINE p == order[said + 1]
           c == Part(p)
           now == "done" \in ways[p]
<1>1. /\ StreamTypeOK /\ said \in Nat /\ said < Parts /\ begun = Chunks /\ Parts \in Nat \ {0}
      /\ Chunks \in Nat \ {0} /\ said + 1 \in 1..Parts /\ 1 \in 1..Parts
  <2>1. StreamTypeOK /\ said < Parts /\ begun = Chunks
    BY DEF StreamInv, FinishPart
  <2> QED
    BY <2>1, OrderFacts
<1>2. p \in 1..Parts /\ p \in Nat \ {0} /\ p \in AnyPart
  BY <1>1, OrderFacts
<1>3. c \in Texts /\ c # <<>> /\ "done" \in EventKinds /\ "done" \notin Troubles /\ now \in BOOLEAN
  <2>1. c \in Texts /\ Len(c) = Chunks
    BY <1>2, PartFacts
  <2>2. c # <<>>
    BY <1>1, <2>1
  <2> QED
    BY <2>1, <2>2 DEF EventKinds, Troubles
<1>4. PICK seen \in BOOLEAN : Reads(now, seen, "done", p, c)
  <2>1. Deliver(now, "done", p, c)
    BY DEF FinishPart
  <2> HIDE DEF p, c, now
  <2> QED
    BY <1>1, <1>2, <1>3, <2>1, DeliverReads
<1>5. UNCHANGED provider /\ said' = said + 1 /\ ending' = ending /\ begun' = 0 /\ given' = given
  BY DEF FinishPart
<1>6. /\ order' = order /\ ways' = ways /\ wholes' = wholes /\ Plain' = Plain /\ Whole' = Whole /\ AnyPart' = AnyPart
      /\ NothingIsLeftOut' /\ \A q : Part(q)' = Part(q)
  BY <1>5, ProviderStays DEF StreamInv, Part
<1>7. GivenBegins'
  <2> HIDE DEF p, c, now
  <2> QED
    BY <1>4, <1>5, GivenStays
<1> HIDE DEF now
<1>8. /\ seen => now
      /\ Lossless' => Lossless /\ seen = now
      /\ \A parts : TextOf("done", parts)' = IF seen /\ p \in parts THEN TextOf("done", parts) \o c ELSE TextOf("done", parts)
      /\ \A k, parts : k \notin Troubles /\ k # "done" => TextOf(k, parts)' = TextOf(k, parts)
      /\ events' \in Seq(EventType)
      /\ \A i \in DOMAIN events : i \in DOMAIN events' /\ events'[i] = events[i]
      /\ \A i \in DOMAIN events' :
           \/ i \in DOMAIN events
           \/ events'[i].kind \in Troubles
           \/ seen /\ events'[i].kind = "done" /\ events'[i].part = p /\ events'[i].text = c
      /\ seen => \E i \in DOMAIN events' : events'[i].kind = "done" /\ events'[i].part = p
  <2> HIDE DEF p, c
  <2> QED
    BY <1>3, <1>4 DEF Reads
<1>9. UpTo(said + 1) = UpTo(said) \o Part(said + 1) /\ UpTo(said + 1) \in Texts
  <2>1. said + 1 \in Nat
    BY <1>1
  <2> QED
    BY <1>1, <2>1, UpToFacts
<1>10. \A q \in Nat \ {0} : Begun(q, Chunks) = Part(q) /\ Begun(q, 0) = <<>>
  BY PartFacts
<1>11. StreamTypeOK'
  BY <1>1, <1>5, <1>6, <1>8 DEF StreamTypeOK, EventType, EventKinds, Texts
<1>12. Plain => p = said + 1 /\ (now <=> "done" \in ways[1])
  BY <1>1, <1>2 DEF Plain, now
<1>13. DeltasAreSaid'
  <2>1. ASSUME Lossless', NEW q \in 1..Parts
        PROVE  TextOf("delta", {q})' = IF "delta" \in ways[q] THEN SaidOf(q)' ELSE <<>>
    <3>1. TextOf("delta", {q})' = IF "delta" \in ways[q] THEN SaidOf(q) ELSE <<>>
      <4>1. TextOf("delta", {q})' = TextOf("delta", {q})
        BY <1>8 DEF Troubles
      <4> QED
        BY <1>8, <2>1, <4>1 DEF StreamInv, DeltasAreSaid, Via
    <3>2. SaidOf(q)' = IF \E k \in 1..(said + 1) : order[k] = q THEN Part(q)
                       ELSE IF said + 1 < Parts /\ order[said + 2] = q THEN Begun(q, 0) ELSE <<>>
      <4>1. (said + 1) + 1 = said + 2
        BY <1>1
      <4> QED
        BY <1>5, <1>6, <4>1 DEF SaidOf, Begun
    <3>3. SaidOf(q) = IF \E k \in 1..said : order[k] = q THEN Part(q)
                      ELSE IF p = q THEN Begun(q, Chunks) ELSE <<>>
      BY <1>1 DEF SaidOf
    <3>4. (\E k \in 1..(said + 1) : order[k] = q) <=> (\E k \in 1..said : order[k] = q) \/ p = q
      <4>1. \A k \in 1..(said + 1) : k \in 1..said \/ k = said + 1
        BY <1>1
      <4>2. 1..said \subseteq 1..(said + 1) /\ said + 1 \in 1..(said + 1)
        BY <1>1
      <4> QED
        BY <4>1, <4>2
    <3>5. SaidOf(q)' = SaidOf(q)
      <4> HIDE DEF p
      <4> QED
        BY <1>10, <3>2, <3>3, <3>4, <2>1
    <3> QED
      BY <3>1, <3>5
  <2>2. ASSUME Lossless', Plain
        PROVE  TextOf("delta", AnyPart)' = Via("delta", 1, UpTo(said) \o Begun(said + 1, begun))'
    <3>1. TextOf("delta", AnyPart)' = Via("delta", 1, UpTo(said) \o Begun(said + 1, Chunks))
      <4>1. TextOf("delta", AnyPart)' = TextOf("delta", AnyPart)
        BY <1>6, <1>8 DEF Troubles
      <4> QED
        BY <1>1, <1>8, <2>2, <4>1 DEF StreamInv, DeltasAreSaid
    <3>2. Via("delta", 1, UpTo(said) \o Begun(said + 1, begun))' = Via("delta", 1, UpTo(said + 1) \o Begun((said + 1) + 1, 0))
      BY <1>5, <1>6 DEF Via, UpTo, Begun
    <3>3. UpTo(said + 1) \o Begun((said + 1) + 1, 0) = UpTo(said) \o Begun(said + 1, Chunks)
      <4>1. said + 1 \in Nat \ {0} /\ (said + 1) + 1 \in Nat \ {0}
        BY <1>1
      <4>2. UpTo(said + 1) \o <<>> = UpTo(said + 1)
        BY <1>9, NoneThenText
      <4> QED
        BY <1>9, <1>10, <4>1, <4>2
    <3> QED
      BY <3>1, <3>2, <3>3 DEF Via
  <2> QED
    BY <1>6, <2>1, <2>2 DEF DeltasAreSaid, Via
<1>14. FinalsAreParts'
  <2>1. ASSUME NEW i \in DOMAIN events', events'[i].kind = "done"
        PROVE  /\ events'[i].part \in 1..Parts /\ "done" \in ways[events'[i].part]
               /\ events'[i].text = Part(events'[i].part)
    <3>1. CASE i \in DOMAIN events
      BY <1>8, <2>1, <3>1 DEF StreamInv, FinalsAreParts
    <3>2. CASE i \notin DOMAIN events
      <4>1. seen /\ events'[i].part = p /\ events'[i].text = c
        BY <1>8, <2>1, <3>2 DEF Troubles
      <4> QED
        BY <1>2, <1>8, <4>1 DEF now
    <3> QED
      BY <3>1, <3>2
  <2>2. ASSUME Lossless', NEW k \in 1..(said + 1), "done" \in ways[order[k]]
        PROVE  \E i \in DOMAIN events' : events'[i].kind = "done" /\ events'[i].part = order[k]
    <3>1. CASE k \in 1..said
      BY <1>8, <2>2, <3>1 DEF StreamInv, FinalsAreParts
    <3>2. CASE k = said + 1
      BY <1>8, <2>2, <3>2 DEF now
    <3> QED
      BY <1>1, <3>1, <3>2
  <2>3. ASSUME Lossless', Plain
        PROVE  TextOf("done", AnyPart)' = Via("done", 1, UpTo(said + 1))
    <3>1. TextOf("done", AnyPart) = Via("done", 1, UpTo(said))
      BY <1>8, <2>3 DEF StreamInv, FinalsAreParts
    <3>2. TextOf("done", AnyPart)' = IF now THEN TextOf("done", AnyPart) \o c ELSE TextOf("done", AnyPart)
      BY <1>2, <1>6, <1>8, <2>3
    <3> QED
      BY <1>9, <1>12, <2>3, <3>1, <3>2 DEF Via
  <2>4. Via("done", 1, UpTo(said))' = Via("done", 1, UpTo(said + 1))
    BY <1>5, <1>6 DEF Via, UpTo
  <2> QED
    BY <1>5, <1>6, <2>1, <2>2, <2>3, <2>4 DEF FinalsAreParts
<1>15. EndsAreWhole'
  <2>1. TextOf("message", AnyPart)' = TextOf("message", AnyPart) /\ TextOf("completed", AnyPart)' = TextOf("completed", AnyPart)
    BY <1>6, <1>8 DEF Troubles
  <2>2. Has("completed")' => Has("completed")
    BY <1>8 DEF Has, Troubles
  <2> QED
    BY <1>1, <1>5, <1>6, <1>8, <2>1, <2>2 DEF StreamInv, EndsAreWhole
<1> QED
  BY <1>6, <1>7, <1>11, <1>13, <1>14, <1>15 DEF StreamInv

(* What is said stays as it is when the message ends, and when the stream is disturbed. *)
LEMMA StaysSaid ==
  ASSUME StreamInv, UNCHANGED <<provider, said, begun, given>>, NEW now, NEW seen \in BOOLEAN,
         NEW kind \in {"message", "completed"}, NEW text, Reads(now, seen, kind, 0, text)
  PROVE  /\ DeltasAreSaid' /\ FinalsAreParts' /\ GivenBegins' /\ NothingIsLeftOut'
         /\ ending' \in {"parts", "message", "completed"} => StreamTypeOK'
         /\ \A k \in {"message", "completed"} :
              TextOf(k, AnyPart)' = IF seen /\ k = kind THEN TextOf(k, AnyPart) \o text ELSE TextOf(k, AnyPart)
         /\ Has("completed")' => Has("completed") \/ (kind = "completed" /\ seen)
<1>1. /\ order' = order /\ ways' = ways /\ wholes' = wholes /\ Plain' = Plain /\ Whole' = Whole /\ AnyPart' = AnyPart
      /\ NothingIsLeftOut' /\ \A q : Part(q)' = Part(q)
  BY ProviderStays DEF StreamInv, Part
<1>2. said' = said /\ begun' = begun /\ given' = given /\ 0 \in AnyPart
  BY WholeFacts DEF AnyPart
<1>3. /\ Lossless' => Lossless
      /\ \A k \in {"delta", "done"} : \A parts : TextOf(k, parts)' = TextOf(k, parts)
      /\ events' \in Seq(EventType)
      /\ \A i \in DOMAIN events : i \in DOMAIN events' /\ events'[i] = events[i]
      /\ \A i \in DOMAIN events' : i \in DOMAIN events \/ events'[i].kind \in Troubles \/ (seen /\ events'[i].kind = kind)
  <2>1. \A k \in {"delta", "done"} : k \notin Troubles /\ k # kind
    BY DEF Troubles
  <2> QED
    BY <2>1 DEF Reads
<1>4. DeltasAreSaid'
  <2>1. \A q : SaidOf(q)' = SaidOf(q)
    BY <1>1, <1>2 DEF SaidOf, Begun
  <2>2. Via("delta", 1, UpTo(said) \o Begun(said + 1, begun))' = Via("delta", 1, UpTo(said) \o Begun(said + 1, begun))
    BY <1>1, <1>2 DEF Via, UpTo, Begun
  <2>3. \A q : Via("delta", q, SaidOf(q))' = Via("delta", q, SaidOf(q))
    BY <1>1, <2>1 DEF Via
  <2> QED
    BY <1>1, <1>3, <2>2, <2>3 DEF StreamInv, DeltasAreSaid
<1>5. FinalsAreParts'
  <2>1. Via("done", 1, UpTo(said))' = Via("done", 1, UpTo(said))
    BY <1>1, <1>2 DEF Via, UpTo
  <2>2. \A i \in DOMAIN events' : events'[i].kind = "done" => i \in DOMAIN events /\ events'[i] = events[i]
    BY <1>3 DEF Troubles
  <2> QED
    BY <1>1, <1>2, <1>3, <2>1, <2>2 DEF StreamInv, FinalsAreParts
<1>6. GivenBegins'
  BY GivenStays
<1>7. ending' \in {"parts", "message", "completed"} => StreamTypeOK'
  BY <1>1, <1>2, <1>3 DEF StreamInv, StreamTypeOK, EventType, EventKinds, Texts
<1>8. \A k \in {"message", "completed"} :
        TextOf(k, AnyPart)' = IF seen /\ k = kind THEN TextOf(k, AnyPart) \o text ELSE TextOf(k, AnyPart)
  <2>1. \A k \in {"message", "completed"} : k \notin Troubles
    BY DEF Troubles
  <2> QED
    BY <1>1, <1>2, <2>1 DEF Reads
<1>9. Has("completed")' => Has("completed") \/ (kind = "completed" /\ seen)
  <2>1. ASSUME NEW i \in DOMAIN events', events'[i].kind = "completed"
        PROVE  Has("completed") \/ (kind = "completed" /\ seen)
    <3>1. CASE i \in DOMAIN events
      BY <1>3, <2>1, <3>1 DEF Has
    <3>2. CASE i \notin DOMAIN events
      BY <1>3, <2>1, <3>2 DEF Troubles
    <3> QED
      BY <3>1, <3>2
  <2>2. Has("completed")' => \E i \in DOMAIN events' : events'[i].kind = "completed"
    BY DEF Has
  <2> QED
    BY <2>1, <2>2
<1> QED
  BY <1>1, <1>4, <1>5, <1>6, <1>7, <1>8, <1>9

LEMMA MessageStep == ASSUME StreamInv, FinishMessage PROVE StreamInv'
<1> DEFINE now == "message" \in wholes
<1>1. /\ "message" \in EventKinds /\ "message" \notin Troubles /\ Whole \in Texts /\ Whole # <<>> /\ 0 \in AnyPart
      /\ StreamTypeOK /\ now \in BOOLEAN
  BY WholeFacts DEF EventKinds, Troubles, AnyPart, StreamInv
<1>2. /\ said = Parts /\ ending = "parts" /\ ending' = "message" /\ UNCHANGED <<provider, said, begun, given>>
      /\ Deliver(now, "message", 0, Whole)
  BY DEF FinishMessage
<1>3. Whole' = Whole /\ AnyPart' = AnyPart /\ wholes' = wholes
  BY <1>2, ProviderStays
<1> HIDE DEF now
<1>4. PICK seen \in BOOLEAN : Reads(now, seen, "message", 0, Whole)
  BY <1>1, <1>2, DeliverReads
<1>5. (Lossless' => Lossless /\ (now => seen)) /\ (seen => now)
  BY <1>1, <1>4 DEF Reads
<1>6. /\ DeltasAreSaid' /\ FinalsAreParts' /\ GivenBegins' /\ NothingIsLeftOut' /\ StreamTypeOK'
      /\ TextOf("completed", AnyPart)' = TextOf("completed", AnyPart) /\ (Has("completed")' => Has("completed"))
      /\ TextOf("message", AnyPart)' = IF seen THEN TextOf("message", AnyPart) \o Whole ELSE TextOf("message", AnyPart)
  BY <1>2, <1>4, StaysSaid
<1>7. TextOf("message", AnyPart) = <<>> /\ <<>> \o Whole = Whole
  BY <1>1, <1>2, NoneThenText DEF StreamInv, EndsAreWhole
<1>8. EndsAreWhole'
  BY <1>2, <1>3, <1>5, <1>6, <1>7 DEF StreamInv, EndsAreWhole, now
<1> QED
  BY <1>6, <1>8 DEF StreamInv

LEMMA CompleteStep == ASSUME StreamInv, Complete PROVE StreamInv'
<1> DEFINE text == IF "snapshot" \in wholes THEN Whole ELSE <<>>
<1>1. /\ "completed" \in EventKinds /\ "completed" \notin Troubles /\ text \in Texts /\ 0 \in AnyPart /\ StreamTypeOK
      /\ ("snapshot" \in wholes => text = Whole /\ text # <<>>) /\ text \in {<<>>, Whole}
  BY WholeFacts, NoneThenText DEF EventKinds, Troubles, AnyPart, StreamInv
<1>2. /\ ending = "message" /\ ending' = "completed" /\ UNCHANGED <<provider, said, begun, given>>
      /\ Deliver(TRUE, "completed", 0, text)
  BY DEF Complete, Deliver
<1>3. Whole' = Whole /\ AnyPart' = AnyPart /\ wholes' = wholes
  BY <1>2, ProviderStays
<1> HIDE DEF text
<1>4. PICK seen \in BOOLEAN : Reads(TRUE, seen, "completed", 0, text)
  <2>1. TRUE \in BOOLEAN
    OBVIOUS
  <2> QED
    BY <1>1, <1>2, <2>1, DeliverReads
<1>5. Lossless' => Lossless /\ (text # <<>> => seen)
  BY <1>4 DEF Reads
<1>6. /\ DeltasAreSaid' /\ FinalsAreParts' /\ GivenBegins' /\ NothingIsLeftOut' /\ StreamTypeOK'
      /\ TextOf("message", AnyPart)' = TextOf("message", AnyPart)
      /\ TextOf("completed", AnyPart)' = IF seen THEN TextOf("completed", AnyPart) \o text ELSE TextOf("completed", AnyPart)
  BY <1>2, <1>4, StaysSaid
<1>7. TextOf("completed", AnyPart) = <<>> /\ <<>> \o text = text
  BY <1>1, <1>2, NoneThenText DEF StreamInv, EndsAreWhole
<1>8. EndsAreWhole'
  BY <1>1, <1>2, <1>3, <1>5, <1>6, <1>7 DEF StreamInv, EndsAreWhole
<1> QED
  BY <1>6, <1>8 DEF StreamInv

LEMMA TroubleStep == ASSUME StreamInv, DisturbStream PROVE StreamInv'
<1>1. UNCHANGED <<provider, said, begun, ending, given>>
  BY DEF DisturbStream
<1>2. PICK trouble \in Troubles : events' = Append(events, Event(trouble, 0, <<>>))
  BY DEF DisturbStream
<1>3. Reads(TRUE, FALSE, "message", 0, <<>>)
  <2>1. /\ StreamTypeOK /\ TRUE \in BOOLEAN /\ "message" \in EventKinds /\ 0 \in AnyPart /\ <<>> \in Texts
        /\ "message" \notin Troubles /\ trouble \in {"message"} \cup Troubles
    BY WholeFacts DEF StreamInv, EventKinds, Troubles, AnyPart, Texts
  <2>2. Arrives(TRUE, Event(trouble, 0, <<>>))
    BY <1>2 DEF Arrives
  <2>3. Reads(TRUE, TRUE /\ trouble = "message", "message", 0, <<>>)
    BY <2>1, <2>2, ArrivesReads
  <2>4. (TRUE /\ trouble = "message") = FALSE
    BY DEF Troubles
  <2> QED
    BY <2>3, <2>4
<1>4. /\ DeltasAreSaid' /\ FinalsAreParts' /\ GivenBegins' /\ NothingIsLeftOut' /\ StreamTypeOK'
      /\ TextOf("message", AnyPart)' = TextOf("message", AnyPart)
      /\ TextOf("completed", AnyPart)' = TextOf("completed", AnyPart) /\ (Has("completed")' => Has("completed"))
  <2>1. FALSE \in BOOLEAN /\ ending' \in {"parts", "message", "completed"}
    BY <1>1 DEF StreamInv, StreamTypeOK
  <2> QED
    BY <1>1, <1>3, <2>1, StaysSaid
<1>5. Whole' = Whole /\ AnyPart' = AnyPart /\ wholes' = wholes /\ (Lossless' => Lossless)
  BY <1>1, <1>3, ProviderStays DEF Reads
<1>6. EndsAreWhole'
  BY <1>1, <1>4, <1>5 DEF StreamInv, EndsAreWhole
<1> QED
  BY <1>4, <1>6 DEF StreamInv

LEMMA StreamInvStep == StreamInv /\ [StreamNext]_streamVars => StreamInv'
<1> SUFFICES ASSUME StreamInv, [StreamNext]_streamVars PROVE StreamInv'
  OBVIOUS
<1>1. CASE UNCHANGED streamVars
  <2>1. /\ said' = said /\ begun' = begun /\ ending' = ending /\ events' = events /\ given' = given
        /\ order' = order /\ ways' = ways /\ wholes' = wholes /\ Plain' = Plain /\ Whole' = Whole /\ AnyPart' = AnyPart
        /\ NothingIsLeftOut' /\ \A q : Part(q)' = Part(q)
    BY <1>1, ProviderStays DEF streamVars, StreamInv, Part
  <2>2. /\ \A k, parts : TextOf(k, parts)' = TextOf(k, parts) /\ (Has(k)' <=> Has(k))
        /\ Lossless' = Lossless /\ Broken' = Broken
    BY <2>1 DEF TextOf, Has, Lossless, Broken
  <2>3. StreamTypeOK'
    BY <2>1 DEF StreamInv, StreamTypeOK
  <2>4. DeltasAreSaid'
    <3>1. Via("delta", 1, UpTo(said) \o Begun(said + 1, begun))' = Via("delta", 1, UpTo(said) \o Begun(said + 1, begun))
      BY <2>1 DEF Via, UpTo, Begun
    <3>2. \A p : Via("delta", p, SaidOf(p))' = Via("delta", p, SaidOf(p))
      BY <2>1 DEF Via, SaidOf, Begun
    <3> QED
      BY <2>1, <2>2, <3>1, <3>2 DEF StreamInv, DeltasAreSaid
  <2>5. FinalsAreParts'
    <3>1. Via("done", 1, UpTo(said))' = Via("done", 1, UpTo(said))
      BY <2>1 DEF Via, UpTo
    <3> QED
      BY <2>1, <2>2, <3>1 DEF StreamInv, FinalsAreParts
  <2>6. EndsAreWhole' /\ GivenBegins'
    BY <2>1, <2>2 DEF StreamInv, EndsAreWhole, GivenBegins
  <2> QED
    BY <2>1, <2>3, <2>4, <2>5, <2>6 DEF StreamInv
<1> QED
  BY <1>1, ChunkStep, PartStep, MessageStep, CompleteStep, TroubleStep DEF StreamNext

LEMMA StreamInvHolds == StreamSpec => []StreamInv
  BY StreamInvInit, StreamInvStep, PTL DEF StreamSpec

(* A bounded set has a greatest one. *)
LEMMA GreatestMember ==
  ASSUME NEW S, NEW m \in Nat, S \subseteq 0..m, S # {}
  PROVE  Max(S) \in S
<1> DEFINE Below == {m - x : x \in S}
<1>0. \A x \in S : x \in 0..m /\ m - x \in Nat
  OBVIOUS
<1>1. Below \subseteq Nat /\ Below # {}
  BY <1>0
<1>2. PICK y \in Below : \A z \in Below : y <= z
  <2> HIDE DEF Below
  <2> QED
    BY <1>1, LeastMember
<1>3. PICK x \in S : y = m - x
  OBVIOUS
<1>4. ASSUME NEW z \in S PROVE x >= z
  <2>1. m - x <= m - z
    BY <1>2, <1>3
  <2> QED
    BY <1>0, <2>1
<1> QED
  BY <1>4 DEF Max

(* What collect_response makes of the parts. *)
LEMMA MergedIs ==
  ASSUME StreamInv, ending = "completed", Lossless, wholes = {}
  PROVE  Merged \in {<<>>, Whole}
<1>1. /\ Parts \in Nat /\ said = Parts
      /\ \A p \in 1..Parts : Part(p) \in Texts /\ ways[p] \subseteq {"delta", "done"} /\ \E k \in 1..Parts : order[k] = p
  BY OrderFacts DEF StreamInv, EndsAreWhole
<1> DEFINE Finals(p) == {i \in DOMAIN events : events[i].kind = "done" /\ events[i].part = p}
<1>2. ASSUME NEW p \in 1..Parts, Finals(p) # {}
      PROVE  "done" \in ways[p] /\ PartText(p) = Part(p)
  <2>1. Finals(p) \subseteq 0..Len(events) /\ Len(events) \in Nat
    BY EventTypes DEF StreamInv
  <2>2. Max(Finals(p)) \in Finals(p)
    <3> HIDE DEF Finals
    <3> QED
      BY <1>2, <2>1, GreatestMember
  <2>3. PartText(p) = events[Max(Finals(p))].text
    BY <1>2 DEF PartText
  <2> QED
    BY <2>2, <2>3 DEF StreamInv, FinalsAreParts
<1>3. ASSUME NEW p \in 1..Parts, Finals(p) = {}
      PROVE  "done" \notin ways[p] /\ PartText(p) = Via("delta", p, Part(p))
  <2>1. "done" \notin ways[p]
    BY <1>1, <1>3 DEF StreamInv, FinalsAreParts
  <2>2. PartText(p) = TextOf("delta", {p})
    BY <1>3 DEF PartText
  <2>3. SaidOf(p) = Part(p)
    BY <1>1 DEF SaidOf
  <2> QED
    BY <2>1, <2>2, <2>3 DEF StreamInv, DeltasAreSaid
<1> HIDE DEF Finals
<1>4. CASE \A p \in 1..Parts : ways[p] # {}
  <2>1. \A p \in 1..Parts : PartText(p) = Part(p)
    <3> TAKE p \in 1..Parts
    <3>1. "done" \in ways[p] \/ "delta" \in ways[p]
      BY <1>1, <1>4
    <3> QED
      BY <1>2, <1>3, <3>1 DEF Via
  <2>2. [p \in 1..Parts |-> PartText(p)] = [p \in 1..Parts |-> Part(p)]
    BY <2>1
  <2> QED
    BY <2>2 DEF Merged, Whole, UpTo
<1>5. CASE \A p \in 1..Parts : ways[p] = {}
  <2>1. \A p \in 1..Parts : PartText(p) = <<>>
    BY <1>2, <1>3, <1>5 DEF Via
  <2> DEFINE s == [p \in 1..Parts |-> PartText(p)]
  <2>2. s \in Seq(Texts) /\ \A i \in 1..Len(s) : s[i] = <<>>
    <3>1. Parts \in Nat /\ <<>> \in Texts
      BY <1>1 DEF Texts
    <3>2. s \in [1..Parts -> Texts] /\ \A p \in 1..Parts : s[p] = <<>>
      BY <2>1, <3>1
    <3> HIDE DEF s
    <3>3. s \in Seq(Texts) /\ Len(s) = Parts
      BY <3>1, <3>2
    <3> QED
      BY <3>2, <3>3
  <2>3. FlattenSeq(s) = <<>>
    <3> HIDE DEF s
    <3> QED
      BY <2>2, FlattenEmpties
  <2> QED
    BY <2>3 DEF Merged
<1> QED
  BY <1>4, <1>5 DEF StreamInv, NothingIsLeftOut

(* What an answer needs: the stream ended well. *)
LEMMA UsableEnds ==
  ASSUME StreamInv, Usable
  PROVE  /\ ending = "completed" /\ said = Parts /\ begun = 0
         /\ \A i \in DOMAIN events : events[i].kind \notin {"failed", "refusal"}
<1>1. ending = "completed"
  BY DEF StreamInv, EndsAreWhole, Usable
<1> QED
  BY <1>1 DEF StreamInv, EndsAreWhole, Usable, Has

LEMMA CollectedIs == ASSUME StreamInv PROVE Collected \in {<<>>, Whole}
<1>1. CASE ~(Usable /\ ~Has("junk"))
  BY <1>1 DEF Collected, NoAnswer
<1>2. CASE Usable /\ ~Has("junk")
  <2>1. ending = "completed" /\ Lossless
    BY <1>2, UsableEnds DEF Has, Lossless
  <2>2. TextOf("completed", AnyPart) \in {<<>>, Whole} /\ TextOf("message", AnyPart) \in {<<>>, Whole}
    BY DEF StreamInv, EndsAreWhole
  <2>3. CASE wholes = {}
    BY <1>2, <2>1, <2>2, <2>3, MergedIs DEF Collected, CollectedText, FirstOf
  <2>4. CASE wholes # {}
    <3>1. TextOf("completed", AnyPart) = Whole \/ TextOf("message", AnyPart) = Whole
      BY <2>1, <2>4 DEF StreamInv, StreamTypeOK, EndsAreWhole
    <3> QED
      BY <1>2, <2>2, <3>1, WholeFacts DEF Collected, CollectedText, FirstOf
  <2> QED
    BY <2>3, <2>4
<1> QED
  BY <1>1, <1>2

(* What the other two join is in place if the parts are. *)
LEMMA PlainTexts ==
  ASSUME StreamInv, Usable, Plain, Lossless
  PROVE  /\ TextOf("delta", AnyPart) \in {<<>>, Whole} /\ TextOf("done", AnyPart) \in {<<>>, Whole}
         /\ TextOf("completed", AnyPart) \in {<<>>, Whole}
<1>1. said = Parts /\ begun = 0 /\ Parts \in 0..Parts /\ 0 \in 0..Chunks
  BY UsableEnds, WholeFacts, StreamAssumption
<1>2. UpTo(Parts) \o Begun(Parts + 1, 0) = Whole
  BY <1>1, Begins
<1>3. TextOf("delta", AnyPart) \in {<<>>, Whole}
  BY <1>1, <1>2 DEF StreamInv, DeltasAreSaid, Via
<1>4. TextOf("done", AnyPart) \in {<<>>, Whole}
  BY <1>1 DEF StreamInv, FinalsAreParts, Via, Whole
<1> QED
  BY <1>3, <1>4 DEF StreamInv, EndsAreWhole

LEMMA BufferedIs == ASSUME StreamInv, Plain, Lossless PROVE Buffered \in {<<>>, Whole}
  BY PlainTexts DEF Buffered, FirstOf, NoAnswer

LEMMA StreamedIs == ASSUME StreamInv, Plain PROVE Streamed \in {<<>>, Whole}
<1>1. CASE ~(Usable /\ ~Has("junk"))
  BY <1>1 DEF Streamed, NoAnswer
<1>2. CASE Usable /\ ~Has("junk")
  <2>1. Lossless /\ ~Broken
    BY <1>2 DEF Has, Usable, Lossless, Broken, Troubles
  <2>2. given = TextOf("delta", AnyPart)
    BY <2>1 DEF StreamInv, GivenBegins
  <2> QED
    BY <1>2, <2>1, <2>2, PlainTexts DEF Streamed, FirstOf
<1> QED
  BY <1>1, <1>2

LEMMA StreamInvImplies == StreamInv => WholeAnswerOrNone
<1> SUFFICES ASSUME StreamInv PROVE WholeAnswerOrNone
  OBVIOUS
<1>1. Collected \in {NoAnswer, Whole}
  BY CollectedIs DEF NoAnswer
<1>2. Plain => Streamed \in {NoAnswer, Whole} /\ (Lossless => Buffered \in {NoAnswer, Whole})
  BY StreamedIs, BufferedIs DEF NoAnswer
<1>3. Plain => given = SubSeq(Whole, 1, Len(given))
  BY DEF StreamInv, GivenBegins
<1>4. ~Usable => {Buffered, Streamed, Collected} = {NoAnswer}
  BY DEF Buffered, Streamed, Collected
<1>5. Usable => ending = "completed" /\ \A i \in DOMAIN events : events[i].kind \notin {"failed", "refusal"}
  BY UsableEnds
<1> QED
  BY <1>1, <1>2, <1>3, <1>4, <1>5 DEF WholeAnswerOrNone

(* openai_codex.py:819: what a stream has delivered is well typed. *)
THEOREM StreamTypeCorrect == StreamSpec => []StreamTypeOK
<1>1. StreamInv => StreamTypeOK
  BY DEF StreamInv
<1> QED
  BY <1>1, StreamInvHolds, PTL

(* The docstring at chatgpt_assert_cli.py:89, for every number of parts and of chunks,
   every order and way in which they are delivered, and whichever lines cannot be read:
   collect_response answers with the whole text or with none.  The other two do so for
   parts that come in their order and all in the same ways, _parse_responses_sse if no
   line with a text was unreadable, and what _http_json_post_stream has yielded by then
   is a beginning of the text.  All three only answer after a stream that ended well. *)
THEOREM WholeAnswerOrNoneHolds == StreamSpec => []WholeAnswerOrNone
  BY StreamInvImplies, StreamInvHolds, PTL
-----------------------------------------------------------------------------
(* All the providers: each part of MCProviders behaves as its module specifies. *)

LEMMA ProvidersAreTheirs == ProvidersSpec => BudgetSpec /\ PlanSpec /\ CodexSpec /\ StreamSpec /\ QuotaSpec
<1>1. ProvidersInit => BudgetInit /\ PlanInit /\ CodexInit /\ StreamInit /\ QuotaInit
  BY DEF ProvidersInit
<1>2. [ProvidersNext]_providers => [BudgetNext]_budgetVars
  BY DEF ProvidersNext, providers
<1>3. [ProvidersNext]_providers => [PlanNext]_planVars
  BY DEF ProvidersNext, providers
<1>4. [ProvidersNext]_providers => [CodexNext]_codexVars
  BY DEF ProvidersNext, providers
<1>5. [ProvidersNext]_providers => [StreamNext]_streamVars
  BY DEF ProvidersNext, providers
<1>6. [ProvidersNext]_providers => [QuotaNext]_quotaVars
  BY DEF ProvidersNext, providers
<1> QED
  BY <1>1, <1>2, <1>3, <1>4, <1>5, <1>6, PTL DEF ProvidersSpec, BudgetSpec, PlanSpec, CodexSpec, StreamSpec, QuotaSpec

(* judge_budget.py, chatgpt_plan.py, openai_codex.py, chatgpt_assert_cli.py and rate_limit.py: no
   interleaving of their operations brings any part out of its types.       *)
THEOREM ProvidersTypeCorrect == ProvidersSpec => []ProvidersTypeOK
<1>1. BudgetTypeOK /\ PlanTypeOK /\ CodexTypeOK /\ StreamTypeOK /\ QuotaTypeOK <=> ProvidersTypeOK
  BY DEF ProvidersTypeOK
<1> QED
  BY <1>1, ProvidersAreTheirs, BudgetTypeCorrect, PlanTypeCorrect, CodexTypeCorrect, StreamTypeCorrect,
     QuotaTypeCorrect, PTL

(* The invariants of the single parts hold of all of them together: credits and
   slots, the ChatGPT session and its sign-ins, the text of an answer, the counts of the quotas. *)
THEOREM ProvidersHold ==
  ProvidersSpec => /\ [](/\ BudgetIsKept /\ SlotsAreHeld /\ SignedOutStays
                         /\ SessionIsCurrent /\ AttemptIsServed /\ WholeAnswerOrNone /\ QuotaIsExact)
                   /\ OnlyFlightsReturn
  BY ProvidersAreTheirs, BudgetIsKeptHolds, SlotsAreHeldHolds, SignedOutStaysHolds, SessionIsCurrentHolds,
     AttemptIsServedHolds, WholeAnswerOrNoneHolds, QuotaIsExactHolds, OnlyFlightsReturnHolds, PTL
=============================================================================
