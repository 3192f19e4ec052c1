--------------------------- MODULE FinanceProofs ----------------------------
(***************************************************************************)
(* For every number of orders, keys, requests and settlements, however     *)
(* often an order is settled: the balance never goes negative, a payout a  *)
(* client was shown is in the ledger, a restaurant's money is the abstract *)
(* account, and its balance is the net of the ledger and what repeated     *)
(* settlements credited.                                                   *)
(***************************************************************************)
EXTENDS Finance, FiniteSetTheorems, WellFoundedInduction, TLAPS

\* Two facts of arithmetic.
LEMMA ProductBounded ==
  ASSUME NEW s \in Nat, NEW b \in Nat, b <= 10000
  PROVE  s * b \in Nat /\ s * b <= s * 10000
<1>1. s * b >= 0
  BY SMTT(20)
<1>2. s * b <= s * 10000
  BY SMTT(20)
<1> QED
  BY <1>1, <1>2

\* A rate of at most 100% takes no more than there is.
LEMMA QuotientBounded ==
  ASSUME NEW s \in Nat, NEW p \in Nat, p <= s * 10000
  PROVE  p \div 10000 \in 0 .. s
<1>1. p \div 10000 <= s
  BY SMTT(20)
<1>2. p \div 10000 \in Int /\ p \div 10000 >= 0
  BY SMTT(20)
<1> QED
  BY <1>1, <1>2

\* Rounding down: the commission never exceeds the subtotal.
LEMMA CommissionBounded ==
  ASSUME NEW o \in Order, NEW bps \in Rate \cup {0}
  PROVE  Commission(o, bps) \in 0 .. Subtotal[o]
<1>1. Subtotal[o] \in Nat /\ bps \in Nat /\ bps <= 10000
  <2>1. Subtotal[o] \in Nat
    BY MoneyAssumption
  <2>2. bps \in 0 .. 10000
    BY RateAssumption
  <2> QED
    BY <2>1, <2>2
<1>2. Subtotal[o] * bps \in Nat /\ Subtotal[o] * bps <= Subtotal[o] * 10000
  BY <1>1, ProductBounded
<1> QED
  BY <1>1, <1>2, QuotientBounded DEF Commission

\* What is on its way to the balance is not negative, and neither is what is there.
Solvent ==
  /\ balance >= 0
  /\ \A s \in settling : s.commission <= Subtotal[s.order]

\* A handler that answers with a payout, and every copy of its answer, is right.
Truthful ==
  /\ \A d \in requests : "payout" = d.body => Booked("payout", d.key)
  /\ \A k \in Key : cache[k] = "payout" => Booked("payout", k)
  /\ \A k \in Key : "payout" \in told[k] => Booked("payout", k)

FinanceInv == TypeOK /\ Solvent /\ Truthful

\* At first there is nothing to settle or pay.
LEMMA InitFinance == Init => FinanceInv
<1> SUFFICES ASSUME Init PROVE FinanceInv
  OBVIOUS
<1>1. \A o \in Order : Total(o) \in Nat
  BY MoneyAssumption DEF Total
<1>2. ledger \subseteq LedgerRow
  BY <1>1, OrdersAssumption DEF Init, LedgerRow, LedgerEntry, RowKind
<1>3. TypeOK
  BY <1>2 DEF Init, TypeOK, Body
<1> QED
  BY <1>3 DEF Init, FinanceInv, Solvent, Truthful

-----------------------------------------------------------------------------
(* Settlements.                                                            *)

\* The rows of a settlement are rows of the ledger.
LEMMA SettlementRowsType ==
  ASSUME NEW o \in Order, NEW commission \in Nat
  PROVE  SettlementRows(o, commission) \subseteq LedgerRow
<1>1. Total(o) \in Nat /\ DeliveryFee[o] \in Nat /\ ServiceFee \in Nat
  BY MoneyAssumption DEF Total
<1> QED
  BY <1>1 DEF SettlementRows, LedgerRow, LedgerEntry, RowKind

\* Ledger rows are only added, so a payout that is booked stays booked.
LEMMA BookedStays ==
  ASSUME ledger \subseteq ledger', NEW kind, NEW ref, Booked(kind, ref)
  PROVE  Booked(kind, ref)'
BY DEF Booked

\* What the rows do not explain is between nothing and the subtotal.
LEMMA UnexplainedType ==
  ASSUME NEW s, Subtotal[s.order] \in Nat, s.commission \in Nat,
         s.commission <= Subtotal[s.order]
  PROVE  /\ Unexplained(s) \in Nat
         /\ credits[s.order] # 0 =>
              Unexplained(s) \in (Subtotal[s.order] - s.commission) .. Subtotal[s.order]
BY DEF Unexplained

\* A settlement credits what it books, and not less than 0.
LEMMA SettleStep ==
  ASSUME FinanceInv, SettleNext
  PROVE  FinanceInv'
<1> USE DEF FinanceInv
<1>1. ASSUME NEW c \in Settlement, NEW o \in Order, NEW bps \in Rate \cup {0},
             BeginSettle(c, o, bps)
      PROVE  FinanceInv'
  <2>1. Commission(o, bps) \in Nat /\ Commission(o, bps) <= Subtotal[o]
    BY CommissionBounded, MoneyAssumption
  <2>2. TypeOK'
    BY <1>1, <2>1 DEF BeginSettle, TypeOK
  <2>3. Solvent'
    BY <1>1, <2>1 DEF BeginSettle, Solvent
  <2>4. Truthful'
    BY <1>1 DEF BeginSettle, Truthful, Booked
  <2> QED
    BY <2>2, <2>3, <2>4
<1>2. ASSUME NEW s \in settling, CommitSettle(s)
      PROVE  FinanceInv'
  <2>1. s.order \in Order /\ s.commission \in Nat /\ Subtotal[s.order] \in Nat
        /\ s.commission <= Subtotal[s.order]
    BY MoneyAssumption DEF TypeOK, Solvent
  <2>2. ledger \subseteq ledger' /\ ledger' \subseteq LedgerRow
    BY <1>2, <2>1, SettlementRowsType DEF CommitSettle, CreateTransactionsIdempotent, TypeOK
  <2>3. balance' \in Int /\ balance' >= 0
    BY <1>2, <2>1 DEF CommitSettle, UpsertIncrement, TypeOK, Solvent
  <2>7. Unexplained(s) \in Nat /\ surplus' = surplus + Unexplained(s)
    BY <1>2, <2>1, UnexplainedType DEF CommitSettle
  <2>4. TypeOK'
    BY <1>2, <2>1, <2>2, <2>3, <2>7 DEF CommitSettle, TypeOK
  <2>5. Solvent'
    BY <1>2, <2>3 DEF CommitSettle, Solvent
  <2>6. Truthful'
    BY <1>2, <2>2, BookedStays DEF CommitSettle, Truthful
  <2> QED
    BY <2>4, <2>5, <2>6
<1>3. ASSUME NEW s \in settling, SettleFails(s)
      PROVE  FinanceInv'
  BY <1>3 DEF SettleFails, TypeOK, Solvent, Truthful, Booked
<1> QED
  BY <1>1, <1>2, <1>3 DEF SettleNext

-----------------------------------------------------------------------------
(* Payout requests.                                                        *)

\* A reply keeps the request well formed.
LEMMA ReplyType ==
  ASSUME TypeOK, NEW d \in requests, NEW body \in Body, Reply(d, body)
  PROVE  /\ requests' \subseteq RequestState
         /\ \A e \in requests' \ requests : e.body = body /\ e.key = d.key
<1> DEFINE e == [d EXCEPT !.pc = "reply", !.body = body, !.todo = {"store", "tell"}]
<1>1. e \in RequestState /\ e.body = body /\ e.key = d.key
  BY DEF TypeOK, RequestState
<1>2. requests' = (requests \ {d}) \cup {e}
  BY DEF Reply, Continue
<1> QED
  BY <1>1, <1>2 DEF TypeOK

\* So does taking something off its list.
LEMMA AfterType ==
  ASSUME TypeOK, NEW d \in requests, NEW thing \in {"store", "tell"}, After(d, thing)
  PROVE  /\ requests' \subseteq RequestState
         /\ \A e \in requests' \ requests : e.body = d.body /\ e.key = d.key
<1> DEFINE e == [d EXCEPT !.todo = @ \ {thing}]
<1>1. e \in RequestState /\ e.body = d.body /\ e.key = d.key
  BY DEF TypeOK, RequestState
<1>2. requests' \subseteq requests \cup {e}
  BY DEF After, Done, Continue
<1> QED
  BY <1>1, <1>2 DEF TypeOK

\* A request that begins knows no answer yet.
LEMMA BeginPayoutStep ==
  ASSUME FinanceInv, NEW r \in Request, NEW k \in Key, NEW a \in Amount, BeginPayout(r, k, a)
  PROVE  FinanceInv'
<1> DEFINE d == [id |-> r, key |-> k, amount |-> a, pc |-> "lookup", body |-> "error",
                 todo |-> {}]
<1>1. d \in RequestState /\ d.body = "error"
  BY DEF RequestState, Body
<1>2. requests' = requests \cup {d} /\ UNCHANGED <<moneyVars, cache, told>>
  BY DEF BeginPayout
<1> QED
  BY <1>1, <1>2 DEF FinanceInv, TypeOK, Solvent, Truthful, Booked, moneyVars

\* recordPayout, told of or not.
LEMMA RecordPayoutStep ==
  ASSUME FinanceInv, NEW d \in requests, RecordPayout(d) \/ RecordPayoutAckLost(d)
  PROVE  FinanceInv'
<1> USE DEF FinanceInv
<1>1. d.amount \in Nat /\ d.key \in Key
  BY MoneyAssumption DEF TypeOK, RequestState
<1> DEFINE row == LedgerEntry("payout", d.key, d.amount)
<1>2. /\ balance >= d.amount /\ balance' = balance - d.amount
      /\ ledger' = ledger \cup {row}
      /\ UNCHANGED <<credits, settling, surplus, cache, told>>
  BY DEF RecordPayout, RecordPayoutAckLost, PayOut, DecrementIfSufficient, CreateTransaction
<1>3. row \in LedgerRow
  BY <1>1 DEF LedgerRow, LedgerEntry, RowKind
<1>4. Booked("payout", d.key)'
  <2>1. row \in ledger' /\ row.kind = "payout" /\ row.ref = d.key
    BY <1>2 DEF LedgerEntry
  <2> QED
    BY <2>1 DEF Booked
<1>5. PICK body \in Body : Reply(d, body)
  BY DEF RecordPayout, RecordPayoutAckLost, Body
<1>6. TypeOK'
  BY <1>1, <1>2, <1>3, <1>5, ReplyType DEF TypeOK
<1>7. Solvent'
  BY <1>1, <1>2 DEF Solvent, TypeOK
<1>8. Truthful'
  <2>1. \A k \in Key : Booked("payout", k) => Booked("payout", k)'
    BY <1>2, BookedStays
  <2>2. \A e \in requests' : "payout" = e.body => Booked("payout", e.key)'
    <3> SUFFICES ASSUME NEW e \in requests', "payout" = e.body
                 PROVE  Booked("payout", e.key)'
      OBVIOUS
    <3>1. CASE e \in requests
      BY <2>1, <3>1 DEF Truthful, TypeOK, RequestState
    <3>2. CASE e \notin requests
      BY <1>4, <1>5, <3>2, ReplyType
    <3> QED
      BY <3>1, <3>2
  <2> QED
    BY <1>2, <2>1, <2>2 DEF Truthful
<1> QED
  BY <1>6, <1>7, <1>8

\* A payout debits what there is, and what it answers is in the ledger.
LEMMA RequestStepPreserves ==
  ASSUME FinanceInv, NEW d \in requests, RequestStep(d)
  PROVE  FinanceInv'
<1> USE DEF FinanceInv
<1>1. d \in RequestState /\ d.key \in Key /\ d.body \in Body
  BY DEF TypeOK, RequestState
<1>2. CASE LookUp(d)
  <2> DEFINE e == [d EXCEPT !.pc = "work"]
  <2>1. e \in RequestState /\ e.body = d.body /\ e.key = d.key
    BY <1>1 DEF RequestState
  <2>2. CASE cache[d.key] = "none"
    <3>1. requests' = (requests \ {d}) \cup {e} /\ UNCHANGED <<moneyVars, cache, told>>
      BY <1>2, <2>2 DEF LookUp, Continue
    <3>2. TypeOK'
      BY <2>1, <3>1 DEF TypeOK, moneyVars
    <3> HIDE DEF e
    <3>3. Truthful'
      <4>1. \A k : Booked("payout", k)' <=> Booked("payout", k)
        BY <3>1 DEF Booked, moneyVars
      <4>2. \A x \in requests' : "payout" = x.body => Booked("payout", x.key)
        BY <2>1, <3>1 DEF Truthful
      <4> QED
        BY <3>1, <4>1, <4>2 DEF Truthful
    <3> QED
      BY <3>1, <3>2, <3>3 DEF Solvent, moneyVars
  <2>3. CASE cache[d.key] # "none"
    <3>1. /\ requests' = requests \ {d} /\ UNCHANGED <<moneyVars, cache>>
          /\ told' = [told EXCEPT ![d.key] = @ \cup {cache[d.key]}]
          /\ cache[d.key] \in Body
      BY <1>1, <1>2, <2>3 DEF LookUp, Done, TypeOK
    <3> QED
      BY <1>1, <3>1 DEF TypeOK, Solvent, Truthful, Booked, moneyVars
  <2> QED
    BY <2>2, <2>3
<1>3. CASE LookUpFails(d) \/ RequestLost(d)
  BY <1>3 DEF LookUpFails, RequestLost, Done, TypeOK, Solvent, Truthful, Booked, moneyVars
<1>4. CASE RecordPayout(d) \/ RecordPayoutAckLost(d)
  BY <1>4, RecordPayoutStep
<1>5. CASE PayoutFails(d)
  <2>1. Reply(d, "error") /\ UNCHANGED <<moneyVars, cache, told>>
    BY <1>5 DEF PayoutFails
  <2>2. /\ requests' \subseteq RequestState
        /\ \A e \in requests' \ requests : e.body = "error"
    BY <2>1, ReplyType DEF Body
  <2> QED
    BY <2>1, <2>2 DEF TypeOK, Solvent, Truthful, Booked, moneyVars
<1>6. CASE StoreReply(d) \/ StoreReplyFails(d) \/ TellReply(d)
  <2>1. /\ requests' \subseteq RequestState
        /\ \A e \in requests' \ requests : e.body = d.body /\ e.key = d.key
    BY <1>6, AfterType DEF StoreReply, StoreReplyFails, TellReply
  <2>2. /\ UNCHANGED moneyVars
        /\ cache' = cache \/ cache' = [cache EXCEPT ![d.key] = d.body]
        /\ told' = told \/ told' = [told EXCEPT ![d.key] = @ \cup {d.body}]
    BY <1>6 DEF StoreReply, StoreReplyFails, TellReply
  <2>3. TypeOK'
    BY <1>1, <2>1, <2>2 DEF TypeOK, moneyVars
  <2>4. \A k \in Key : Booked("payout", k)' <=> Booked("payout", k)
    BY <2>2 DEF Booked, moneyVars
  <2>5. Truthful'
    BY <1>1, <2>1, <2>2, <2>4 DEF Truthful, TypeOK, RequestState
  <2> QED
    BY <2>2, <2>3, <2>5 DEF Solvent, moneyVars
<1> QED
  BY <1>2, <1>3, <1>4, <1>5, <1>6 DEF RequestStep

\* Every step keeps the invariant.
LEMMA StepFinance == FinanceInv /\ [Next]_vars => FinanceInv'
<1> SUFFICES ASSUME FinanceInv, [Next]_vars PROVE FinanceInv'
  OBVIOUS
<1>1. CASE SettleNext
  BY <1>1, SettleStep
<1>2. ASSUME NEW r \in Request, NEW k \in Key, NEW a \in Amount, BeginPayout(r, k, a)
      PROVE  FinanceInv'
  BY <1>2, BeginPayoutStep
<1>3. ASSUME NEW d \in requests, RequestStep(d) PROVE FinanceInv'
  BY <1>3, RequestStepPreserves
<1>4. ASSUME NEW k \in Key, CacheExpires(k) PROVE FinanceInv'
  BY <1>4 DEF CacheExpires, FinanceInv, TypeOK, Solvent, Truthful, Booked, moneyVars
<1>5. CASE UNCHANGED vars
  BY <1>5 DEF vars, moneyVars, FinanceInv, TypeOK, Solvent, Truthful, Booked
<1> QED
  BY <1>1, <1>2, <1>3, <1>4, <1>5 DEF Next

\* The invariant behind the theorems about finance.
LEMMA FinanceInvariant == Spec => []FinanceInv
BY InitFinance, StepFinance, PTL DEF Spec

\* Every variable of the finance module keeps its type.
THEOREM FinanceTypeCorrect == Spec => []TypeOK
BY FinanceInvariant, PTL DEF FinanceInv

\* decrementIfSufficient keeps the balance from going negative, and no
\* settlement takes from it, because a commission never exceeds its subtotal.
THEOREM BalanceStaysSolvent == Spec => []BalanceNeverNegative
<1>1. FinanceInv => BalanceNeverNegative
  BY DEF FinanceInv, Solvent, BalanceNeverNegative
<1> QED
  BY <1>1, FinanceInvariant, PTL

\* The handler answers with a payout after its commit, and what Redis and the
\* clients have is a copy of such an answer.
THEOREM AnswersAreTrue == Spec => []AnsweredPayoutIsRecorded
<1>1. FinanceInv => AnsweredPayoutIsRecorded
  BY DEF FinanceInv, Truthful, AnsweredPayoutIsRecorded
<1> QED
  BY <1>1, FinanceInvariant, PTL

-----------------------------------------------------------------------------
(* Refinement of the abstract account.                                     *)

\* A committed settlement is a credit of the abstract account, the first of
\* its order or one more.
LEMMA CommitSettleIsCredit ==
  ASSUME FinanceInv, NEW s \in settling, CommitSettle(s)
  PROVE  /\ s.order \in Order
         /\ RestaurantAccount!Credit(s.order) \/ RestaurantAccount!CreditAgain(s.order)
<1> DEFINE credited == { o \in Order : credits[o] > 0 }
           paid == { k \in Key : Booked("payout", k) }
           o == s.order
<1>1. /\ o \in Order /\ s.commission \in Nat /\ s.commission <= Subtotal[o]
      /\ Subtotal[o] \in Nat /\ credits[o] \in Nat /\ balance \in Int /\ surplus \in Nat
  BY MoneyAssumption DEF FinanceInv, TypeOK, Solvent
<1>2. balance' = balance + (Subtotal[o] - s.commission) /\ surplus' = surplus + Unexplained(s)
  BY DEF CommitSettle, UpsertIncrement
<1>3. balance' - balance = Subtotal[o] - s.commission /\ balance' - balance \in 0 .. Subtotal[o]
  BY <1>1, <1>2
<1>4. credited' = credited \cup {o}
  BY <1>1 DEF CommitSettle, FinanceInv, TypeOK
<1>5. paid' = paid
  <2>1. \A row \in SettlementRows(o, s.commission) : row.kind # "payout"
    BY DEF SettlementRows, LedgerEntry
  <2>2. \A k : Booked("payout", k)' <=> Booked("payout", k)
    BY <2>1 DEF CommitSettle, CreateTransactionsIdempotent, Booked
  <2> QED
    BY <2>2
<1>6. CASE credits[o] = 0
  <2>1. surplus' = surplus
    BY <1>1, <1>2, <1>6 DEF Unexplained
  <2>2. o \notin credited
    BY <1>6
  <2> QED
    BY <1>1, <1>3, <1>4, <1>5, <2>1, <2>2 DEF RestaurantAccount!Credit
<1>7. CASE credits[o] # 0
  <2>1. Unexplained(s) \in (Subtotal[o] - s.commission) .. Subtotal[o]
    BY <1>1, <1>7, UnexplainedType
  <2>2. surplus' - surplus \in (balance' - balance) .. Subtotal[o]
    BY <1>1, <1>2, <1>3, <2>1
  <2>3. o \in credited /\ credited' = credited
    BY <1>1, <1>4, <1>7
  <2> QED
    BY <1>1, <1>3, <1>5, <2>2, <2>3 DEF RestaurantAccount!CreditAgain
<1> QED
  BY <1>1, <1>6, <1>7

\* A recorded payout is a payment of the abstract account.
LEMMA RecordPayoutIsPay ==
  ASSUME FinanceInv, NEW d \in requests, RecordPayout(d) \/ RecordPayoutAckLost(d)
  PROVE  RestaurantAccount!Pay(d.key) /\ d.key \in Key
<1> DEFINE credited == { o \in Order : credits[o] > 0 }
           paid == { k \in Key : Booked("payout", k) }
           row == LedgerEntry("payout", d.key, d.amount)
<1>1. d.key \in Key /\ d.amount \in Nat \ {0} /\ balance \in Int
  BY MoneyAssumption DEF FinanceInv, TypeOK, RequestState
<1>2. /\ balance >= d.amount /\ balance' = balance - d.amount /\ UNCHANGED <<credits, surplus>>
      /\ ledger' = ledger \cup {row} /\ ~Booked("payout", d.key)
  BY DEF RecordPayout, RecordPayoutAckLost, PayOut, DecrementIfSufficient, CreateTransaction
<1>3. balance - balance' \in 1 .. balance
  BY <1>1, <1>2
<1>4. row.kind = "payout" /\ row.ref = d.key
  BY DEF LedgerEntry
<1>5. \A k : Booked("payout", k)' <=> Booked("payout", k) \/ k = d.key
  BY <1>2, <1>4 DEF Booked
<1>6. d.key \notin paid /\ paid' = paid \cup {d.key}
  BY <1>1, <1>2, <1>5
<1> QED
  BY <1>1, <1>2, <1>3, <1>6 DEF RestaurantAccount!Pay

\* The money of a restaurant is the abstract account: settlements are its
\* credits, recorded payouts its payments, and retries, cached answers and
\* failures are stutters.  A settlement that comes again is a credit too, but one
\* the account keeps count of.
THEOREM FinanceIsAnAccount == Spec => ImplementsAccount
<1> DEFINE credited == { o \in Order : credits[o] > 0 }
           paid == { k \in Key : Booked("payout", k) }
           abstract == <<balance, surplus, credited, paid>>
<1>1. Init => RestaurantAccount!Init
  BY DEF Init, RestaurantAccount!Init, Booked, LedgerEntry
<1>3. FinanceInv /\ [Next]_vars => [RestaurantAccount!Next]_abstract
  <2> SUFFICES ASSUME FinanceInv, [Next]_vars
               PROVE  [RestaurantAccount!Next]_abstract
    OBVIOUS
  <2>1. ASSUME NEW s \in settling, CommitSettle(s) PROVE RestaurantAccount!Next
    BY <2>1, CommitSettleIsCredit DEF RestaurantAccount!Next
  <2>2. ASSUME NEW d \in requests, RecordPayout(d) \/ RecordPayoutAckLost(d)
        PROVE  RestaurantAccount!Next
    BY <2>2, RecordPayoutIsPay DEF RestaurantAccount!Next
  <2>3. CASE UNCHANGED <<balance, ledger, credits, surplus>>
    BY <2>3 DEF Booked
  <2> QED
    BY <2>1, <2>2, <2>3
       DEF Next, vars, moneyVars, SettleNext, BeginSettle, SettleFails, BeginPayout, RequestStep,
           LookUp, LookUpFails, PayoutFails, StoreReply, StoreReplyFails, TellReply,
           RequestLost, CacheExpires
<1> QED
  BY <1>1, <1>3, FinanceInvariant, PTL
     DEF Spec, ImplementsAccount, RestaurantAccount!Spec

-----------------------------------------------------------------------------
(* Sums of rows.  MapThenSumSet takes the rows in an order of its own; an   *)
(* induction over the subsets of a finite set, by way of a smallest         *)
(* counterexample, shows that any order gives the same sum.                 *)

\* The sum of a set of rows, by the definition of MapThenSumSet.
SumIn(U) ==
  CHOOSE sum : sum = [T \in SUBSET U |->
                        IF T = {} THEN 0
                        ELSE Signed(CHOOSE row \in T : TRUE)
                             + sum[T \ {CHOOSE row \in T : TRUE}]]

\* A sum that does not depend on the order in which the rows are added.
Additive(g, U) ==
  /\ g \in [SUBSET U -> Int]
  /\ g[{}] = 0
  /\ \A T \in SUBSET U : \A row \in T : g[T] = Signed(row) + g[T \ {row}]

\* A set of finite sets that is not empty has a member no other is a part of.
LEMMA SmallestExists ==
  ASSUME NEW U, IsFiniteSet(U), NEW S, S \subseteq SUBSET U, S # {}
  PROVE  \E T \in S : \A V \in SUBSET T : V # T => V \notin S
<1>1. S \subseteq FiniteSubsetsOf(U)
  BY FS_Subset DEF FiniteSubsetsOf
<1>2. PICK T \in S : \A V \in S : ~ (<<V, T>> \in StrictSubsetOrdering(U))
  <2>1. IsWellFoundedOn(StrictSubsetOrdering(U), FiniteSubsetsOf(U))
    BY FS_StrictSubsetOrderingWellFounded
  <2> QED
    BY <1>1, <2>1, WFMin
<1> QED
  BY <1>2 DEF StrictSubsetOrdering

\* One row more: the sum with it is the sum without it and the row.
LEMMA AdditiveExtends ==
  ASSUME NEW U, \A row \in U : Signed(row) \in Int, NEW x \in U, NEW g, Additive(g, U \ {x})
  PROVE  \E h : Additive(h, U)
<1> DEFINE h == [T \in SUBSET U |-> IF x \in T THEN Signed(x) + g[T \ {x}] ELSE g[T]]
<1>1. \A T \in SUBSET U : T \ {x} \in SUBSET (U \ {x}) /\ (x \notin T => T \in SUBSET (U \ {x}))
  OBVIOUS
<1>2. \A T \in SUBSET (U \ {x}) : g[T] \in Int
  BY DEF Additive
<1>3. h \in [SUBSET U -> Int]
  BY <1>1, <1>2
<1>4. h[{}] = 0
  BY DEF Additive
<1>5. ASSUME NEW T \in SUBSET U, NEW row \in T
      PROVE  h[T] = Signed(row) + h[T \ {row}]
  <2>1. CASE row = x
    BY <2>1
  <2>2. CASE row # x /\ x \in T
    <3>1. T \ {x} \in SUBSET (U \ {x}) /\ row \in T \ {x}
      BY <2>2
    <3>2. g[T \ {x}] = Signed(row) + g[(T \ {x}) \ {row}]
      BY <3>1 DEF Additive
    <3>3. (T \ {x}) \ {row} = (T \ {row}) \ {x}
      OBVIOUS
    <3>4. h[T] = Signed(x) + g[T \ {x}] /\ h[T \ {row}] = Signed(x) + g[(T \ {row}) \ {x}]
      BY <2>2
    <3>5. g[(T \ {row}) \ {x}] \in Int
      BY <1>1, <1>2
    <3>6. Signed(row) \in Int /\ Signed(x) \in Int
      OBVIOUS
    <3>7. \A a, b, c \in Int : a + (b + c) = b + (a + c)
      OBVIOUS
    <3>8. Signed(x) + (Signed(row) + g[(T \ {row}) \ {x}])
          = Signed(row) + (Signed(x) + g[(T \ {row}) \ {x}])
      BY <3>5, <3>6, <3>7
    <3> HIDE DEF h
    <3>9. h[T] = Signed(x) + (Signed(row) + g[(T \ {row}) \ {x}])
      BY <3>2, <3>3, <3>4, Zenon
    <3> QED
      BY <3>4, <3>8, <3>9, Zenon
  <2>3. CASE x \notin T
    <3>1. T \in SUBSET (U \ {x})
      BY <2>3
    <3>2. g[T] = Signed(row) + g[T \ {row}]
      BY <3>1 DEF Additive
    <3>3. h[T] = g[T] /\ h[T \ {row}] = g[T \ {row}]
      BY <2>3
    <3> HIDE DEF h
    <3> QED
      BY <3>2, <3>3
  <2> QED
    BY <2>1, <2>2, <2>3
<1>6. Additive(h, U)
  <2> HIDE DEF h
  <2> QED
    BY <1>3, <1>4, <1>5 DEF Additive
<1> QED
  BY <1>6

\* Every finite set of rows has a sum.
LEMMA AdditiveExists ==
  ASSUME NEW U, IsFiniteSet(U), \A row \in U : Signed(row) \in Int
  PROVE  \E g : Additive(g, U)
<1> DEFINE Bad == { T \in SUBSET U : ~ \E g : Additive(g, T) }
<1> SUFFICES ASSUME Bad # {} PROVE FALSE
  OBVIOUS
<1>1. PICK T \in Bad : \A V \in SUBSET T : V # T => V \notin Bad
  <2> HIDE DEF Bad
  <2>1. Bad \subseteq SUBSET U
    BY DEF Bad
  <2> QED
    BY <2>1, SmallestExists
<1>2. CASE T = {}
  <2> DEFINE g == [V \in SUBSET {} |-> 0]
  <2>1. Additive(g, {})
    BY DEF Additive
  <2> QED
    BY <1>2, <2>1
<1>3. CASE T # {}
  <2>1. PICK x \in T : TRUE
    BY <1>3
  <2>2. T \ {x} \in SUBSET T /\ T \ {x} # T /\ T \ {x} \in SUBSET U
    BY <2>1
  <2>3. \E g : Additive(g, T \ {x})
    BY <1>1, <2>2
  <2> QED
    BY <2>1, <2>3, AdditiveExtends
<1> QED
  BY <1>2, <1>3

\* MapThenSumSet adds the rows up.
LEMMA SumIsAdditive ==
  ASSUME NEW U, IsFiniteSet(U), NEW g, Additive(g, U)
  PROVE  MapThenSumSet(Signed, U) = g[U]
<1> DEFINE First(T) == CHOOSE row \in T : TRUE
           sum == SumIn(U)
           Rest(f) == [T \in SUBSET U |-> IF T = {} THEN 0
                                          ELSE Signed(First(T)) + f[T \ {First(T)}]]
<1>1. \A T \in SUBSET U : T # {} => First(T) \in T
  OBVIOUS
<1>2. g = Rest(g)
  <2>1. \A T \in SUBSET U : g[T] = IF T = {} THEN 0 ELSE Signed(First(T)) + g[T \ {First(T)}]
    BY <1>1 DEF Additive
  <2> QED
    BY <2>1 DEF Additive
<1>3. sum = Rest(sum)
  BY <1>2 DEF SumIn
<1> DEFINE Bad == { T \in SUBSET U : sum[T] # g[T] }
<1>4. Bad = {}
  <2> SUFFICES ASSUME Bad # {} PROVE FALSE
    OBVIOUS
  <2>1. PICK T \in Bad : \A V \in SUBSET T : V # T => V \notin Bad
    <3> HIDE DEF Bad
    <3>1. Bad \subseteq SUBSET U
      BY DEF Bad
    <3> QED
      BY <3>1, SmallestExists
  <2>2. sum[T] = IF T = {} THEN 0 ELSE Signed(First(T)) + sum[T \ {First(T)}]
    <3> HIDE DEF sum, First
    <3> QED
      BY <1>3
  <2>3. CASE T = {}
    <3> HIDE DEF sum
    <3> QED
      BY <2>2, <2>3 DEF Additive
  <2>4. CASE T # {}
    <3>1. First(T) \in T
      BY <1>1, <2>4
    <3> HIDE DEF First, sum
    <3>2. T \ {First(T)} \in SUBSET T /\ T \ {First(T)} # T
      BY <3>1
    <3>3. sum[T \ {First(T)}] = g[T \ {First(T)}]
      BY <2>1, <3>2
    <3>4. g[T] = Signed(First(T)) + g[T \ {First(T)}]
      BY <3>1 DEF Additive
    <3> QED
      BY <2>2, <2>4, <3>3, <3>4
  <2> QED
    BY <2>3, <2>4
<1>5. MapThenSumSet(Signed, U) = SumIn(U)[U]
  BY DEF MapThenSumSet, MapThenFoldSet, SumIn
<1>6. U \in SUBSET U
  OBVIOUS
<1> HIDE DEF sum
<1> QED
  BY <1>4, <1>5, <1>6 DEF sum

\* The sum of nothing.
LEMMA SumOfNothing == MapThenSumSet(Signed, {}) = 0
<1>1. IsFiniteSet({}) /\ \A row \in {} : Signed(row) \in Int
  BY FS_EmptySet
<1>2. PICK g : Additive(g, {})
  BY <1>1, AdditiveExists
<1> QED
  BY <1>1, <1>2, SumIsAdditive DEF Additive

\* A sum is a number.
LEMMA SumIsInt ==
  ASSUME NEW U, IsFiniteSet(U), \A row \in U : Signed(row) \in Int
  PROVE  MapThenSumSet(Signed, U) \in Int
<1>1. PICK g : Additive(g, U)
  BY AdditiveExists
<1>2. MapThenSumSet(Signed, U) = g[U] /\ U \in SUBSET U
  BY <1>1, SumIsAdditive
<1> QED
  BY <1>1, <1>2 DEF Additive

\* The sum of a set with one row more.
LEMMA SumOfOneMore ==
  ASSUME NEW U, IsFiniteSet(U), NEW x, x \notin U, Signed(x) \in Int,
         \A row \in U : Signed(row) \in Int
  PROVE  /\ MapThenSumSet(Signed, U) \in Int
         /\ MapThenSumSet(Signed, U \cup {x}) = MapThenSumSet(Signed, U) + Signed(x)
<1> DEFINE W == U \cup {x}
<1>1. IsFiniteSet(W)
  BY FS_AddElement
<1>2. PICK g : Additive(g, W)
  BY <1>1, AdditiveExists
<1> DEFINE h == [T \in SUBSET U |-> g[T]]
<1>3. SUBSET U \subseteq SUBSET W /\ {} \in SUBSET U
  OBVIOUS
<1>4. Additive(h, U)
  <2>1. h \in [SUBSET U -> Int] /\ h[{}] = 0
    BY <1>2, <1>3 DEF Additive
  <2>2. ASSUME NEW T \in SUBSET U, NEW row \in T PROVE h[T] = Signed(row) + h[T \ {row}]
    BY <1>2, <1>3 DEF Additive
  <2> HIDE DEF h
  <2> QED
    BY <2>1, <2>2 DEF Additive
<1>5. MapThenSumSet(Signed, U) = g[U] /\ MapThenSumSet(Signed, W) = g[W]
  <2>1. MapThenSumSet(Signed, U) = h[U]
    BY <1>4, SumIsAdditive
  <2>2. MapThenSumSet(Signed, W) = g[W]
    BY <1>1, <1>2, SumIsAdditive
  <2> QED
    BY <2>1, <2>2
<1>6. g[W] = Signed(x) + g[U] /\ g[U] \in Int
  <2>1. W \in SUBSET W /\ x \in W /\ W \ {x} = U /\ U \in SUBSET W
    OBVIOUS
  <2> QED
    BY <1>2, <2>1 DEF Additive
<1> HIDE DEF W
<1>7. MapThenSumSet(Signed, W) = MapThenSumSet(Signed, U) + Signed(x)
  BY <1>5, <1>6
<1> QED
  BY <1>5, <1>6, <1>7 DEF W

-----------------------------------------------------------------------------
(* The balance and the ledger.                                             *)

\* The rows that make up the balance.
NetRows == { row \in ledger : row.kind = "payout" \/ credits[row.ref] > 0 }

\* The rows a settlement may write, one by one.
Cod(o) == LedgerEntry("cod-collect", o, IF o \in Online THEN 0 ELSE Total(o))
CommissionRow(s) == LedgerEntry("commission", s.order, s.commission)
ServiceRow(o) == LedgerEntry("service-fee", o, ServiceFee)
DeliveryRow(o) == LedgerEntry("delivery-fee", o, DeliveryFee[o])
Written(row) == { r \in {row} : r.amount > 0 }
\* Those every settlement of an order writes alike.
FixedRows(o) == Written(Cod(o)) \cup Written(ServiceRow(o)) \cup Written(DeliveryRow(o))

\* The rows of an order in the ledger: its charge from the start when it was
\* paid online, those of its settlement once it has been credited.
OrderRows ==
  /\ \A o \in Order : credits[o] > 0 => FixedRows(o) \subseteq ledger
  /\ \A o \in Online : LedgerEntry("charge", o, Total(o)) \in ledger
  /\ \A row \in ledger :
       /\ row.kind = "charge" =>
            row.ref \in Online /\ row = LedgerEntry("charge", row.ref, Total(row.ref))
       /\ row.kind \notin {"charge", "payout"} => row.ref \in Order /\ credits[row.ref] > 0

Books == IsFiniteSet(NetRows) /\ BalanceIsExplained /\ OrderRows

\* What a row does to the sum is a number.
LEMMA SignedIsInt ==
  ASSUME NEW row, row.amount \in Nat
  PROVE  Signed(row) \in Int /\ (row.amount = 0 => Signed(row) = 0)
BY DEF Signed

\* A row that is written unless it is of nothing adds what it is of.
LEMMA SumOfWritten ==
  ASSUME NEW U, IsFiniteSet(U), \A row \in U : row.amount \in Nat,
         NEW x, x \notin U, x.amount \in Nat
  PROVE  LET W == U \cup { row \in {x} : row.amount > 0 }
         IN  /\ IsFiniteSet(W)
             /\ \A row \in W : row.amount \in Nat
             /\ MapThenSumSet(Signed, U) \in Int
             /\ MapThenSumSet(Signed, W) = MapThenSumSet(Signed, U) + Signed(x)
<1>1. Signed(x) \in Int /\ \A row \in U : Signed(row) \in Int
  BY SignedIsInt
<1>2. /\ MapThenSumSet(Signed, U) \in Int
      /\ MapThenSumSet(Signed, U \cup {x}) = MapThenSumSet(Signed, U) + Signed(x)
  BY <1>1, SumOfOneMore
<1>3. CASE x.amount > 0
  <2>1. { row \in {x} : row.amount > 0 } = {x}
    BY <1>3
  <2>2. IsFiniteSet(U \cup {x})
    BY FS_AddElement
  <2> QED
    BY <1>2, <2>1, <2>2
<1>4. CASE x.amount = 0
  <2>1. { row \in {x} : row.amount > 0 } = {} /\ Signed(x) = 0
    BY <1>4, SignedIsInt
  <2>2. U \cup {} = U
    OBVIOUS
  <2>3. MapThenSumSet(Signed, U) = MapThenSumSet(Signed, U) + Signed(x)
    BY <1>2, <2>1
  <2> QED
    BY <1>2, <2>1, <2>2, <2>3
<1>5. x.amount > 0 \/ x.amount = 0
  OBVIOUS
<1> QED
  BY <1>3, <1>4, <1>5, Zenon

\* At first no order has been credited and nothing has been paid out.
LEMMA InitBooks == Init => Books
<1> SUFFICES ASSUME Init PROVE Books
  OBVIOUS
<1>1. /\ ledger = { LedgerEntry("charge", o, Total(o)) : o \in Online }
      /\ credits = [o \in Order |-> 0] /\ balance = 0 /\ surplus = 0
  BY DEF Init
<1>2. NetRows = {}
  BY <1>1, OrdersAssumption DEF NetRows, LedgerEntry
<1>3. BalanceIsExplained
  BY <1>1, <1>2, SumOfNothing DEF BalanceIsExplained, LedgerNet, NetRows
<1>4. OrderRows
  BY <1>1 DEF OrderRows, LedgerEntry
<1> QED
  BY <1>2, <1>3, <1>4, FS_EmptySet DEF Books

\* The charge of an order, which counts once the order has been credited.
ChargeRow(o) == { r \in {LedgerEntry("charge", o, Total(o))} : o \in Online }

\* The first settlement adds its rows, and the charge of its order, to those that count.
LEMMA CommitSettleNetRows ==
  ASSUME FinanceInv, Books, NEW s \in settling, CommitSettle(s), credits[s.order] = 0
  PROVE  LET o == s.order
         IN  /\ NetRows' = NetRows \cup ChargeRow(o) \cup Written(Cod(o))
                           \cup Written(CommissionRow(s)) \cup Written(ServiceRow(o))
                           \cup Written(DeliveryRow(o))
             /\ \A row \in NetRows : row.kind # "payout" => row.ref # o
             /\ OrderRows'
<1> DEFINE o == s.order
           rows == SettlementRows(o, s.commission)
<1>1. /\ o \in Order /\ credits[o] = 0 /\ credits \in [Order -> Nat]
      /\ ledger' = ledger \cup { row \in rows : ~Booked(row.kind, row.ref) }
      /\ credits' = [credits EXCEPT ![o] = @ + 1]
  BY DEF FinanceInv, TypeOK, CommitSettle, CreateTransactionsIdempotent
<1>2. rows = Written(Cod(o)) \cup Written(CommissionRow(s)) \cup Written(ServiceRow(o))
             \cup Written(DeliveryRow(o))
  BY DEF SettlementRows, Written, Cod, CommissionRow, ServiceRow, DeliveryRow
<1>3. \A row \in rows : row.ref = o /\ row.kind \notin {"charge", "payout"}
  BY DEF SettlementRows, LedgerEntry
<1>4. \A row \in ledger : row.ref = o => row.kind \in {"charge", "payout"}
  BY <1>1 DEF Books, OrderRows
<1>5. \A row \in rows : ~Booked(row.kind, row.ref)
  BY <1>3, <1>4 DEF Booked
<1>6. ledger' = ledger \cup rows
  BY <1>1, <1>5
<1>7. credits'[o] > 0 /\ \A ref \in Order \ {o} : credits'[ref] = credits[ref]
  BY <1>1
<1>8. \A row \in ledger : row.kind # "payout" => row.ref \in Order
  BY OrdersAssumption DEF Books, OrderRows
<1>9. \A row \in NetRows : row.kind # "payout" => row.ref # o
  BY <1>1 DEF NetRows
<1>10. \A row : row \in ChargeRow(o) <=> row \in ledger /\ row.kind = "charge" /\ row.ref = o
  BY DEF ChargeRow, Books, OrderRows, LedgerEntry
<1>11. NetRows' = NetRows \cup ChargeRow(o) \cup rows
  <2>1. ASSUME NEW row \in NetRows'
        PROVE  row \in NetRows \cup ChargeRow(o) \cup rows
    BY <2>1, <1>4, <1>6, <1>7, <1>8, <1>10 DEF NetRows
  <2>2. ASSUME NEW row \in NetRows \cup ChargeRow(o) \cup rows
        PROVE  row \in NetRows'
    <3> HIDE DEF rows
    <3>1. row \in ledger'
      BY <2>2, <1>6, <1>10 DEF NetRows
    <3>2. row.kind = "payout" \/ credits'[row.ref] > 0
      BY <2>2, <1>3, <1>7, <1>8, <1>10 DEF NetRows
    <3> QED
      BY <3>1, <3>2 DEF NetRows
  <2> QED
    BY <2>1, <2>2
<1>12. OrderRows'
  <2>1. \A x \in Online : LedgerEntry("charge", x, Total(x)) \in ledger'
    BY <1>6 DEF Books, OrderRows
  <2>2. ASSUME NEW row \in ledger'
        PROVE  /\ row.kind = "charge" =>
                    row.ref \in Online /\ row = LedgerEntry("charge", row.ref, Total(row.ref))
               /\ row.kind \notin {"charge", "payout"} => row.ref \in Order /\ credits'[row.ref] > 0
    <3>1. CASE row \in rows
      BY <3>1, <1>1, <1>3, <1>7
    <3>2. CASE row \in ledger
      BY <3>2, <1>1, <1>7 DEF Books, OrderRows
    <3> QED
      BY <1>6, <3>1, <3>2
  <2>3. ASSUME NEW x \in Order, credits'[x] > 0 PROVE FixedRows(x) \subseteq ledger'
    <3>1. CASE x = o
      BY <3>1, <1>2, <1>6 DEF FixedRows
    <3>2. CASE x # o
      BY <3>2, <2>3, <1>6, <1>7 DEF Books, OrderRows
    <3> QED
      BY <3>1, <3>2
  <2>4. \A x : FixedRows(x)' = FixedRows(x)
    BY DEF FixedRows, Written, Cod, ServiceRow, DeliveryRow, LedgerEntry, Total
  <2> QED
    BY <2>1, <2>2, <2>3, <2>4 DEF OrderRows, LedgerEntry, Total
<1> QED
  BY <1>2, <1>9, <1>11, <1>12

\* The first settlement credits the net of the rows that count from now on: what
\* the customer has paid, less the commission and the two fees.
LEMMA FirstSettleBooks ==
  ASSUME FinanceInv, Books, NEW s \in settling, CommitSettle(s), credits[s.order] = 0
  PROVE  Books'
<1> DEFINE o == s.order
           W1 == NetRows \cup ChargeRow(o)
           W2 == W1 \cup Written(Cod(o))
           W3 == W2 \cup Written(CommissionRow(s))
           W4 == W3 \cup Written(ServiceRow(o))
           W5 == W4 \cup Written(DeliveryRow(o))
           Net(U) == MapThenSumSet(Signed, U)
           OfOthers(row) == row.kind = "payout" \/ row.ref # o
           charge == LedgerEntry("charge", o, Total(o))
           ForCash == IF o \in Online THEN 0 ELSE Total(o)
           ForCharge == IF o \in Online THEN Total(o) ELSE 0
<1>1. /\ o \in Order /\ Subtotal[o] \in Nat /\ DeliveryFee[o] \in Nat /\ ServiceFee \in Nat
      /\ Total(o) = Subtotal[o] + DeliveryFee[o] + ServiceFee /\ Total(o) \in Nat
      /\ s.commission \in Nat /\ balance \in Int /\ ledger \subseteq LedgerRow
      /\ surplus \in Nat /\ surplus' = surplus
  <2>1. surplus \in Nat /\ surplus' = surplus + Unexplained(s) /\ Unexplained(s) = 0
    BY DEF FinanceInv, TypeOK, CommitSettle, Unexplained
  <2> QED
    BY <2>1, MoneyAssumption DEF FinanceInv, TypeOK, Total
<1>2. NetRows' = W5 /\ (\A row \in NetRows : OfOthers(row)) /\ OrderRows'
  BY CommitSettleNetRows
<1>3. /\ IsFiniteSet(NetRows) /\ balance = Net(NetRows) + surplus
      /\ \A row \in NetRows : row.amount \in Nat
  BY <1>1 DEF Books, BalanceIsExplained, LedgerNet, NetRows, LedgerRow
<1>4. /\ IsFiniteSet(W1) /\ \A row \in W1 : row.amount \in Nat
      /\ Net(NetRows) \in Int /\ Net(W1) = Net(NetRows) + ForCharge
      /\ \A row \in W1 : OfOthers(row) \/ row.kind = "charge"
  <2>1. charge \notin NetRows /\ charge.amount \in Nat /\ charge.kind = "charge"
        /\ Signed(charge) = Total(o) /\ charge.amount = Total(o)
    BY <1>1, <1>2 DEF LedgerEntry, Signed
  <2>2. /\ Net(NetRows) \in Int
        /\ Net(NetRows \cup {charge}) = Net(NetRows) + Total(o)
    <3>1. Signed(charge) \in Int /\ \A row \in NetRows : Signed(row) \in Int
      BY <1>3, <2>1, SignedIsInt
    <3> HIDE DEF charge
    <3> QED
      BY <1>3, <2>1, <3>1, SumOfOneMore
  <2>3. CASE o \in Online
    <3>1. W1 = NetRows \cup {charge}
      BY <2>3 DEF ChargeRow
    <3>2. IsFiniteSet(NetRows \cup {charge})
      BY <1>3, FS_AddElement
    <3> HIDE DEF charge
    <3> QED
      BY <1>2, <1>3, <2>1, <2>2, <2>3, <3>1, <3>2
  <2>4. CASE o \notin Online
    <3>1. W1 = NetRows
      BY <2>4 DEF ChargeRow
    <3>2. Net(NetRows) = Net(NetRows) + 0
      BY <2>2
    <3> QED
      BY <1>2, <1>3, <2>2, <2>4, <3>1, <3>2
  <2> QED
    BY <2>3, <2>4
<1> HIDE DEF W1
<1>5. /\ IsFiniteSet(W2) /\ \A row \in W2 : row.amount \in Nat
      /\ Net(W1) \in Int /\ Net(W2) = Net(W1) + ForCash
      /\ \A row \in W2 : OfOthers(row) \/ row.kind \in {"charge", "cod-collect"}
  <2>1. /\ Cod(o).kind = "cod-collect" /\ Cod(o).ref = o /\ Cod(o).amount = ForCash
        /\ ForCash \in Nat /\ Signed(Cod(o)) = ForCash
    BY <1>1 DEF Cod, LedgerEntry, Signed
  <2>2. Cod(o) \notin W1
    BY <1>4, <2>1
  <2>3. \A row \in Written(Cod(o)) : row.kind = "cod-collect"
    BY <2>1 DEF Written
  <2> QED
    BY <1>4, <2>1, <2>2, <2>3, SumOfWritten DEF Written
<1> HIDE DEF W2
<1>6. /\ IsFiniteSet(W3) /\ \A row \in W3 : row.amount \in Nat
      /\ Net(W2) \in Int /\ Net(W3) = Net(W2) - s.commission
      /\ \A row \in W3 : OfOthers(row) \/ row.kind \in {"charge", "cod-collect", "commission"}
  <2>1. /\ CommissionRow(s).kind = "commission" /\ CommissionRow(s).ref = o
        /\ CommissionRow(s).amount = s.commission
        /\ Signed(CommissionRow(s)) = -s.commission
    BY <1>1 DEF CommissionRow, LedgerEntry, Signed
  <2>2. CommissionRow(s) \notin W2
    BY <1>5, <2>1
  <2>3. \A row \in Written(CommissionRow(s)) : row.kind = "commission"
    BY <2>1 DEF Written
  <2>4. /\ IsFiniteSet(W3) /\ \A row \in W3 : row.amount \in Nat
        /\ Net(W2) \in Int /\ Net(W3) = Net(W2) + (-s.commission)
    BY <1>1, <1>5, <2>1, <2>2, SumOfWritten DEF Written
  <2>5. Net(W2) + (-s.commission) = Net(W2) - s.commission
    BY <1>1, <2>4
  <2> QED
    BY <1>5, <2>3, <2>4, <2>5
<1> HIDE DEF W3
<1>7. /\ IsFiniteSet(W4) /\ \A row \in W4 : row.amount \in Nat
      /\ Net(W3) \in Int /\ Net(W4) = Net(W3) - ServiceFee
      /\ \A row \in W4 : OfOthers(row) \/ row.kind # "delivery-fee"
  <2>1. /\ ServiceRow(o).kind = "service-fee" /\ ServiceRow(o).ref = o
        /\ ServiceRow(o).amount = ServiceFee /\ Signed(ServiceRow(o)) = -ServiceFee
    BY <1>1 DEF ServiceRow, LedgerEntry, Signed
  <2>2. ServiceRow(o) \notin W3
    BY <1>6, <2>1
  <2>3. \A row \in Written(ServiceRow(o)) : row.kind = "service-fee"
    BY <2>1 DEF Written
  <2>4. /\ IsFiniteSet(W4) /\ \A row \in W4 : row.amount \in Nat
        /\ Net(W3) \in Int /\ Net(W4) = Net(W3) + (-ServiceFee)
    BY <1>1, <1>6, <2>1, <2>2, SumOfWritten DEF Written
  <2>5. Net(W3) + (-ServiceFee) = Net(W3) - ServiceFee
    BY <1>1, <2>4
  <2> QED
    BY <1>6, <2>3, <2>4, <2>5
<1> HIDE DEF W4
<1>8. /\ IsFiniteSet(W5)
      /\ Net(W4) \in Int /\ Net(W5) = Net(W4) - DeliveryFee[o]
  <2>1. /\ DeliveryRow(o).kind = "delivery-fee" /\ DeliveryRow(o).ref = o
        /\ DeliveryRow(o).amount = DeliveryFee[o]
        /\ Signed(DeliveryRow(o)) = -DeliveryFee[o]
    BY <1>1 DEF DeliveryRow, LedgerEntry, Signed
  <2>2. DeliveryRow(o) \notin W4
    BY <1>7, <2>1
  <2>4. IsFiniteSet(W5) /\ Net(W4) \in Int /\ Net(W5) = Net(W4) + (-DeliveryFee[o])
    BY <1>1, <1>7, <2>1, <2>2, SumOfWritten DEF Written
  <2>5. Net(W4) + (-DeliveryFee[o]) = Net(W4) - DeliveryFee[o]
    BY <1>1, <2>4
  <2> QED
    BY <2>4, <2>5
<1>9. ForCharge + ForCash = Subtotal[o] + DeliveryFee[o] + ServiceFee
  BY <1>1
<1>10. balance' = balance + (Subtotal[o] - s.commission)
  BY DEF CommitSettle, UpsertIncrement
<1>11. balance' = Net(W5) + surplus
  <2> HIDE DEF W5, Net
  <2>1. /\ Net(W1) = Net(NetRows) + ForCharge /\ Net(W2) = Net(W1) + ForCash
        /\ Net(W3) = Net(W2) - s.commission /\ Net(W4) = Net(W3) - ServiceFee
        /\ Net(W5) = Net(W4) - DeliveryFee[o] /\ Net(NetRows) + surplus = balance
        /\ Net(NetRows) \in Int
    BY <1>3, <1>4, <1>5, <1>6, <1>7, <1>8
  <2>2. /\ ForCharge \in Int /\ ForCash \in Int /\ s.commission \in Int /\ ServiceFee \in Int
        /\ DeliveryFee[o] \in Int /\ Subtotal[o] \in Int /\ balance \in Int /\ surplus \in Int
    BY <1>1
  <2> HIDE DEF ForCharge, ForCash, o
  <2> QED
    BY <1>9, <1>10, <2>1, <2>2
<1> HIDE DEF W5
<1>12. IsFiniteSet(NetRows')
  BY <1>2, <1>8, Zenon
<1>13. balance' = Net(NetRows') + surplus'
  BY <1>1, <1>2, <1>11, Zenon
<1>14. BalanceIsExplained'
  BY <1>13 DEF BalanceIsExplained, LedgerNet, NetRows
<1> QED
  BY <1>2, <1>12, <1>14 DEF Books

\* A settlement that comes again finds all its rows but perhaps the commission,
\* which the first one left out when core could not be reached.
LEMMA SettleAgainBooks ==
  ASSUME FinanceInv, Books, NEW s \in settling, CommitSettle(s), credits[s.order] # 0
  PROVE  Books'
<1> DEFINE o == s.order
           Net(U) == MapThenSumSet(Signed, U)
           row == CommissionRow(s)
           late == IF Booked("commission", o) THEN {} ELSE Written(row)
<1>1. /\ o \in Order /\ credits[o] \in Nat /\ credits[o] > 0 /\ credits \in [Order -> Nat]
      /\ ledger' = ledger \cup { r \in SettlementRows(o, s.commission) : ~Booked(r.kind, r.ref) }
      /\ credits' = [credits EXCEPT ![o] = @ + 1]
      /\ balance' = balance + (Subtotal[o] - s.commission) /\ surplus' = surplus + Unexplained(s)
      /\ Subtotal[o] \in Nat /\ s.commission \in Nat /\ balance \in Int /\ surplus \in Nat
      /\ ledger \subseteq LedgerRow
  <2>1. /\ CreateTransactionsIdempotent(SettlementRows(o, s.commission))
        /\ UpsertIncrement(Subtotal[o] - s.commission)
        /\ credits' = [credits EXCEPT ![o] = @ + 1] /\ surplus' = surplus + Unexplained(s)
    BY DEF CommitSettle
  <2>2. /\ o \in Order /\ credits \in [Order -> Nat] /\ s.commission \in Nat
        /\ balance \in Int /\ surplus \in Nat /\ ledger \subseteq LedgerRow
    BY DEF FinanceInv, TypeOK
  <2>3. credits[o] \in Nat /\ credits[o] > 0 /\ Subtotal[o] \in Nat
    BY <2>2, MoneyAssumption
  <2> QED
    BY <2>1, <2>2, <2>3 DEF CreateTransactionsIdempotent, UpsertIncrement
<1>2. SettlementRows(o, s.commission) = FixedRows(o) \cup Written(row)
  BY DEF SettlementRows, FixedRows, Written, Cod, CommissionRow, ServiceRow, DeliveryRow
<1>3. FixedRows(o) \subseteq ledger
  BY <1>1 DEF Books, OrderRows
<1>4. row.kind = "commission" /\ row.ref = o /\ row.amount = s.commission
  BY DEF CommissionRow, LedgerEntry
<1>5. ledger' = ledger \cup late
  <2>1. \A r \in FixedRows(o) : Booked(r.kind, r.ref)
    BY <1>3 DEF Booked
  <2>2. { r \in FixedRows(o) \cup Written(row) : ~Booked(r.kind, r.ref) } = late
    BY <2>1, <1>4 DEF Written
  <2> QED
    BY <1>1, <1>2, <2>2
<1>6. \A ref \in Order : credits'[ref] > 0 <=> credits[ref] > 0
  BY <1>1
<1>7. \A r \in ledger : r.kind # "payout" => r.ref \in Order
  BY OrdersAssumption DEF Books, OrderRows
<1>8. \A r \in late : r.kind = "commission" /\ r.ref = o
  BY <1>4 DEF Written
<1>9. NetRows' = NetRows \cup late
  <2> HIDE DEF late
  <2> QED
    BY <1>1, <1>5, <1>6, <1>7, <1>8 DEF NetRows
<1>10. OrderRows'
  <2> HIDE DEF late
  <2>1. \A x \in Order : credits'[x] > 0 => FixedRows(x) \subseteq ledger'
    BY <1>5, <1>6 DEF Books, OrderRows
  <2>2. \A x \in Online : LedgerEntry("charge", x, Total(x)) \in ledger'
    BY <1>5 DEF Books, OrderRows
  <2>3. ASSUME NEW r \in ledger'
        PROVE  /\ r.kind = "charge" =>
                    r.ref \in Online /\ r = LedgerEntry("charge", r.ref, Total(r.ref))
               /\ r.kind \notin {"charge", "payout"} => r.ref \in Order /\ credits'[r.ref] > 0
    <3>1. CASE r \in late
      BY <3>1, <1>1, <1>6, <1>8
    <3>2. CASE r \in ledger
      BY <3>2, <1>6 DEF Books, OrderRows
    <3> QED
      BY <1>5, <3>1, <3>2
  <2>4. \A x : FixedRows(x)' = FixedRows(x)
    BY DEF FixedRows, Written, Cod, ServiceRow, DeliveryRow, LedgerEntry, Total
  <2> QED
    BY <2>1, <2>2, <2>3, <2>4 DEF OrderRows, LedgerEntry, Total
<1>11. /\ IsFiniteSet(NetRows) /\ balance = Net(NetRows) + surplus
       /\ \A r \in NetRows : r.amount \in Nat
  BY <1>1 DEF Books, BalanceIsExplained, LedgerNet, NetRows, LedgerRow
<1>12. /\ IsFiniteSet(NetRows') /\ balance' = Net(NetRows') + surplus'
  <2>1. CASE Booked("commission", o)
    <3>1. NetRows' = NetRows
      BY <1>9, <2>1
    <3>2. Unexplained(s) = Subtotal[o] - s.commission
      BY <1>1, <2>1 DEF Unexplained
    <3>3. Net(NetRows) \in Int
      <4>1. \A r \in NetRows : Signed(r) \in Int
        BY <1>11, SignedIsInt
      <4> QED
        BY <1>11, <4>1, SumIsInt
    <3> HIDE DEF Net, o
    <3> QED
      BY <1>1, <1>11, <3>1, <3>2, <3>3
  <2>2. CASE ~Booked("commission", o)
    <3>1. row \notin NetRows
      BY <1>4, <2>2 DEF NetRows, Booked
    <3>2. /\ IsFiniteSet(NetRows') /\ Net(NetRows) \in Int
          /\ Net(NetRows') = Net(NetRows) + Signed(row)
      <4>1. NetRows' = NetRows \cup { r \in {row} : r.amount > 0 }
        BY <1>9, <2>2 DEF Written
      <4>2. row.amount \in Nat
        BY <1>1, <1>4
      <4> HIDE DEF row
      <4> QED
        BY <1>11, <3>1, <4>1, <4>2, SumOfWritten
    <3>3. Signed(row) = -s.commission
      BY <1>4 DEF Signed
    <3>4. Unexplained(s) = Subtotal[o]
      BY <1>1, <2>2 DEF Unexplained
    <3> HIDE DEF Net, o, row
    <3> QED
      BY <1>1, <1>11, <3>2, <3>3, <3>4
  <2> QED
    BY <2>1, <2>2
<1>13. BalanceIsExplained'
  BY <1>12 DEF BalanceIsExplained, LedgerNet, NetRows
<1> QED
  BY <1>10, <1>12, <1>13 DEF Books

\* A payout is one row more, of a key that had none.
LEMMA RecordPayoutBooks ==
  ASSUME FinanceInv, Books, NEW d \in requests, RecordPayout(d) \/ RecordPayoutAckLost(d)
  PROVE  Books'
<1> DEFINE row == LedgerEntry("payout", d.key, d.amount)
           Net(U) == MapThenSumSet(Signed, U)
<1>1. d.amount \in Nat /\ balance \in Int /\ ledger \subseteq LedgerRow /\ surplus \in Nat
  BY MoneyAssumption DEF FinanceInv, TypeOK, RequestState
<1>2. /\ balance' = balance - d.amount /\ UNCHANGED <<credits, surplus>>
      /\ ledger' = ledger \cup {row} /\ ~Booked("payout", d.key)
  BY DEF RecordPayout, RecordPayoutAckLost, PayOut, DecrementIfSufficient, CreateTransaction
<1>3. row.kind = "payout" /\ row.ref = d.key /\ row.amount = d.amount
  BY DEF LedgerEntry
<1>4. row \notin NetRows
  BY <1>2, <1>3 DEF NetRows, Booked
<1>5. NetRows' = NetRows \cup {row}
  BY <1>2, <1>3 DEF NetRows
<1>6. Signed(row) = -d.amount /\ Signed(row) \in Int
  BY <1>1, <1>3 DEF Signed
<1>7. OrderRows'
  <2>1. row.kind # "charge" /\ row.kind \in {"charge", "payout"}
    BY <1>3
  <2> HIDE DEF row
  <2> QED
    BY <1>2, <2>1 DEF Books, OrderRows, FixedRows, Written, Cod, ServiceRow, DeliveryRow,
                      LedgerEntry, Total
<1> HIDE DEF row
<1>8. /\ IsFiniteSet(NetRows) /\ balance = Net(NetRows) + surplus
      /\ \A r \in NetRows : Signed(r) \in Int
  BY <1>1, SignedIsInt DEF Books, BalanceIsExplained, LedgerNet, NetRows, LedgerRow
<1>9. /\ IsFiniteSet(NetRows') /\ Net(NetRows') = Net(NetRows) + Signed(row)
      /\ Net(NetRows) \in Int
  BY <1>4, <1>5, <1>6, <1>8, FS_AddElement, SumOfOneMore
<1>10. balance' = Net(NetRows') + surplus'
  BY <1>1, <1>2, <1>6, <1>8, <1>9
<1>11. BalanceIsExplained'
  BY <1>10 DEF BalanceIsExplained, LedgerNet, NetRows
<1> QED
  BY <1>7, <1>9, <1>11 DEF Books

\* Every other step leaves the two tables and the credits alone.
LEMMA StepBooks ==
  ASSUME FinanceInv, Books, [Next]_vars
  PROVE  Books'
<1>1. CASE UNCHANGED <<balance, ledger, credits, surplus>>
  <2>1. NetRows' = NetRows
    BY <1>1 DEF NetRows
  <2>2. BalanceIsExplained'
    BY <1>1 DEF Books, BalanceIsExplained, LedgerNet
  <2> QED
    BY <1>1, <2>1, <2>2 DEF Books, OrderRows, FixedRows, Written, Cod, ServiceRow, DeliveryRow,
                            LedgerEntry, Total
<1> QED
  BY <1>1, FirstSettleBooks, SettleAgainBooks, RecordPayoutBooks
     DEF Next, vars, moneyVars, SettleNext, BeginSettle, SettleFails, BeginPayout, RequestStep,
         LookUp, LookUpFails, PayoutFails, StoreReply, StoreReplyFails, TellReply,
         RequestLost, CacheExpires

\* After every transaction a restaurant's balance is the net of its ledger and what
\* repeated settlements credited: the first settleDelivered of an order credits what
\* its rows and the charge come to, whatever the rate, the rounding and the rows left
\* out because they are of nothing, recordPayout debits what it books, and a
\* settlement that comes again, later or at once, adds to the surplus alone.
THEOREM BalanceAccountedFor == Spec => []BalanceIsExplained
<1>1. Init => Books
  BY InitBooks
<1>2. FinanceInv /\ Books /\ [Next]_vars => Books'
  BY StepBooks
<1>3. Books => BalanceIsExplained
  BY DEF Books
<1> QED
  BY <1>1, <1>2, <1>3, FinanceInvariant, PTL DEF Spec
=============================================================================
