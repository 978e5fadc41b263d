---------------------------- MODULE WalletProofs ----------------------------
(***************************************************************************)
(* Proofs about the wallet, for every set of students, requests and        *)
(* callbacks and every catalogue.                                          *)
(***************************************************************************)
EXTENDS Wallet, FoldTheorems, SequenceTheorems, TLAPS

\* Every handler works on the wallet of one student, StudentOf(h).
LEMMA StudentType == \A h \in Handlers : StudentOf(h) \in Students
  BY RequestAssumption DEF Handlers, StudentOf

\* A cart that passes the catalogue query names items of the menu only: it has
\* as many listed items as lines, and no more items than lines.
LEMMA ListedOnMenu ==
  ASSUME NEW cart \in Seq(Line), Listed(cart)
  PROVE  \A i \in DOMAIN cart : cart[i].item \in Menu
<1> DEFINE I == DOMAIN cart
           N == ItemsOf(cart)
           item == [i \in I |-> cart[i].item]
<1>1. IsFiniteSet(I) /\ Cardinality(I) = Len(cart)
  <2>1. I = 1..Len(cart) /\ Len(cart) \in Nat
    OBVIOUS
  <2> QED BY <2>1, FS_Interval
<1>2. item \in Surjection(I, N)
  BY DEF ItemsOf, Surjection
<1>3. IsFiniteSet(N) /\ Cardinality(N) <= Len(cart)
  BY <1>1, <1>2, FS_Surjection
<1>4. /\ Cardinality(N \cap Menu) = Len(cart)
      /\ Cardinality(N \cap Menu) <= Cardinality(N)
      /\ Cardinality(N) = Cardinality(N \cap Menu) => N = N \cap Menu
  BY <1>3, FS_Subset DEF Listed
<1>5. Cardinality(N) \in Nat
  BY <1>3, FS_CardinalityType
<1>6. N = N \cap Menu
  BY <1>3, <1>4, <1>5
<1> QED BY <1>6 DEF ItemsOf

\* A purchase costs a natural number of piastres.
LEMMA CostType == \A p \in Purchases : Cost(p) \in Nat
<1> SUFFICES ASSUME NEW p \in Purchases, Listed(PurchaseOf[p].cart)
             PROVE  Total(PurchaseOf[p].cart) \in Nat
  BY DEF Cost
<1> DEFINE cart == PurchaseOf[p].cart
           line == [i \in DOMAIN cart |-> Price[cart[i].item] * cart[i].qty]
<1>1. cart \in Seq(Line)
  BY RequestAssumption
<1>2. \A i \in DOMAIN cart : cart[i].item \in Menu /\ cart[i].qty \in Nat
  <2>1. \A i \in DOMAIN cart : cart[i].item \in Menu
    BY <1>1, ListedOnMenu
  <2>2. \A i \in DOMAIN cart : cart[i] \in Line
    BY <1>1
  <2> HIDE DEF cart
  <2> QED BY <2>1, <2>2 DEF Line
<1>3. \A i \in DOMAIN cart : line[i] \in Nat
  <2> TAKE i \in DOMAIN cart
  <2>1. Price[cart[i].item] \in Nat /\ cart[i].qty \in Nat
    BY <1>2, PriceAssumption
  <2> HIDE DEF cart
  <2>2. \A m, n \in Nat : m * n \in Nat
    OBVIOUS
  <2> QED BY <2>1, <2>2
<1>4. IsFiniteSet(DOMAIN cart)
  <2>1. DOMAIN cart = 1..Len(cart) /\ Len(cart) \in Nat
    BY <1>1
  <2> QED BY <2>1, FS_Interval
<1>5. SumFunctionOnSet(line, DOMAIN cart) \in Nat
  BY <1>3, <1>4, SumFacts
<1> QED BY <1>5 DEF Total

\* A callback works on the wallet of the top-up it confirms.
LEMMA HookStudent == \A k \in Hooks : StudentOf(k) = StudentOf(HookRef[k])
  BY RequestAssumption, DistinctAssumption DEF StudentOf

\* The empty row is a row of the table.
LEMMA NoWalletType == NoWallet \in WalletRows
  BY DEF NoWallet, WalletRows

\* The upsert of initializeWallet yields a row of the table and leaves the
\* balance of a wallet that exists.
LEMMA UpsertedType ==
  ASSUME NEW w \in WalletRows, NEW limit \in Nat
  PROVE  /\ Upserted(w, limit) \in WalletRows
         /\ Upserted(w, limit).balance = IF w.exists THEN w.balance ELSE 0
         /\ Upserted(w, limit).exists
<1>1. CASE w.exists
  <2>1. Upserted(w, limit) =
          [w EXCEPT !.dailyLimit = limit, !.isActive = TRUE]
    BY <1>1 DEF Upserted
  <2>2. QED BY <1>1, <2>1 DEF WalletRows
<1>2. CASE ~w.exists
  <2>1. Upserted(w, limit) =
          [exists |-> TRUE, balance |-> 0, dailyLimit |-> limit,
           blocked |-> [c \in Columns |-> {}], isActive |-> TRUE]
    BY <1>2 DEF Upserted, NoWallet
  <2>2. QED BY <1>2, <2>1 DEF WalletRows
<1>3. QED BY <1>1, <1>2

\* An edit yields a row of the table and leaves the balance.
LEMMA EditedType ==
  ASSUME NEW w \in WalletRows, NEW e \in Edits
  PROVE  /\ Edited(w, e) \in WalletRows
         /\ Edited(w, e).balance = w.balance
         /\ Edited(w, e).exists = w.exists
<1> DEFINE given == EditOf[e].blocked
           limit == Given(EditOf[e].dailyLimit, w.dailyLimit)
           columns == [c \in Columns |-> IF c \in DOMAIN given
                                        THEN given[c] ELSE w.blocked[c]]
<1>1. limit \in Nat
  BY RequestAssumption DEF Given, NoChange, WalletRows
<1>2. columns \in [Columns -> SUBSET Tags]
  <2>1. \A c \in DOMAIN given : given[c] \in SUBSET Tags
    BY RequestAssumption
  <2>2. \A c \in Columns : w.blocked[c] \in SUBSET Tags
    BY DEF WalletRows
  <2>3. QED BY <2>1, <2>2
<1>3. Edited(w, e) = [w EXCEPT !.dailyLimit = limit, !.blocked = columns]
  BY DEF Edited
<1> HIDE DEF limit, columns
<1>4. QED BY <1>1, <1>2, <1>3 DEF WalletRows

-----------------------------------------------------------------------------
(* Type correctness *)

USE DEF Handlers, RowIds

\* Initially every variable is of its type.
LEMMA InitType == Init => TypeOK
<1> SUFFICES ASSUME Init PROVE TypeOK
  OBVIOUS
<1>1. wallet \in [Students -> WalletRows]
  BY OpeningAssumption DEF Init
<1>2. row \in [RowIds -> LedgerRows]
  BY BoundAssumption DEF Init, NoRow, LedgerRows, Statuses
<1>3. snap \in [Handlers -> WalletRows]
  BY NoWalletType DEF Init
<1>4. posted \in [Students -> Seq(RowIds)]
  BY DEF Init
<1>5. /\ intents \subseteq TopUps /\ day \in 0..MaxDay
      /\ pc \in [Handlers -> {"idle"} \cup Active \cup Ended]
      /\ read \in [Handlers -> Int]
  BY BoundAssumption DEF Init
<1>6. QED BY <1>1, <1>2, <1>3, <1>4, <1>5 DEF TypeOK

\* A transaction that posts a typed row keeps the types.
LEMMA PostType ==
  ASSUME TypeOK, NEW h \in Handlers, NEW id \in RowIds, NEW b \in Int,
         NEW r \in LedgerRows, Post(h, id, b, r),
         UNCHANGED <<intents, day, snap, read>>
  PROVE  TypeOK'
<1> DEFINE s == StudentOf(h)
<1>0. s \in Students
  BY StudentType
<1>1. wallet' \in [Students -> WalletRows]
  <2>1. wallet' = [wallet EXCEPT ![s] = [wallet[s] EXCEPT !.balance = b]]
    BY DEF Post
  <2>2. wallet[s] \in WalletRows
    BY <1>0 DEF TypeOK
  <2>3. [wallet[s] EXCEPT !.balance = b] \in WalletRows
    BY <2>2 DEF WalletRows
  <2>4. QED BY <1>0, <2>1, <2>3 DEF TypeOK
<1>2. row' \in [RowIds -> LedgerRows]
  BY DEF Post, TypeOK
<1>3. pc' \in [Handlers -> {"idle"} \cup Active \cup Ended]
  BY DEF Post, TypeOK, Active
<1>4. posted' \in [Students -> Seq(RowIds)]
  <2>1. posted' = [posted EXCEPT ![s] = Append(posted[s], id)]
    BY DEF Post
  <2>2. Append(posted[s], id) \in Seq(RowIds)
    BY <1>0 DEF TypeOK
  <2>3. QED BY <1>0, <2>1, <2>2 DEF TypeOK
<1>5. QED BY <1>1, <1>2, <1>3, <1>4 DEF TypeOK

\* A snapshot of a typed wallet row keeps the types of its two variables.
LEMMA SnapshotType ==
  ASSUME TypeOK, NEW h \in Handlers, NEW w \in WalletRows,
         NEW next \in Active \cup Ended, Snapshot(h, w, next)
  PROVE  /\ snap' \in [Handlers -> WalletRows]
         /\ pc' \in [Handlers -> {"idle"} \cup Active \cup Ended]
  BY DEF TypeOK, Snapshot

\* initializeWallet keeps the type of the table of wallets.
LEMMA InitializeType ==
  ASSUME TypeOK, NEW h \in Handlers, NEW limit \in Nat,
         InitializeWallet(h, limit)
  PROVE  wallet' \in [Students -> WalletRows]
<1> DEFINE s == StudentOf(h)
<1>1. s \in Students /\ wallet[s] \in WalletRows
  BY StudentType DEF TypeOK
<1>2. Upserted(wallet[s], limit) \in WalletRows
  BY <1>1, UpsertedType
<1>3. QED BY <1>1, <1>2 DEF InitializeWallet, TypeOK

\* The checks on the snapshot lead to one of three places.
LEMMA CheckedType ==
  ASSUME NEW p \in Purchases, NEW w
  PROVE  Checked(p, w) \in {"refused", "cap", "read"}
  BY DEF Checked

\* A transaction that reads the balance reads an integer.
LEMMA ReadBalanceType ==
  ASSUME TypeOK, NEW h \in Handlers, ReadBalance(h)
  PROVE  /\ read' \in [Handlers -> Int]
         /\ pc' \in [Handlers -> {"idle"} \cup Active \cup Ended]
<1>1. wallet[StudentOf(h)].balance \in Int
  BY StudentType DEF TypeOK, WalletRows
<1>2. QED BY <1>1 DEF TypeOK, ReadBalance, Active

\* Each step of a purchase keeps the types.
LEMMA PurchaseType ==
  ASSUME TypeOK, NEW p \in Purchases, Purchase(p)
  PROVE  TypeOK'
<1> DEFINE w == wallet[StudentOf(p)]
<1>0. p \in Handlers /\ w \in WalletRows
  BY StudentType DEF TypeOK
<1>1. CASE PurchaseStart(p)
  <2> DEFINE next == IF PurchaseOf[p].cart = <<>> THEN "refused"
                     ELSE IF w.exists THEN Checked(p, w) ELSE "init"
  <2>1. next \in Active \cup Ended
    BY CheckedType DEF Active, Ended
  <2>2. Snapshot(p, w, next)
    BY <1>1 DEF PurchaseStart
  <2> HIDE DEF next
  <2>3. QED BY <1>0, <1>1, <2>1, <2>2, SnapshotType DEF PurchaseStart, TypeOK
<1>2. CASE PurchaseInit(p)
  <2> DEFINE u == Upserted(w, 0)
  <2>1. u \in WalletRows
    BY <1>0, UpsertedType
  <2>2. Checked(p, u) \in Active \cup Ended
    BY CheckedType DEF Active, Ended
  <2>3. Snapshot(p, u, Checked(p, u)) /\ InitializeWallet(p, 0)
    BY <1>2 DEF PurchaseInit
  <2> HIDE DEF u
  <2>4. QED BY <1>0, <1>2, <2>1, <2>2, <2>3, SnapshotType, InitializeType
            DEF PurchaseInit, TypeOK
<1>3. CASE PurchaseCap(p)
  BY <1>0, <1>3 DEF PurchaseCap, TypeOK, Active, Ended
<1>4. CASE PurchaseRead(p)
  <2>1. CASE w.balance < Cost(p)
    BY <1>0, <1>4, <2>1 DEF PurchaseRead, TypeOK, Active, Ended
  <2>2. CASE ~(w.balance < Cost(p))
    BY <1>0, <1>4, <2>2, ReadBalanceType DEF PurchaseRead, TypeOK
  <2>3. QED BY <2>1, <2>2
<1>5. CASE PurchaseCommit(p)
  <2> DEFINE b == read[p] - Cost(p)
             r == [status |-> "COMPLETED", amount |-> Cost(p),
                   balanceAfter |-> b, day |-> day]
  <2>1. b \in Int /\ r \in LedgerRows
    BY <1>0, CostType DEF TypeOK, LedgerRows, Statuses
  <2>2. Post(p, p, b, r) /\ UNCHANGED <<intents, day, snap, read>>
    BY <1>5 DEF PurchaseCommit
  <2> HIDE DEF b, r
  <2>3. QED BY <1>0, <2>1, <2>2, PostType
<1>6. QED BY <1>1, <1>2, <1>3, <1>4, <1>5 DEF Purchase

\* Each step of a top-up keeps the types.
LEMMA TopUpType ==
  ASSUME TypeOK, NEW t \in TopUps, TopUp(t)
  PROVE  TypeOK'
<1> DEFINE w == wallet[StudentOf(t)]
<1>0. t \in Handlers /\ w \in WalletRows
  BY StudentType DEF TypeOK
<1>1. CASE TopUpStart(t)
  <2> DEFINE next == IF w.exists THEN "intent" ELSE "init"
  <2>1. next \in Active \cup Ended
    BY DEF Active
  <2>2. Snapshot(t, w, next)
    BY <1>1 DEF TopUpStart
  <2> HIDE DEF next
  <2>3. QED BY <1>0, <1>1, <2>1, <2>2, SnapshotType DEF TopUpStart, TypeOK
<1>2. CASE TopUpInit(t)
  <2> DEFINE u == Upserted(w, 0)
  <2>1. u \in WalletRows
    BY <1>0, UpsertedType
  <2>2. Snapshot(t, u, "intent") /\ InitializeWallet(t, 0)
    BY <1>2 DEF TopUpInit
  <2> HIDE DEF u
  <2>3. "intent" \in Active \cup Ended
    BY DEF Active
  <2>4. QED BY <1>0, <1>2, <2>1, <2>2, <2>3, SnapshotType, InitializeType
            DEF TopUpInit, TypeOK
<1>3. CASE TopUpIntent(t)
  BY <1>0, <1>3 DEF TopUpIntent, TypeOK, Active
<1>4. CASE TopUpRow(t)
  <2>1. [status |-> "PENDING", amount |-> TopUpOf[t].amount,
         balanceAfter |-> snap[t].balance, day |-> day] \in LedgerRows
    BY <1>0, RequestAssumption DEF TypeOK, LedgerRows, Statuses, WalletRows
  <2>2. QED BY <1>0, <1>4, <2>1 DEF TopUpRow, TypeOK, Ended
<1>5. QED BY <1>1, <1>2, <1>3, <1>4 DEF TopUp

\* Each step of a callback keeps the types.
LEMMA HookType ==
  ASSUME TypeOK, NEW k \in Hooks, Hook(k)
  PROVE  TypeOK'
<1> DEFINE t == HookRef[k]
<1>0. k \in Handlers /\ t \in TopUps /\ t \in RowIds
  BY RequestAssumption
<1>1. CASE HookStart(k)
  BY <1>0, <1>1 DEF HookStart, TypeOK, Active, Ended
<1>2. CASE HookRead(k)
  BY <1>0, <1>2, ReadBalanceType DEF HookRead, TypeOK
<1>3. CASE HookCommit(k)
  <2> DEFINE b == read[k] + TopUpOf[t].amount
             r == [row[t] EXCEPT !.status = "COMPLETED", !.balanceAfter = b]
  <2>1. b \in Int
    BY <1>0, RequestAssumption DEF TypeOK
  <2>2. r \in LedgerRows
    <3> HIDE DEF b
    <3>1. QED BY <1>0, <2>1 DEF TypeOK, LedgerRows, Statuses
  <2>3. Post(k, t, b, r) /\ UNCHANGED <<intents, day, snap, read>>
    BY <1>3 DEF HookCommit
  <2> HIDE DEF b, r
  <2>4. QED BY <1>0, <2>1, <2>2, <2>3, PostType
<1>4. QED BY <1>1, <1>2, <1>3 DEF Hook

\* Each step of an edit keeps the types.
LEMMA EditType ==
  ASSUME TypeOK, NEW e \in Edits, Edit(e)
  PROVE  TypeOK'
<1> DEFINE s == StudentOf(e)
           w == wallet[s]
<1>0. e \in Handlers /\ s \in Students /\ w \in WalletRows
  BY StudentType DEF TypeOK
<1>1. CASE EditStart(e)
  <2> DEFINE next == IF ~EditOf[e].authorised THEN "refused"
                     ELSE IF w.exists THEN "write" ELSE "init"
  <2>1. next \in Active \cup Ended
    BY DEF Active, Ended
  <2>2. Snapshot(e, w, next)
    BY <1>1 DEF EditStart
  <2> HIDE DEF next
  <2>3. QED BY <1>0, <1>1, <2>1, <2>2, SnapshotType DEF EditStart, TypeOK
<1>2. CASE EditInit(e)
  <2> DEFINE limit == Given(EditOf[e].dailyLimit, 0)
             u == Upserted(w, limit)
  <2>1. limit \in Nat
    BY RequestAssumption DEF Given, NoChange
  <2>2. Snapshot(e, u, "write") /\ InitializeWallet(e, limit)
    BY <1>2 DEF EditInit
  <2> HIDE DEF limit
  <2>3. u \in WalletRows
    BY <1>0, <2>1, UpsertedType
  <2> HIDE DEF u
  <2>4. "write" \in Active \cup Ended
    BY DEF Active
  <2>5. QED BY <1>0, <1>2, <2>1, <2>2, <2>3, <2>4, SnapshotType, InitializeType
            DEF EditInit, TypeOK
<1>3. CASE EditWrite(e)
  <2>1. Edited(w, e) \in WalletRows
    BY <1>0, EditedType
  <2>2. wallet' = [wallet EXCEPT ![s] = Edited(w, e)]
    BY <1>3 DEF EditWrite
  <2>3. QED BY <1>0, <1>3, <2>1, <2>2 DEF EditWrite, TypeOK, Ended
<1>4. QED BY <1>1, <1>2, <1>3 DEF Edit

\* Publishing, failing, midnight and rest keep the types.
LEMMA OtherType ==
  ASSUME TypeOK,
         \/ \E h \in Handlers : Publish(h) \/ Fail(h)
         \/ NextDay
         \/ UNCHANGED vars
  PROVE  TypeOK'
<1>1. CASE \E h \in Handlers : Publish(h) \/ Fail(h)
  BY <1>1 DEF Publish, Fail, TypeOK, Ended
<1>2. CASE NextDay
  BY <1>2, BoundAssumption DEF NextDay, TypeOK
<1>3. CASE UNCHANGED vars
  BY <1>3 DEF vars, TypeOK
<1>4. QED BY <1>1, <1>2, <1>3

\* Every reachable state is typed, whatever runs at once.
THEOREM TypeCorrect == Spec => []TypeOK
<1>1. Init => TypeOK
  BY InitType
<1>2. TypeOK /\ [Next]_vars => TypeOK'
  BY PurchaseType, TopUpType, HookType, EditType, OtherType DEF Next, Quiet
<1>3. QED BY <1>1, <1>2, PTL DEF Spec

-----------------------------------------------------------------------------
(* The wallet is never overdrawn, at any degree of concurrency *)

\* What a transaction that is about to commit has read covers what it takes.
ReadsCover ==
  /\ \A p \in Purchases : pc[p] = "commit" => read[p] >= Cost(p)
  /\ \A k \in Hooks : pc[k] = "commit" => read[k] >= 0

Solvent == TypeOK /\ NonNegativeBalance /\ ReadsCover

\* A step that starts no commit, reads no balance and writes none below zero.
LEMMA QuietStep ==
  ASSUME Solvent, TypeOK',
         \A s \in Students : wallet'[s].balance >= 0,
         UNCHANGED read,
         \A h \in Handlers : pc'[h] = "commit" => pc[h] = "commit"
  PROVE  Solvent'
<1>1. NonNegativeBalance'
  BY DEF NonNegativeBalance
<1>2. ReadsCover'
  BY DEF Solvent, ReadsCover
<1>3. QED BY <1>1, <1>2 DEF Solvent

\* An upsert keeps every balance non-negative.
LEMMA InitializeSolvent ==
  ASSUME TypeOK, NonNegativeBalance, NEW h \in Handlers, NEW limit \in Nat,
         InitializeWallet(h, limit)
  PROVE  \A s \in Students : wallet'[s].balance >= 0
<1> DEFINE z == StudentOf(h)
<1>1. z \in Students /\ wallet[z] \in WalletRows /\ wallet[z].balance >= 0
  BY StudentType DEF TypeOK, NonNegativeBalance
<1>2. Upserted(wallet[z], limit).balance >= 0
  BY <1>1, UpsertedType
<1>3. wallet' = [wallet EXCEPT ![z] = Upserted(wallet[z], limit)]
  BY DEF InitializeWallet
<1>4. QED BY <1>1, <1>2, <1>3 DEF TypeOK, NonNegativeBalance

\* Each step of a purchase keeps the wallet solvent.
LEMMA PurchaseSolvent ==
  ASSUME Solvent, NEW p \in Purchases, Purchase(p)
  PROVE  Solvent'
<1> DEFINE s == StudentOf(p)
<1>0. /\ TypeOK /\ TypeOK' /\ p \in Handlers /\ s \in Students
      /\ NonNegativeBalance /\ Cost(p) \in Nat
  BY PurchaseType, StudentType, CostType DEF Solvent
<1>1. CASE PurchaseStart(p) \/ PurchaseCap(p)
  <2>1. \A h \in Handlers : pc'[h] = "commit" => pc[h] = "commit"
    BY <1>0, <1>1, CheckedType
    DEF PurchaseStart, PurchaseCap, Snapshot, Arrives, TypeOK
  <2>2. UNCHANGED <<wallet, read>>
    BY <1>1 DEF PurchaseStart, PurchaseCap
  <2>3. QED BY <1>0, <2>1, <2>2, QuietStep DEF NonNegativeBalance
<1>2. CASE PurchaseInit(p)
  <2>1. \A h \in Handlers : pc'[h] = "commit" => pc[h] = "commit"
    <3> DEFINE u == Upserted(wallet[s], 0)
    <3>1. Snapshot(p, u, Checked(p, u)) /\ Checked(p, u) # "commit"
      BY <1>2, CheckedType DEF PurchaseInit
    <3> HIDE DEF u
    <3>2. QED BY <1>0, <3>1 DEF Snapshot, TypeOK
  <2>2. InitializeWallet(p, 0) /\ UNCHANGED read
    BY <1>2 DEF PurchaseInit
  <2>3. QED BY <1>0, <2>1, <2>2, InitializeSolvent, QuietStep
<1>3. CASE PurchaseRead(p)
  <2>1. CASE wallet[s].balance < Cost(p)
    <3>1. \A h \in Handlers : pc'[h] = "commit" => pc[h] = "commit"
      BY <1>0, <1>3, <2>1 DEF PurchaseRead, TypeOK
    <3>2. UNCHANGED <<wallet, read>>
      BY <1>3, <2>1 DEF PurchaseRead
    <3>3. QED BY <1>0, <3>1, <3>2, QuietStep DEF NonNegativeBalance
  <2>2. CASE ~(wallet[s].balance < Cost(p))
    <3>1. ReadBalance(p) /\ UNCHANGED wallet
      BY <1>3, <2>2 DEF PurchaseRead
    <3>2. wallet[s].balance \in Int
      BY <1>0 DEF TypeOK, WalletRows
    <3>3. read'[p] >= Cost(p)
      BY <1>0, <2>2, <3>1, <3>2 DEF ReadBalance, TypeOK
    <3>4. ReadsCover'
      BY <1>0, <3>1, <3>3, DistinctAssumption
      DEF ReadBalance, Solvent, ReadsCover, TypeOK
    <3>5. QED BY <1>0, <3>1, <3>4 DEF Solvent, NonNegativeBalance
  <2>3. QED BY <2>1, <2>2
<1>4. CASE PurchaseCommit(p)
  <2>1. read[p] - Cost(p) >= 0
    BY <1>0, <1>4 DEF PurchaseCommit, Solvent, ReadsCover, TypeOK
  <2>2. wallet' = [wallet EXCEPT ![s].balance = read[p] - Cost(p)]
    BY <1>4 DEF PurchaseCommit, Post
  <2>3. \A z \in Students : wallet'[z].balance >= 0
    BY <1>0, <2>1, <2>2 DEF TypeOK, NonNegativeBalance, WalletRows
  <2>4. UNCHANGED read /\ pc' = [pc EXCEPT ![p] = "publish"]
    BY <1>4 DEF PurchaseCommit, Post
  <2>5. QED BY <1>0, <2>3, <2>4, QuietStep DEF TypeOK
<1>5. QED BY <1>1, <1>2, <1>3, <1>4 DEF Purchase

\* Each step of a top-up keeps the wallet solvent.
LEMMA TopUpSolvent ==
  ASSUME Solvent, NEW t \in TopUps, TopUp(t)
  PROVE  Solvent'
<1>0. TypeOK /\ TypeOK' /\ t \in Handlers /\ NonNegativeBalance
  BY TopUpType DEF Solvent
<1>1. \A h \in Handlers : pc'[h] = "commit" => pc[h] = "commit"
  BY <1>0 DEF TopUp, TopUpStart, TopUpInit, TopUpIntent, TopUpRow, Snapshot,
              TypeOK
<1>2. UNCHANGED read
  BY DEF TopUp, TopUpStart, TopUpInit, TopUpIntent, TopUpRow
<1>3. CASE TopUpInit(t)
  BY <1>0, <1>1, <1>2, <1>3, InitializeSolvent, QuietStep DEF TopUpInit
<1>4. CASE ~TopUpInit(t)
  <2>1. UNCHANGED wallet
    BY <1>4 DEF TopUp, TopUpStart, TopUpIntent, TopUpRow
  <2>2. QED BY <1>0, <1>1, <1>2, <2>1, QuietStep DEF NonNegativeBalance
<1>5. QED BY <1>3, <1>4

\* Each step of a callback keeps the wallet solvent.
LEMMA HookSolvent ==
  ASSUME Solvent, NEW k \in Hooks, Hook(k)
  PROVE  Solvent'
<1> DEFINE s == StudentOf(k)
           t == HookRef[k]
<1>0. /\ TypeOK /\ TypeOK' /\ k \in Handlers /\ s \in Students
      /\ NonNegativeBalance /\ TopUpOf[t].amount \in Nat
  BY HookType, StudentType, RequestAssumption DEF Solvent
<1>1. CASE HookStart(k)
  <2>1. \A h \in Handlers : pc'[h] = "commit" => pc[h] = "commit"
    BY <1>0, <1>1 DEF HookStart, TypeOK
  <2>2. UNCHANGED <<wallet, read>>
    BY <1>1 DEF HookStart
  <2>3. QED BY <1>0, <2>1, <2>2, QuietStep DEF NonNegativeBalance
<1>2. CASE HookRead(k)
  <2>1. ReadBalance(k) /\ UNCHANGED wallet
    BY <1>2 DEF HookRead
  <2>2. read'[k] >= 0
    BY <1>0, <2>1 DEF ReadBalance, TypeOK, NonNegativeBalance
  <2>3. ReadsCover'
    BY <1>0, <2>1, <2>2, DistinctAssumption
    DEF ReadBalance, Solvent, ReadsCover, TypeOK
  <2>4. QED BY <1>0, <2>1, <2>3 DEF Solvent, NonNegativeBalance
<1>3. CASE HookCommit(k)
  <2>1. read[k] + TopUpOf[t].amount >= 0
    BY <1>0, <1>3 DEF HookCommit, Solvent, ReadsCover, TypeOK
  <2>2. wallet' = [wallet EXCEPT ![s].balance = read[k] + TopUpOf[t].amount]
    BY <1>3 DEF HookCommit, Post
  <2>3. \A z \in Students : wallet'[z].balance >= 0
    BY <1>0, <2>1, <2>2 DEF TypeOK, NonNegativeBalance, WalletRows
  <2>4. UNCHANGED read /\ pc' = [pc EXCEPT ![k] = "publish"]
    BY <1>3 DEF HookCommit, Post
  <2>5. QED BY <1>0, <2>3, <2>4, QuietStep DEF TypeOK
<1>4. QED BY <1>1, <1>2, <1>3 DEF Hook

\* Each step of an edit keeps the wallet solvent.
LEMMA EditSolvent ==
  ASSUME Solvent, NEW e \in Edits, Edit(e)
  PROVE  Solvent'
<1> DEFINE s == StudentOf(e)
<1>0. /\ TypeOK /\ TypeOK' /\ e \in Handlers /\ s \in Students
      /\ NonNegativeBalance
  BY EditType, StudentType DEF Solvent
<1>1. \A h \in Handlers : pc'[h] = "commit" => pc[h] = "commit"
  BY <1>0 DEF Edit, EditStart, EditInit, EditWrite, Snapshot, TypeOK
<1>2. UNCHANGED read
  BY DEF Edit, EditStart, EditInit, EditWrite
<1>3. \A z \in Students : wallet'[z].balance >= 0
  <2>1. CASE EditStart(e)
    BY <1>0, <2>1 DEF EditStart, NonNegativeBalance
  <2>2. CASE EditInit(e)
    <3>1. Given(EditOf[e].dailyLimit, 0) \in Nat
      BY RequestAssumption DEF Given, NoChange
    <3>2. QED BY <1>0, <2>2, <3>1, InitializeSolvent DEF EditInit
  <2>3. CASE EditWrite(e)
    <3>1. wallet' = [wallet EXCEPT ![s] = Edited(wallet[s], e)]
      BY <2>3 DEF EditWrite
    <3>2. Edited(wallet[s], e).balance = wallet[s].balance
      BY <1>0, EditedType DEF TypeOK
    <3>3. QED BY <1>0, <3>1, <3>2 DEF TypeOK, NonNegativeBalance
  <2>4. QED BY <2>1, <2>2, <2>3 DEF Edit
<1>4. QED BY <1>0, <1>1, <1>2, <1>3, QuietStep

\* Solvent is inductive, at any degree of concurrency.
LEMMA AlwaysSolvent == Spec => []Solvent
<1>1. Init => Solvent
  BY InitType, OpeningAssumption
  DEF Init, Solvent, NonNegativeBalance, ReadsCover
<1>2. Solvent /\ [Next]_vars => Solvent'
  <2> SUFFICES ASSUME Solvent, [Next]_vars PROVE Solvent'
    OBVIOUS
  <2>1. CASE \/ \E h \in Handlers : Publish(h) \/ Fail(h)
             \/ NextDay
             \/ UNCHANGED vars
    <3>1. TypeOK'
      BY <2>1, OtherType DEF Solvent
    <3>2. /\ UNCHANGED <<wallet, read>>
          /\ \A h \in Handlers : pc'[h] = "commit" => pc[h] = "commit"
      BY <2>1 DEF Publish, Fail, NextDay, vars, Solvent, TypeOK
    <3>3. QED BY <3>1, <3>2, QuietStep DEF Solvent, NonNegativeBalance
  <2>2. QED
    BY <2>1, PurchaseSolvent, TopUpSolvent, HookSolvent, EditSolvent
    DEF Next, Quiet
<1>3. QED BY <1>1, <1>2, PTL DEF Spec

\* The wallet is never overdrawn: NonNegativeBalance holds in every reachable
\* state, for every number of handlers in flight.
THEOREM NeverOverdrawn == Spec => []NonNegativeBalance
<1>1. Solvent => NonNegativeBalance
  BY DEF Solvent
<1>2. QED BY <1>1, AlwaysSolvent, PTL

-----------------------------------------------------------------------------
(* The ledger agrees with the handlers and with the cached balance *)

BeforeDebit  == {"idle", "init", "cap", "read", "commit", "refused"}
BeforeCredit == {"idle", "init", "intent", "row"}

\* The row of a request appears with the step that creates it.
DebitsMatch ==
  \A p \in Purchases :
    /\ pc[p] \in BeforeDebit => row[p].status = "NONE"
    /\ pc[p] \in {"publish", "ok"} => row[p].status = "COMPLETED"

CreditsMatch ==
  \A t \in TopUps :
    /\ pc[t] \in BeforeCredit \cup {"ok", "failed"}
    /\ pc[t] \in BeforeCredit => row[t].status = "NONE"
    /\ pc[t] = "ok" => row[t].status # "NONE"
    /\ row[t].status # "NONE" => row[t].amount = TopUpOf[t].amount

HooksMatch ==
  \A k \in Hooks :
    /\ pc[k] \in {"read", "commit"} => row[HookRef[k]].status # "NONE"
    /\ pc[k] \in {"publish", "ok"} => row[HookRef[k]].status = "COMPLETED"

RowsMatch == DebitsMatch /\ CreditsMatch /\ HooksMatch

\* A purchase step keeps RowsMatch.
LEMMA PurchaseRows ==
  ASSUME TypeOK, RowsMatch, NEW p \in Purchases, Purchase(p)
  PROVE  RowsMatch'
<1>0. p \in Handlers /\ p \in RowIds
  OBVIOUS
<1>1. CASE PurchaseCommit(p)
  <2>1. /\ \A r \in RowIds \ {p} : row'[r] = row[r]
        /\ row'[p].status = "COMPLETED"
        /\ pc'[p] = "publish"
        /\ \A h \in Handlers \ {p} : pc'[h] = pc[h]
    BY <1>0, <1>1 DEF PurchaseCommit, Post, TypeOK
  <2>2. DebitsMatch'
    BY <2>1 DEF RowsMatch, DebitsMatch, BeforeDebit
  <2>3. CreditsMatch'
    BY <2>1, DistinctAssumption DEF RowsMatch, CreditsMatch
  <2>4. HooksMatch'
    BY <2>1, DistinctAssumption, RequestAssumption DEF RowsMatch, HooksMatch
  <2>5. QED BY <2>2, <2>3, <2>4 DEF RowsMatch
<1>2. CASE ~PurchaseCommit(p)
  <2>1. /\ UNCHANGED row
        /\ pc[p] \in BeforeDebit
        /\ \E n \in BeforeDebit : pc' = [pc EXCEPT ![p] = n]
    <3>1. CASE PurchaseStart(p)
      BY <3>1, CheckedType DEF PurchaseStart, Arrives, Snapshot, BeforeDebit
    <3>2. CASE PurchaseInit(p)
      <4> DEFINE u == Upserted(wallet[StudentOf(p)], 0)
      <4>1. Snapshot(p, u, Checked(p, u)) /\ pc[p] = "init" /\ UNCHANGED row
        BY <3>2 DEF PurchaseInit
      <4> HIDE DEF u
      <4>2. QED BY <4>1, CheckedType DEF Snapshot, BeforeDebit
    <3>3. CASE PurchaseCap(p)
      BY <3>3 DEF PurchaseCap, BeforeDebit
    <3>4. CASE PurchaseRead(p)
      BY <3>4 DEF PurchaseRead, ReadBalance, BeforeDebit
    <3>5. QED BY <1>2, <3>1, <3>2, <3>3, <3>4 DEF Purchase
  <2>2. QED BY <1>0, <2>1, DistinctAssumption
            DEF RowsMatch, DebitsMatch, CreditsMatch, HooksMatch, TypeOK, BeforeDebit
<1>3. QED BY <1>1, <1>2

\* A top-up step keeps RowsMatch.
LEMMA TopUpRows ==
  ASSUME TypeOK, RowsMatch, NEW t \in TopUps, TopUp(t)
  PROVE  RowsMatch'
<1>0. t \in Handlers /\ t \in RowIds
  OBVIOUS
<1>1. CASE TopUpRow(t)
  <2>1. /\ pc[t] = "row"
        /\ \A r \in RowIds \ {t} : row'[r] = row[r]
        /\ row'[t].status = "PENDING"
        /\ row'[t].amount = TopUpOf[t].amount
        /\ pc'[t] = "ok"
        /\ \A h \in Handlers \ {t} : pc'[h] = pc[h]
    BY <1>0, <1>1 DEF TopUpRow, TypeOK
  <2>2. DebitsMatch'
    BY <2>1, DistinctAssumption DEF RowsMatch, DebitsMatch
  <2>3. CreditsMatch'
    BY <2>1 DEF RowsMatch, CreditsMatch, BeforeCredit
  <2>4. row[t].status = "NONE"
    BY <2>1 DEF RowsMatch, CreditsMatch, BeforeCredit
  <2>5. HooksMatch'
    BY <2>1, <2>4, DistinctAssumption, RequestAssumption
    DEF RowsMatch, HooksMatch
  <2>6. QED BY <2>2, <2>3, <2>5 DEF RowsMatch
<1>2. CASE ~TopUpRow(t)
  <2>1. /\ UNCHANGED row
        /\ pc[t] \in BeforeCredit
        /\ \E n \in BeforeCredit : pc' = [pc EXCEPT ![t] = n]
    BY <1>2 DEF TopUp, TopUpStart, TopUpInit, TopUpIntent, Arrives, Snapshot,
                BeforeCredit
  <2>2. QED BY <1>0, <2>1, DistinctAssumption
            DEF RowsMatch, DebitsMatch, CreditsMatch, HooksMatch, TypeOK, BeforeCredit
<1>3. QED BY <1>1, <1>2

\* A callback step keeps RowsMatch.
LEMMA HookRows ==
  ASSUME TypeOK, RowsMatch, NEW k \in Hooks, Hook(k)
  PROVE  RowsMatch'
<1> DEFINE t == HookRef[k]
<1>0. k \in Handlers /\ t \in TopUps /\ t \in RowIds
  BY RequestAssumption
<1>1. CASE HookStart(k)
  <2>1. row[t].status \in Statuses
    BY <1>0 DEF TypeOK, LedgerRows
  <2>2. QED BY <1>0, <1>1, <2>1, DistinctAssumption
            DEF HookStart, RowsMatch, DebitsMatch, CreditsMatch, HooksMatch, TypeOK, Statuses
<1>2. CASE HookRead(k)
  BY <1>0, <1>2, DistinctAssumption 
  DEF HookRead, ReadBalance, RowsMatch, DebitsMatch, CreditsMatch, HooksMatch, TypeOK
<1>3. CASE HookCommit(k)
  <2>1. /\ pc[k] = "commit"
        /\ \A r \in RowIds \ {t} : row'[r] = row[r]
        /\ row'[t].status = "COMPLETED"
        /\ row'[t].amount = row[t].amount
        /\ pc'[k] = "publish"
        /\ \A h \in Handlers \ {k} : pc'[h] = pc[h]
    BY <1>0, <1>3 DEF HookCommit, Post, TypeOK, LedgerRows
  <2>2. DebitsMatch'
    BY <2>1, DistinctAssumption, RequestAssumption DEF RowsMatch, DebitsMatch
  <2>3. CreditsMatch'
    BY <1>0, <2>1, DistinctAssumption
    DEF RowsMatch, CreditsMatch, HooksMatch, BeforeCredit
  <2>4. HooksMatch'
    BY <1>0, <2>1, RequestAssumption DEF RowsMatch, HooksMatch
  <2>5. QED BY <2>2, <2>3, <2>4 DEF RowsMatch
<1>4. QED BY <1>1, <1>2, <1>3 DEF Hook

\* The remaining steps keep RowsMatch.
LEMMA OtherRows ==
  ASSUME TypeOK, RowsMatch,
         \/ \E e \in Edits : Edit(e)
         \/ \E h \in Handlers : Publish(h) \/ Fail(h)
         \/ NextDay
         \/ UNCHANGED vars
  PROVE  RowsMatch'
<1>1. CASE \E e \in Edits : Edit(e)
  <2>1. PICK e \in Edits : Edit(e)
    BY <1>1
  <2>2. /\ UNCHANGED row
        /\ \A h \in Handlers \ {e} : pc'[h] = pc[h]
    BY <2>1 DEF Edit, EditStart, EditInit, EditWrite, Snapshot, TypeOK
  <2>3. QED BY <2>2, DistinctAssumption
            DEF RowsMatch, DebitsMatch, CreditsMatch, HooksMatch
<1>2. CASE \E h \in Handlers : Publish(h)
  BY <1>2 DEF Publish, RowsMatch, DebitsMatch, CreditsMatch, HooksMatch,
             TypeOK, BeforeDebit, BeforeCredit
<1>3. CASE \E h \in Handlers : Fail(h)
  BY <1>3 DEF Fail, RowsMatch, DebitsMatch, CreditsMatch, HooksMatch,
             TypeOK, BeforeDebit, BeforeCredit
<1>4. CASE NextDay \/ UNCHANGED vars
  BY <1>4 DEF NextDay, vars, RowsMatch, DebitsMatch, CreditsMatch, HooksMatch
<1>5. QED BY <1>1, <1>2, <1>3, <1>4

\* RowsMatch holds in every reachable state.
LEMMA RowsAlwaysMatch == Spec => []RowsMatch
<1>1. Init => RowsMatch
  BY RequestAssumption
  DEF Init, RowsMatch, DebitsMatch, CreditsMatch, HooksMatch, NoRow, BeforeDebit, BeforeCredit
<1>2. TypeOK /\ RowsMatch /\ [Next]_vars => RowsMatch'
  BY PurchaseRows, TopUpRows, HookRows, OtherRows DEF Next, Quiet
<1>3. QED BY <1>1, <1>2, TypeCorrect, PTL DEF Spec

\* No answer misleads the client: AnswersAreTrue holds in every reachable
\* state, for every number of handlers in flight.
THEOREM AnswersTheTruth == Spec => []AnswersAreTrue
<1>1. RowsMatch => AnswersAreTrue
  BY DEF RowsMatch, DebitsMatch, CreditsMatch, HooksMatch, AnswersAreTrue, BeforeDebit
<1>2. QED BY <1>1, RowsAlwaysMatch, PTL

-----------------------------------------------------------------------------
(* What one step can touch *)

\* A step of handler h.
StepOf(h) ==
  \/ h \in Purchases /\ Purchase(h)
  \/ h \in TopUps /\ TopUp(h)
  \/ h \in Hooks /\ Hook(h)
  \/ h \in Edits /\ Edit(h)
  \/ Publish(h)
  \/ Fail(h)

\* A handler moves itself only, touches the wallet of its own student only, and
\* when it comes to its commit it has just read the balance.
StepFrame(h) ==
  /\ pc[h] \in Active \/ Arrives(h)
  /\ \A g \in Handlers \ {h} : pc'[g] = pc[g] /\ read'[g] = read[g]
  /\ \A z \in Students \ {StudentOf(h)} : wallet'[z] = wallet[z]
  /\ pc'[h] = "commit" => read'[h] = wallet'[StudentOf(h)].balance
  /\ \A r \in RowIds : StudentOf(r) # StudentOf(h) => row'[r] = row[r]

\* A commit writes the wallet of its student and one of that student's rows.
LEMMA PostFrame ==
  ASSUME TypeOK, NEW h \in Handlers, NEW id \in RowIds, NEW b, NEW r,
         StudentOf(id) = StudentOf(h), Post(h, id, b, r), UNCHANGED read
  PROVE  /\ \A g \in Handlers \ {h} : pc'[g] = pc[g] /\ read'[g] = read[g]
         /\ \A z \in Students \ {StudentOf(h)} : wallet'[z] = wallet[z]
         /\ pc'[h] # "commit"
         /\ \A q \in RowIds : StudentOf(q) # StudentOf(h) => row'[q] = row[q]
  BY DEF Post, TypeOK

\* StepFrame for purchases.
LEMMA PurchaseFrame ==
  ASSUME TypeOK, NEW p \in Purchases, Purchase(p)
  PROVE  StepFrame(p)
<1>0. p \in Handlers /\ p \in RowIds
  OBVIOUS
<1>1. CASE PurchaseStart(p)
  <2> DEFINE w == wallet[StudentOf(p)]
             next == IF PurchaseOf[p].cart = <<>> THEN "refused"
                     ELSE IF w.exists THEN Checked(p, w) ELSE "init"
  <2>1. /\ Snapshot(p, w, next) /\ next # "commit" /\ Arrives(p)
        /\ UNCHANGED <<wallet, row, read>>
    BY <1>1, CheckedType DEF PurchaseStart
  <2> HIDE DEF w, next
  <2>2. QED BY <1>0, <2>1 DEF Snapshot, StepFrame, TypeOK
<1>2. CASE PurchaseInit(p)
  <2> DEFINE u == Upserted(wallet[StudentOf(p)], 0)
  <2>1. /\ Snapshot(p, u, Checked(p, u)) /\ Checked(p, u) # "commit"
        /\ wallet' = [wallet EXCEPT ![StudentOf(p)] = u]
        /\ pc[p] \in Active /\ UNCHANGED <<row, read>>
    BY <1>2, CheckedType DEF PurchaseInit, InitializeWallet, Active
  <2> HIDE DEF u
  <2>2. QED BY <1>0, <2>1 DEF Snapshot, StepFrame, TypeOK
<1>3. CASE PurchaseCap(p)
  BY <1>0, <1>3 DEF PurchaseCap, StepFrame, TypeOK, Active
<1>4. CASE PurchaseRead(p)
  BY <1>0, <1>4 DEF PurchaseRead, ReadBalance, StepFrame, TypeOK, Active
<1>5. CASE PurchaseCommit(p)
  <2> DEFINE b == read[p] - Cost(p)
             r == [status |-> "COMPLETED", amount |-> Cost(p),
                   balanceAfter |-> b, day |-> day]
  <2>1. Post(p, p, b, r) /\ UNCHANGED read /\ pc[p] \in Active
    BY <1>5 DEF PurchaseCommit, Active
  <2> HIDE DEF b, r
  <2>2. QED BY <1>0, <2>1, PostFrame DEF StepFrame
<1>6. QED BY <1>1, <1>2, <1>3, <1>4, <1>5 DEF Purchase

\* StepFrame for top-ups.
LEMMA TopUpFrame ==
  ASSUME TypeOK, NEW t \in TopUps, TopUp(t)
  PROVE  StepFrame(t)
<1>0. t \in Handlers /\ t \in RowIds
  OBVIOUS
<1>1. CASE TopUpStart(t)
  BY <1>0, <1>1 DEF TopUpStart, Snapshot, StepFrame, TypeOK
<1>2. CASE TopUpInit(t)
  BY <1>0, <1>2 DEF TopUpInit, InitializeWallet, Snapshot, StepFrame, TypeOK,
                    Active
<1>3. CASE TopUpIntent(t)
  BY <1>0, <1>3 DEF TopUpIntent, StepFrame, TypeOK, Active
<1>4. CASE TopUpRow(t)
  BY <1>0, <1>4 DEF TopUpRow, StepFrame, TypeOK, Active
<1>5. QED BY <1>1, <1>2, <1>3, <1>4 DEF TopUp

\* StepFrame for callbacks.
LEMMA HookFrame ==
  ASSUME TypeOK, NEW k \in Hooks, Hook(k)
  PROVE  StepFrame(k)
<1> DEFINE t == HookRef[k]
<1>0. k \in Handlers /\ t \in RowIds
  BY RequestAssumption
<1>1. CASE HookStart(k)
  BY <1>0, <1>1 DEF HookStart, StepFrame, TypeOK
<1>2. CASE HookRead(k)
  BY <1>0, <1>2 DEF HookRead, ReadBalance, StepFrame, TypeOK, Active
<1>3. CASE HookCommit(k)
  <2> DEFINE b == read[k] + TopUpOf[t].amount
             r == [row[t] EXCEPT !.status = "COMPLETED", !.balanceAfter = b]
  <2>1. Post(k, t, b, r) /\ UNCHANGED read /\ pc[k] \in Active
    BY <1>3 DEF HookCommit, Active
  <2> HIDE DEF b, r
  <2>2. QED BY <1>0, <2>1, HookStudent, PostFrame DEF StepFrame
<1>4. QED BY <1>1, <1>2, <1>3 DEF Hook

\* StepFrame for edits.
LEMMA EditFrame ==
  ASSUME TypeOK, NEW e \in Edits, Edit(e)
  PROVE  StepFrame(e)
<1>0. e \in Handlers
  OBVIOUS
<1>1. CASE EditStart(e)
  BY <1>0, <1>1 DEF EditStart, Snapshot, StepFrame, TypeOK
<1>2. CASE EditInit(e)
  BY <1>0, <1>2 DEF EditInit, InitializeWallet, Snapshot, StepFrame, TypeOK,
                    Active
<1>3. CASE EditWrite(e)
  BY <1>0, <1>3 DEF EditWrite, StepFrame, TypeOK, Active
<1>4. QED BY <1>1, <1>2, <1>3 DEF Edit

\* Every step of the system is a step of one handler within its frame, or
\* leaves everything but the day alone.
LEMMA EveryStep ==
  ASSUME TypeOK, [Next]_vars
  PROVE  \/ \E h \in Handlers : StepOf(h) /\ StepFrame(h)
         \/ UNCHANGED <<wallet, row, intents, pc, snap, read, posted>>
<1>1. ASSUME NEW h \in Handlers, Publish(h) \/ Fail(h)
      PROVE  StepOf(h) /\ StepFrame(h)
  BY <1>1 DEF Publish, Fail, StepOf, StepFrame, TypeOK, Active
<1>2. CASE NextDay \/ UNCHANGED vars
  BY <1>2 DEF NextDay, vars
<1>3. ASSUME NEW p \in Purchases, Purchase(p)
      PROVE  p \in Handlers /\ StepOf(p) /\ StepFrame(p)
  BY <1>3, PurchaseFrame DEF StepOf
<1>4. ASSUME NEW t \in TopUps, TopUp(t)
      PROVE  t \in Handlers /\ StepOf(t) /\ StepFrame(t)
  BY <1>4, TopUpFrame DEF StepOf
<1>5. ASSUME NEW k \in Hooks, Hook(k)
      PROVE  k \in Handlers /\ StepOf(k) /\ StepFrame(k)
  BY <1>5, HookFrame DEF StepOf
<1>6. ASSUME NEW e \in Edits, Edit(e)
      PROVE  e \in Handlers /\ StepOf(e) /\ StepFrame(e)
  BY <1>6, EditFrame DEF StepOf
<1>7. QED BY <1>1, <1>2, <1>3, <1>4, <1>5, <1>6 DEF Next, Quiet

-----------------------------------------------------------------------------
(* Handlers that work on a wallet find it there *)

Opened == {"cap", "read", "commit", "publish", "intent", "row", "write"}

WalletsExist ==
  /\ \A s \in Students : ~wallet[s].exists => wallet[s].balance = 0
  /\ \A h \in Handlers \ Hooks :
       pc[h] \in Opened => wallet[StudentOf(h)].exists
  /\ \A t \in intents : wallet[StudentOf(t)].exists
  /\ \A k \in Hooks : pc[k] \in Opened => HookRef[k] \in intents

\* What a step must do to keep WalletsExist.
LEMMA ExistsKept ==
  ASSUME TypeOK, WalletsExist, NEW h \in Handlers, StepFrame(h),
         wallet[StudentOf(h)].exists => wallet'[StudentOf(h)].exists,
         ~wallet'[StudentOf(h)].exists => wallet'[StudentOf(h)].balance = 0,
         h \notin Hooks /\ pc'[h] \in Opened => wallet'[StudentOf(h)].exists,
         h \in Hooks /\ pc'[h] \in Opened => HookRef[h] \in intents',
         intents \subseteq intents',
         \A t \in intents' \ intents : t = h /\ wallet'[StudentOf(h)].exists
  PROVE  WalletsExist'
<1>0. /\ \A g \in Handlers : StudentOf(g) \in Students
      /\ \A t \in intents : t \in Handlers
  BY StudentType DEF TypeOK
<1>1. \A s \in Students : wallet[s].exists => wallet'[s].exists
  BY DEF StepFrame
<1>2. \A s \in Students : ~wallet'[s].exists => wallet'[s].balance = 0
  BY DEF StepFrame, WalletsExist
<1>3. \A g \in Handlers \ Hooks :
        pc'[g] \in Opened => wallet'[StudentOf(g)].exists
  BY <1>0, <1>1 DEF StepFrame, WalletsExist
<1>4. \A t \in intents' : wallet'[StudentOf(t)].exists
  BY <1>0, <1>1 DEF WalletsExist
<1>5. \A k \in Hooks : pc'[k] \in Opened => HookRef[k] \in intents'
  BY DEF StepFrame, WalletsExist
<1>6. QED BY <1>2, <1>3, <1>4, <1>5 DEF WalletsExist, StudentOf

\* Every step keeps WalletsExist, and one that is not a commit keeps balances.
LEMMA ExistsStep ==
  ASSUME TypeOK, WalletsExist, RowsMatch, NEW h \in Handlers, StepOf(h),
         StepFrame(h)
  PROVE  /\ WalletsExist'
         /\ \/ h \in Purchases /\ PurchaseCommit(h)
            \/ h \in Hooks /\ HookCommit(h)
            \/ wallet'[StudentOf(h)].balance = wallet[StudentOf(h)].balance
<1> DEFINE s == StudentOf(h)
           w == wallet[s]
<1>0. /\ s \in Students /\ w \in WalletRows
      /\ ~w.exists => w.balance = 0
  BY StudentType DEF TypeOK, WalletsExist
<1>1. CASE Publish(h) \/ Fail(h)
  <2>1. /\ UNCHANGED <<wallet, intents>>
        /\ pc'[h] \notin Opened
    BY <1>1 DEF Publish, Fail, TypeOK, Opened
  <2>2. QED BY <1>0, <2>1, ExistsKept
<1>2. CASE h \in Purchases /\ Purchase(h)
  <2>1. CASE PurchaseInit(h)
    <3> DEFINE u == Upserted(w, 0)
    <3>1. u.exists /\ u.balance = w.balance
      BY <1>0, UpsertedType
    <3>2. wallet' = [wallet EXCEPT ![s] = u] /\ UNCHANGED intents
      BY <2>1 DEF PurchaseInit, InitializeWallet
    <3> HIDE DEF u
    <3>3. wallet'[s] = u
      BY <1>0, <3>2 DEF TypeOK
    <3>4. QED BY <1>0, <1>2, <3>1, <3>2, <3>3, ExistsKept, DistinctAssumption
  <2>2. CASE PurchaseCommit(h)
    <3>1. /\ wallet' = [wallet EXCEPT ![s].balance = read[h] - Cost(h)]
          /\ w.exists /\ UNCHANGED intents
      BY <1>2, <2>2, DistinctAssumption
      DEF PurchaseCommit, Post, WalletsExist, Opened
    <3>2. wallet'[s].exists
      BY <1>0, <3>1 DEF TypeOK, WalletRows
    <3>3. QED BY <1>2, <2>2, <3>1, <3>2, ExistsKept, DistinctAssumption
  <2>3. CASE PurchaseStart(h) \/ PurchaseCap(h) \/ PurchaseRead(h)
    <3>1. UNCHANGED <<wallet, intents>>
      BY <2>3 DEF PurchaseStart, PurchaseCap, PurchaseRead
    <3>2. pc'[h] \in Opened => w.exists
      <4>1. CASE PurchaseStart(h)
        BY <4>1, CheckedType DEF PurchaseStart, Snapshot, Opened, TypeOK
      <4>2. CASE PurchaseCap(h) \/ PurchaseRead(h)
        BY <4>2, <1>2, DistinctAssumption
        DEF PurchaseCap, PurchaseRead, WalletsExist, Opened
      <4>3. QED BY <2>3, <4>1, <4>2
    <3>3. QED BY <1>0, <1>2, <3>1, <3>2, ExistsKept, DistinctAssumption
  <2>4. QED BY <1>2, <2>1, <2>2, <2>3 DEF Purchase
<1>3. CASE h \in TopUps /\ TopUp(h)
  <2>1. CASE TopUpInit(h)
    <3> DEFINE u == Upserted(w, 0)
    <3>1. u.exists /\ u.balance = w.balance
      BY <1>0, UpsertedType
    <3>2. wallet' = [wallet EXCEPT ![s] = u] /\ UNCHANGED intents
      BY <2>1 DEF TopUpInit, InitializeWallet
    <3> HIDE DEF u
    <3>3. wallet'[s] = u
      BY <1>0, <3>2 DEF TypeOK
    <3>4. QED BY <1>0, <1>3, <3>1, <3>2, <3>3, ExistsKept, DistinctAssumption
  <2>2. CASE TopUpStart(h)
    <3>1. UNCHANGED <<wallet, intents>> /\ (pc'[h] \in Opened => w.exists)
      BY <2>2 DEF TopUpStart, Snapshot, Opened, TypeOK
    <3>2. QED BY <1>0, <1>3, <3>1, ExistsKept, DistinctAssumption
  <2>3. CASE TopUpIntent(h) \/ TopUpRow(h)
    <3>1. /\ UNCHANGED wallet /\ intents \subseteq intents'
          /\ \A t \in intents' \ intents : t = h
          /\ w.exists
      BY <1>3, <2>3, DistinctAssumption
      DEF TopUpIntent, TopUpRow, WalletsExist, Opened
    <3>2. QED BY <1>0, <1>3, <3>1, ExistsKept, DistinctAssumption
  <2>4. QED BY <1>3, <2>1, <2>2, <2>3 DEF TopUp
<1>4. CASE h \in Hooks /\ Hook(h)
  <2>1. UNCHANGED intents /\ HookRef[h] \in intents
    BY <1>4 DEF Hook, HookStart, HookRead, HookCommit, WalletsExist, Opened
  <2>2. w.exists
    BY <1>4, <2>1, HookStudent DEF WalletsExist
  <2>3. CASE HookCommit(h)
    <3>1. wallet' = [wallet EXCEPT ![s].balance =
                       read[h] + TopUpOf[HookRef[h]].amount]
      BY <2>3 DEF HookCommit, Post
    <3>2. wallet'[s].exists
      BY <1>0, <2>2, <3>1 DEF TypeOK, WalletRows
    <3>3. QED BY <1>4, <2>1, <2>3, <3>2, ExistsKept
  <2>4. CASE ~HookCommit(h)
    <3>1. UNCHANGED wallet
      BY <1>4, <2>4 DEF Hook, HookStart, HookRead
    <3>2. QED BY <1>0, <1>4, <2>1, <2>2, <3>1, ExistsKept
  <2>5. QED BY <2>3, <2>4
<1>5. CASE h \in Edits /\ Edit(h)
  <2>1. UNCHANGED intents
    BY <1>5 DEF Edit, EditStart, EditInit, EditWrite
  <2>2. CASE EditStart(h)
    <3>1. UNCHANGED wallet /\ (pc'[h] \in Opened => w.exists)
      BY <2>2 DEF EditStart, Snapshot, Opened, TypeOK
    <3>2. QED BY <1>0, <1>5, <2>1, <3>1, ExistsKept, DistinctAssumption
  <2>3. CASE EditInit(h)
    <3> DEFINE limit == Given(EditOf[h].dailyLimit, 0)
               u == Upserted(w, limit)
    <3>0. limit \in Nat
      BY <1>5, RequestAssumption DEF Given, NoChange
    <3>1. wallet' = [wallet EXCEPT ![s] = u]
      BY <2>3 DEF EditInit, InitializeWallet
    <3> HIDE DEF limit
    <3>2. u.exists /\ u.balance = w.balance
      BY <1>0, <3>0, UpsertedType
    <3> HIDE DEF u
    <3>3. wallet'[s] = u
      BY <1>0, <3>1 DEF TypeOK
    <3>4. QED BY <1>0, <1>5, <2>1, <3>2, <3>3, ExistsKept, DistinctAssumption
  <2>4. CASE EditWrite(h)
    <3>1. wallet' = [wallet EXCEPT ![s] = Edited(w, h)] /\ w.exists
      BY <1>5, <2>4, DistinctAssumption DEF EditWrite, WalletsExist, Opened
    <3>2. wallet'[s] = Edited(w, h)
      BY <1>0, <3>1 DEF TypeOK
    <3>3. wallet'[s].exists /\ wallet'[s].balance = w.balance
      BY <1>0, <1>5, <3>1, <3>2, EditedType
    <3>4. QED BY <1>0, <1>5, <2>1, <3>3, ExistsKept, DistinctAssumption
  <2>5. QED BY <1>5, <2>2, <2>3, <2>4 DEF Edit
<1>6. QED BY <1>1, <1>2, <1>3, <1>4, <1>5 DEF StepOf

-----------------------------------------------------------------------------
(* The head of the ledger is the balance, at any degree of concurrency *)

\* The history of a wallet holds completed rows of that wallet.
PostedRows ==
  \A s \in Students : \A i \in 1..Len(posted[s]) :
    /\ StudentOf(posted[s][i]) = s
    /\ row[posted[s][i]].status = "COMPLETED"

\* A step that moves no balance and rewrites no completed row.
Keeps ==
  /\ \A s \in Students : wallet'[s].balance = wallet[s].balance
  /\ \A r \in RowIds : row[r].status = "COMPLETED" => row'[r] = row[r]
  /\ UNCHANGED posted

\* A commit of handler h: it posts balance b with the ledger row r.
Commits(h, id, b, r) ==
  /\ pc[h] = "commit"
  /\ StudentOf(id) = StudentOf(h)
  /\ Post(h, id, b, r)
  /\ r.status = "COMPLETED" /\ r.balanceAfter = b
  /\ \/ h \in Purchases /\ id = h /\ b = read[h] - r.amount
     \/ h \in Hooks /\ id = HookRef[h] /\ b = read[h] + r.amount

Matches == TypeOK /\ RowsMatch /\ WalletsExist

\* A step commits or keeps the ledger.
LEMMA StepKinds ==
  ASSUME Matches, NEW h \in Handlers, StepOf(h), StepFrame(h)
  PROVE  \/ Keeps
         \/ \E id \in RowIds, b \in Int, r \in LedgerRows : Commits(h, id, b, r)
<1>0. /\ TypeOK /\ RowsMatch
      /\ \/ h \in Purchases /\ PurchaseCommit(h)
         \/ h \in Hooks /\ HookCommit(h)
         \/ wallet'[StudentOf(h)].balance = wallet[StudentOf(h)].balance
  BY ExistsStep DEF Matches
<1>1. CASE h \in Purchases /\ PurchaseCommit(h)
  <2> DEFINE b == read[h] - Cost(h)
             r == [status |-> "COMPLETED", amount |-> Cost(h),
                   balanceAfter |-> b, day |-> day]
  <2>1. b \in Int /\ r \in LedgerRows
    BY <1>0, <1>1, CostType DEF TypeOK, LedgerRows, Statuses
  <2>2. Commits(h, h, b, r)
    BY <1>1 DEF PurchaseCommit, Commits
  <2> HIDE DEF b, r
  <2>3. QED BY <1>1, <2>1, <2>2
<1>2. CASE h \in Hooks /\ HookCommit(h)
  <2> DEFINE t == HookRef[h]
             b == read[h] + TopUpOf[t].amount
             r == [row[t] EXCEPT !.status = "COMPLETED", !.balanceAfter = b]
  <2>1. /\ t \in TopUps /\ row[t] \in LedgerRows /\ b \in Int
        /\ pc[h] = "commit" /\ Post(h, t, b, r)
    BY <1>0, <1>2, RequestAssumption DEF HookCommit, TypeOK
  <2>2. row[t].amount = TopUpOf[t].amount
    BY <1>0, <1>2, <2>1 DEF RowsMatch, CreditsMatch, HooksMatch
  <2>3. /\ r \in LedgerRows /\ r.status = "COMPLETED" /\ r.balanceAfter = b
        /\ r.amount = TopUpOf[t].amount
    <3> HIDE DEF b, t
    <3>1. QED BY <2>1, <2>2 DEF LedgerRows, Statuses
  <2>4. StudentOf(t) = StudentOf(h)
    BY <1>2, HookStudent
  <2> HIDE DEF r
  <2>5. Commits(h, t, b, r)
    BY <1>2, <2>1, <2>3, <2>4 DEF Commits
  <2>6. QED BY <2>1, <2>3, <2>5
<1>3. CASE /\ ~(h \in Purchases /\ PurchaseCommit(h))
           /\ ~(h \in Hooks /\ HookCommit(h))
  <2>1. \A s \in Students : wallet'[s].balance = wallet[s].balance
    BY <1>0, <1>3 DEF StepFrame
  <2>2. UNCHANGED posted
    BY <1>3 DEF StepOf, Purchase, PurchaseStart, PurchaseInit, PurchaseCap,
                PurchaseRead, TopUp, TopUpStart, TopUpInit, TopUpIntent,
                TopUpRow, Hook, HookStart, HookRead, Edit, EditStart, EditInit,
                EditWrite, Publish, Fail
  <2>3. CASE h \in TopUps /\ TopUpRow(h)
    <3>1. row[h].status = "NONE"
      BY <1>0, <2>3 DEF TopUpRow, RowsMatch, CreditsMatch, BeforeCredit
    <3>2. QED BY <1>0, <2>1, <2>2, <2>3, <3>1 DEF TopUpRow, Keeps, TypeOK
  <2>4. CASE ~(h \in TopUps /\ TopUpRow(h))
    <3>1. UNCHANGED row
      BY <1>3, <2>4 DEF StepOf, Purchase, PurchaseStart, PurchaseInit,
                    PurchaseCap, PurchaseRead, TopUp, TopUpStart, TopUpInit,
                    TopUpIntent, Hook, HookStart, HookRead, Edit, EditStart,
                    EditInit, EditWrite, Publish, Fail
    <3>2. QED BY <2>1, <2>2, <3>1 DEF Keeps
  <2>5. QED BY <2>3, <2>4
<1>4. QED BY <1>1, <1>2, <1>3

\* Appending to the history of one wallet.
LEMMA PostedAppend ==
  ASSUME TypeOK, NEW h \in Handlers, NEW id \in RowIds, NEW b, NEW r,
         Post(h, id, b, r)
  PROVE  LET s == StudentOf(h)
             n == Len(posted[s])
         IN  /\ s \in Students /\ n \in Nat
             /\ Len(posted'[s]) = n + 1
             /\ posted'[s][n + 1] = id
             /\ \A i \in 1..n : posted'[s][i] = posted[s][i]
             /\ \A i \in 1..n : posted[s][i] \in RowIds
             /\ \A z \in Students \ {s} : posted'[z] = posted[z]
             /\ wallet'[s].balance = b
             /\ row'[id] = r
             /\ \A q \in RowIds \ {id} : row'[q] = row[q]
             /\ \A z \in Students \ {s} : wallet'[z] = wallet[z]
<1> DEFINE s == StudentOf(h)
           n == Len(posted[s])
<1>1. s \in Students /\ posted[s] \in Seq(RowIds)
  BY StudentType DEF TypeOK
<1>2. posted'[s] = Append(posted[s], id)
  BY <1>1 DEF Post, TypeOK
<1>3. /\ n \in Nat /\ Len(posted'[s]) = n + 1 /\ posted'[s][n + 1] = id
      /\ \A i \in 1..n : posted'[s][i] = posted[s][i] /\ posted[s][i] \in RowIds
  BY <1>1, <1>2
<1>4. wallet'[s].balance = b
  BY <1>1 DEF Post, TypeOK, WalletRows
<1>5. QED BY <1>1, <1>3, <1>4 DEF Post, TypeOK

Headed == Matches /\ PostedRows /\ LedgerHead

\* A commit keeps the head of the ledger.
LEMMA CommitHeaded ==
  ASSUME Headed, NEW h \in Handlers, NEW id \in RowIds, NEW b \in Int,
         NEW r \in LedgerRows, Commits(h, id, b, r)
  PROVE  PostedRows' /\ LedgerHead'
<1> DEFINE s == StudentOf(h)
           n == Len(posted[s])
<1>0. /\ TypeOK /\ Post(h, id, b, r) /\ StudentOf(id) = s
      /\ r.status = "COMPLETED" /\ r.balanceAfter = b
  BY DEF Headed, Matches, Commits
<1>1. /\ s \in Students /\ n \in Nat
      /\ Len(posted'[s]) = n + 1 /\ posted'[s][n + 1] = id
      /\ \A i \in 1..n : posted'[s][i] = posted[s][i]
      /\ \A i \in 1..n : posted[s][i] \in RowIds
      /\ \A z \in Students \ {s} : posted'[z] = posted[z]
      /\ wallet'[s].balance = b /\ row'[id] = r
      /\ \A q \in RowIds \ {id} : row'[q] = row[q]
      /\ \A z \in Students \ {s} : wallet'[z] = wallet[z]
  BY <1>0, PostedAppend
<1>2. ASSUME NEW z \in Students \ {s}, NEW i \in 1..Len(posted[z])
      PROVE  posted[z][i] \in RowIds \ {id}
  <2>1. posted[z] \in Seq(RowIds)
    BY <1>0 DEF TypeOK
  <2>2. posted[z][i] \in RowIds
    BY <2>1
  <2>3. StudentOf(posted[z][i]) = z
    BY DEF Headed, PostedRows
  <2>4. QED BY <1>0, <2>2, <2>3
<1>3. PostedRows'
  <2>1. ASSUME NEW z \in Students, NEW i \in 1..Len(posted'[z])
        PROVE  /\ StudentOf(posted'[z][i]) = z
               /\ row'[posted'[z][i]].status = "COMPLETED"
    <3>1. CASE z # s
      BY <1>1, <1>2, <2>1, <3>1 DEF Headed, PostedRows
    <3>2. CASE z = s /\ i = n + 1
      BY <1>0, <1>1, <3>2
    <3>3. CASE z = s /\ i \in 1..n
      BY <1>0, <1>1, <3>3 DEF Headed, PostedRows
    <3>4. QED BY <1>1, <2>1, <3>1, <3>2, <3>3
  <2>2. QED BY <2>1 DEF PostedRows, StudentOf
<1>4. LedgerHead'
  <2>1. ASSUME NEW z \in Students
        PROVE  wallet'[z].balance = BalanceAfter(z, Len(posted[z]))'
    <3>1. CASE z = s
      BY <1>0, <1>1, <3>1 DEF BalanceAfter
    <3>2. CASE z # s
      <4>1. Len(posted[z]) \in Nat
        BY <1>0 DEF TypeOK
      <4>2. CASE Len(posted[z]) = 0
        BY <1>1, <3>2, <4>2 DEF Headed, LedgerHead, BalanceAfter
      <4>3. CASE Len(posted[z]) # 0
        <5>1. Len(posted[z]) \in 1..Len(posted[z])
          BY <4>1, <4>3
        <5>2. QED BY <1>1, <1>2, <3>2, <4>3, <5>1
                  DEF Headed, LedgerHead, BalanceAfter
      <4>4. QED BY <4>2, <4>3
    <3>3. QED BY <3>1, <3>2
  <2>2. QED BY <2>1 DEF LedgerHead
<1>5. QED BY <1>3, <1>4

\* A step that keeps the ledger keeps its head.
LEMMA KeepsHeaded ==
  ASSUME Headed, Keeps
  PROVE  PostedRows' /\ LedgerHead'
<1>1. \A s \in Students : posted[s] \in Seq(RowIds)
  BY DEF Headed, Matches, TypeOK
<1>2. \A s \in Students : \A i \in 1..Len(posted[s]) :
        row'[posted[s][i]] = row[posted[s][i]]
  BY <1>1 DEF Headed, PostedRows, Keeps
<1>3. PostedRows'
  BY <1>2 DEF Headed, PostedRows, Keeps, StudentOf
<1>4. LedgerHead'
  <2>1. ASSUME NEW s \in Students
        PROVE  BalanceAfter(s, Len(posted[s]))' = BalanceAfter(s, Len(posted[s]))
    <3>1. Len(posted[s]) \in Nat
      BY <1>1
    <3>2. CASE Len(posted[s]) = 0
      BY <3>2 DEF BalanceAfter, Keeps
    <3>3. CASE Len(posted[s]) # 0
      <4>1. Len(posted[s]) \in 1..Len(posted[s])
        BY <3>1, <3>3
      <4>2. QED BY <1>2, <3>3, <4>1 DEF BalanceAfter, Keeps
    <3>4. QED BY <3>2, <3>3
  <2>2. QED BY <2>1 DEF Headed, LedgerHead, Keeps
<1>5. QED BY <1>3, <1>4

\* A step of Next either commits, or keeps the ledger.
LEMMA NextKinds ==
  ASSUME Matches, [Next]_vars
  PROVE  \/ Keeps
         \/ \E h \in Handlers, id \in RowIds, b \in Int, r \in LedgerRows :
              /\ Commits(h, id, b, r)
              /\ StepOf(h) /\ StepFrame(h)
<1>1. CASE UNCHANGED <<wallet, row, intents, pc, snap, read, posted>>
  BY <1>1 DEF Keeps
<1>2. CASE \E h \in Handlers : StepOf(h) /\ StepFrame(h)
  BY <1>2, StepKinds
<1>3. QED BY <1>1, <1>2, EveryStep DEF Matches

\* Types, rows and wallets match in every reachable state.
LEMMA AlwaysMatches == Spec => []Matches
<1>1. Init => WalletsExist
  BY OpeningAssumption DEF Init, WalletsExist, Opened
<1>2. TypeOK /\ RowsMatch /\ WalletsExist /\ [Next]_vars => WalletsExist'
  <2> SUFFICES ASSUME TypeOK, RowsMatch, WalletsExist, [Next]_vars
               PROVE  WalletsExist'
    OBVIOUS
  <2>1. CASE UNCHANGED <<wallet, row, intents, pc, snap, read, posted>>
    BY <2>1 DEF WalletsExist, StudentOf
  <2>2. CASE \E h \in Handlers : StepOf(h) /\ StepFrame(h)
    BY <2>2, ExistsStep
  <2>3. QED BY <2>1, <2>2, EveryStep
<1>3. QED BY <1>1, <1>2, TypeCorrect, RowsAlwaysMatch, PTL DEF Spec, Matches

\* Headed is inductive.
LEMMA AlwaysHeaded == Spec => []Headed
<1>1. Init => PostedRows /\ LedgerHead
  BY DEF Init, PostedRows, LedgerHead, BalanceAfter
<1>2. Headed /\ [Next]_vars => (PostedRows /\ LedgerHead)'
  BY NextKinds, KeepsHeaded, CommitHeaded DEF Headed
<1>3. QED BY <1>1, <1>2, AlwaysMatches, PTL DEF Spec, Headed

\* The cached balance is the balanceAfter of the last row posted: LedgerHead
\* holds in every reachable state, for every number of handlers in flight.
THEOREM BalanceIsLastPosted == Spec => []LedgerHead
<1>1. Headed => LedgerHead
  BY DEF Headed
<1>2. QED BY <1>1, AlwaysHeaded, PTL

-----------------------------------------------------------------------------
(* When handlers of one wallet do not overlap, no movement is lost *)

\* At most one handler is in flight on a wallet.
Alone ==
  \A g, h \in Handlers :
    StudentOf(g) = StudentOf(h) /\ pc[g] \in Active /\ pc[h] \in Active
      => g = h

\* What a transaction is about to write from is the balance, and a callback
\* that is about to credit finds its row pending.
Fresh ==
  /\ \A h \in Handlers : pc[h] = "commit" =>
                         read[h] = wallet[StudentOf(h)].balance
  /\ \A k \in Hooks : pc[k] \in {"read", "commit"} =>
                      row[HookRef[k]].status = "PENDING"

Serial == Headed /\ Alone /\ Fresh /\ LedgerChain /\ PostedOnce

\* With room for one handler, one that arrives finds nobody in flight.
LEMMA ArrivesAlone ==
  ASSUME MaxInFlight = 1, TypeOK, NEW h \in Handlers, Arrives(h)
  PROVE  \A g \in Handlers : StudentOf(g) = StudentOf(h) => pc[g] \notin Active
<1> DEFINE S == InFlight(StudentOf(h))
<1>1. IsFiniteSet(S)
  BY BoundAssumption, FS_Subset DEF InFlight
<1>2. Cardinality(S) = 0
  BY <1>1, FS_CardinalityType DEF Arrives
<1>3. S = {}
  BY <1>1, <1>2, FS_EmptySet
<1>4. QED BY <1>3 DEF InFlight

\* A step finds nobody else in flight on its wallet, and leaves it so.
LEMMA AloneStep ==
  ASSUME MaxInFlight = 1, TypeOK, Alone, NEW h \in Handlers, StepFrame(h)
  PROVE  /\ \A g \in Handlers \ {h} :
              StudentOf(g) = StudentOf(h) => pc[g] \notin Active
         /\ Alone'
<1>1. \A g \in Handlers \ {h} :
        StudentOf(g) = StudentOf(h) => pc[g] \notin Active
  BY ArrivesAlone DEF StepFrame, Alone
<1>2. Alone'
  BY <1>1 DEF StepFrame, Alone, StudentOf
<1>3. QED BY <1>1, <1>2

\* A step keeps Fresh.
LEMMA FreshStep ==
  ASSUME MaxInFlight = 1, Headed, Alone, Fresh, NEW h \in Handlers, StepOf(h),
         StepFrame(h)
  PROVE  Fresh'
<1>0. /\ TypeOK /\ RowsMatch
      /\ \A g \in Handlers \ {h} :
           StudentOf(g) = StudentOf(h) => pc[g] \notin Active
  BY AloneStep DEF Headed, Matches
<1>1. ASSUME NEW g \in Handlers, pc'[g] = "commit"
      PROVE  read'[g] = wallet'[StudentOf(g)].balance
  <2>1. CASE g = h
    BY <1>1, <2>1 DEF StepFrame
  <2>2. CASE g # h
    <3>1. StudentOf(g) # StudentOf(h) /\ StudentOf(g) \in Students
      BY <1>0, <1>1, <2>2, StudentType DEF StepFrame, Active
    <3>2. QED BY <1>1, <2>2, <3>1 DEF StepFrame, Fresh
  <2>3. QED BY <2>1, <2>2
<1>2. ASSUME NEW k \in Hooks, pc'[k] \in {"read", "commit"}
      PROVE  row'[HookRef[k]].status = "PENDING"
  <2>0. HookRef[k] \in RowIds /\ StudentOf(HookRef[k]) = StudentOf(k)
    BY RequestAssumption, HookStudent
  <2>1. CASE k # h
    <3>1. StudentOf(k) # StudentOf(h)
      BY <1>0, <1>2, <2>1 DEF StepFrame, Active
    <3>2. QED BY <1>2, <2>0, <2>1, <3>1 DEF StepFrame, Fresh
  <2>2. CASE k = h
    <3>1. Hook(k)
      BY <1>0, <1>2, <2>2, DistinctAssumption DEF StepOf, Publish, Fail, TypeOK
    <3>2. CASE HookStart(k)
      <4>1. row[HookRef[k]].status \in Statuses
        BY <1>0, <2>0 DEF TypeOK, LedgerRows
      <4>2. QED BY <1>0, <1>2, <3>2, <4>1 DEF HookStart, TypeOK, Statuses
    <3>3. CASE HookRead(k)
      BY <1>0, <3>3 DEF HookRead, Fresh
    <3>4. CASE HookCommit(k)
      BY <1>0, <1>2, <3>4 DEF HookCommit, Post, TypeOK
    <3>5. QED BY <3>1, <3>2, <3>3, <3>4 DEF Hook
  <2>3. QED BY <2>1, <2>2
<1>3. QED BY <1>1, <1>2 DEF Fresh, StudentOf

\* A serial commit posts a row that is not completed yet.
LEMMA CommitNew ==
  ASSUME Headed, Fresh, NEW h \in Handlers, NEW id \in RowIds,
         NEW b \in Int, NEW r \in LedgerRows, Commits(h, id, b, r)
  PROVE  row[id].status # "COMPLETED"
<1>1. CASE h \in Purchases /\ id = h
  BY <1>1 DEF Commits, Headed, Matches, RowsMatch, DebitsMatch, BeforeDebit
<1>2. CASE h \in Hooks /\ id = HookRef[h]
  BY <1>2 DEF Commits, Fresh
<1>3. QED BY <1>1, <1>2 DEF Commits

\* A serial commit keeps the chain of the ledger and posts its row once.
LEMMA CommitChain ==
  ASSUME Headed, Fresh, LedgerChain, PostedOnce, NEW h \in Handlers,
         NEW id \in RowIds, NEW b \in Int, NEW r \in LedgerRows,
         Commits(h, id, b, r)
  PROVE  LedgerChain' /\ PostedOnce'
<1> DEFINE s == StudentOf(h)
           n == Len(posted[s])
           After(z, i) == IF i = 0 THEN Opening[z].balance
                          ELSE row'[posted'[z][i]].balanceAfter
           Amount(q) == IF q \in Purchases THEN -row'[q].amount
                        ELSE row'[q].amount
<1>0. /\ TypeOK /\ Post(h, id, b, r) /\ StudentOf(id) = s
      /\ r.status = "COMPLETED" /\ r.balanceAfter = b
      /\ row[id].status # "COMPLETED"
  BY CommitNew DEF Headed, Matches, Commits
<1>1. /\ s \in Students /\ n \in Nat
      /\ Len(posted'[s]) = n + 1 /\ posted'[s][n + 1] = id
      /\ \A i \in 1..n : posted'[s][i] = posted[s][i]
      /\ \A i \in 1..n : posted[s][i] \in RowIds
      /\ \A z \in Students \ {s} : posted'[z] = posted[z]
      /\ row'[id] = r
      /\ \A q \in RowIds \ {id} : row'[q] = row[q]
  BY <1>0, PostedAppend
\* Rows posted before are other rows, and they stay as they are.
<1>2. ASSUME NEW z \in Students, NEW i \in 1..Len(posted[z])
      PROVE  /\ posted[z][i] \in RowIds \ {id}
             /\ row'[posted[z][i]] = row[posted[z][i]]
             /\ posted'[z][i] = posted[z][i]
  <2>1. posted[z] \in Seq(RowIds) /\ posted[z][i] \in RowIds
    BY <1>0 DEF TypeOK
  <2>2. row[posted[z][i]].status = "COMPLETED"
    BY DEF Headed, PostedRows
  <2>3. QED BY <1>0, <1>1, <2>1, <2>2
<1>3. ASSUME NEW z \in Students, NEW i \in 0..Len(posted[z])
      PROVE  After(z, i) = BalanceAfter(z, i)
  <2>1. CASE i = 0
    BY <2>1 DEF BalanceAfter
  <2>2. CASE i # 0
    <3>1. i \in 1..Len(posted[z])
      BY <1>0, <2>2 DEF TypeOK
    <3>2. QED BY <1>2, <2>2, <3>1 DEF BalanceAfter
  <2>3. QED BY <2>1, <2>2
<1>4. After(s, n) = read[h]
  <2>1. n \in 0..Len(posted[s])
    BY <1>1
  <2>2. QED BY <1>1, <1>3, <2>1 DEF Fresh, Commits, Headed, LedgerHead
<1>5. After(s, n + 1) = After(s, n) + Amount(id)
  <2>1. After(s, n + 1) = b
    BY <1>0, <1>1
  <2>2. read[h] \in Int /\ r.amount \in Nat
    BY <1>0 DEF TypeOK, LedgerRows
  <2>3. CASE h \in Purchases /\ id = h /\ b = read[h] - r.amount
    <3>1. Amount(id) = -r.amount
      BY <1>1, <2>3
    <3> HIDE DEF After, Amount
    <3>2. QED BY <1>4, <2>1, <2>2, <2>3, <3>1
  <2>4. CASE h \in Hooks /\ id = HookRef[h] /\ b = read[h] + r.amount
    <3>1. id \notin Purchases
      BY <2>4, RequestAssumption, DistinctAssumption
    <3>2. Amount(id) = r.amount
      BY <1>1, <3>1
    <3> HIDE DEF After, Amount
    <3>3. QED BY <1>4, <2>1, <2>2, <2>4, <3>2
  <2>5. QED BY <2>3, <2>4 DEF Commits
<1>6. ASSUME NEW z \in Students, NEW i \in 1..Len(posted[z])
      PROVE  After(z, i) = After(z, i - 1) + Amount(posted'[z][i])
  <2>1. Len(posted[z]) \in Nat
    BY <1>0 DEF TypeOK
  <2>2. After(z, i) = BalanceAfter(z, i) /\ After(z, i - 1) = BalanceAfter(z, i - 1)
    <3> HIDE DEF After
    <3>1. QED BY <1>3, <2>1
  <2>3. Amount(posted'[z][i]) = Signed(posted[z][i])
    BY <1>2 DEF Signed
  <2> HIDE DEF After, Amount
  <2>4. QED BY <2>2, <2>3 DEF LedgerChain
<1>7. LedgerChain'
  <2>1. ASSUME NEW z \in Students, NEW i \in 1..Len(posted'[z])
        PROVE  After(z, i) = After(z, i - 1) + Amount(posted'[z][i])
    <3> HIDE DEF After, Amount
    <3>1. CASE z = s /\ i = n + 1
      <4>1. posted'[z][i] = id /\ i - 1 = n
        BY <1>1, <3>1
      <4>2. QED BY <1>5, <3>1, <4>1
    <3>2. CASE z = s /\ i # n + 1
      <4>1. i \in 1..Len(posted[z])
        BY <1>1, <3>2
      <4>2. QED BY <1>6, <4>1
    <3>3. CASE z # s
      BY <1>1, <1>6, <3>3
    <3>4. QED BY <3>1, <3>2, <3>3
  <2>2. QED BY <2>1 DEF LedgerChain, BalanceAfter, Signed
<1>8. PostedOnce'
  <2>1. ASSUME NEW z \in Students, NEW i \in DOMAIN posted'[z],
               NEW j \in DOMAIN posted'[z], posted'[z][i] = posted'[z][j]
        PROVE  i = j
    <3>1. /\ posted[z] \in Seq(RowIds) /\ DOMAIN posted[z] = 1..Len(posted[z])
          /\ posted'[z] \in Seq(RowIds)
          /\ DOMAIN posted'[z] = 1..Len(posted'[z])
      BY <1>0, PostType DEF TypeOK, Post
    <3>2. CASE z # s
      BY <1>1, <2>1, <3>1, <3>2 DEF PostedOnce, IsInjective
    <3>3. CASE z = s
      <4>1. CASE i \in 1..n /\ j \in 1..n
        BY <1>1, <2>1, <3>1, <3>3, <4>1 DEF PostedOnce, IsInjective
      <4>2. CASE i = n + 1 /\ j \in 1..n
        BY <1>1, <1>2, <2>1, <3>3, <4>2
      <4>3. CASE i \in 1..n /\ j = n + 1
        BY <1>1, <1>2, <2>1, <3>3, <4>3
      <4>4. QED BY <1>1, <3>1, <3>3, <4>1, <4>2, <4>3
    <3>4. QED BY <3>2, <3>3
  <2>2. QED BY <2>1 DEF PostedOnce, IsInjective
<1>9. QED BY <1>7, <1>8

\* A step that keeps the ledger keeps its chain.
LEMMA KeepsChain ==
  ASSUME Headed, LedgerChain, PostedOnce, Keeps
  PROVE  LedgerChain' /\ PostedOnce'
<1>1. \A s \in Students : posted[s] \in Seq(RowIds)
  BY DEF Headed, Matches, TypeOK
<1>2. \A s \in Students : \A i \in 1..Len(posted[s]) :
        row'[posted[s][i]] = row[posted[s][i]]
  BY <1>1 DEF Headed, PostedRows, Keeps
<1>3. PostedOnce'
  BY DEF PostedOnce, Keeps
<1>4. LedgerChain'
  <2>1. ASSUME NEW s \in Students, NEW i \in 1..Len(posted[s])
        PROVE  BalanceAfter(s, i)' =
                 BalanceAfter(s, i - 1)' + Signed(posted[s][i])'
    <3>1. Len(posted[s]) \in Nat
      BY <1>1
    <3>2. BalanceAfter(s, i)' = BalanceAfter(s, i)
      BY <1>2 DEF BalanceAfter, Keeps
    <3>3. BalanceAfter(s, i - 1)' = BalanceAfter(s, i - 1)
      <4>1. CASE i = 1
        BY <4>1 DEF BalanceAfter
      <4>2. CASE i # 1
        <5>1. i - 1 \in 1..Len(posted[s]) /\ i - 1 # 0
          BY <3>1, <4>2
        <5>2. QED BY <1>2, <5>1 DEF BalanceAfter, Keeps
      <4>3. QED BY <4>1, <4>2
    <3>4. row'[posted'[s][i]] = row[posted[s][i]] /\ posted' = posted
      BY <1>2 DEF Keeps
    <3>5. Signed(posted[s][i])' = Signed(posted[s][i])
      BY <3>4 DEF Signed
    <3>6. QED BY <3>2, <3>3, <3>5 DEF LedgerChain
  <2>2. QED BY <2>1 DEF LedgerChain, Keeps
<1>5. QED BY <1>3, <1>4

\* Serial is inductive when one handler at a time works on a wallet.
LEMMA AlwaysSerial ==
  ASSUME MaxInFlight = 1
  PROVE  Spec => []Serial
<1>1. Init => Alone /\ Fresh /\ LedgerChain /\ PostedOnce
  BY RequestAssumption
  DEF Init, Alone, Fresh, LedgerChain, PostedOnce, IsInjective, Active
<1>2. Serial /\ Headed' /\ [Next]_vars => Serial'
  <2> SUFFICES ASSUME Serial, Headed', [Next]_vars PROVE Serial'
    OBVIOUS
  <2>0. TypeOK /\ Matches /\ Headed /\ Fresh /\ Alone
    BY DEF Serial, Headed, Matches
  <2>1. Alone' /\ Fresh'
    <3>1. CASE UNCHANGED <<wallet, row, intents, pc, snap, read, posted>>
      BY <2>0, <3>1 DEF Alone, Fresh, StudentOf
    <3>2. CASE \E h \in Handlers : StepOf(h) /\ StepFrame(h)
      BY <2>0, <3>2, AloneStep, FreshStep
    <3>3. QED BY <2>0, <3>1, <3>2, EveryStep
  <2>2. LedgerChain' /\ PostedOnce'
    BY <2>0, NextKinds, CommitChain, KeepsChain DEF Serial
  <2>3. QED BY <2>1, <2>2 DEF Serial
<1>3. QED BY <1>1, <1>2, AlwaysHeaded, PTL DEF Spec, Serial

\* No movement is lost: when the handlers of one wallet do not overlap, the
\* ledger explains the balance, LedgerChain, in every reachable state.
THEOREM NoMovementLost ==
  ASSUME MaxInFlight = 1
  PROVE  Spec => []LedgerChain
<1>1. Serial => LedgerChain
  BY DEF Serial
<1>2. QED BY <1>1, AlwaysSerial, PTL

\* A top-up is credited once and a tap charged once, PostedOnce, however often
\* callbacks repeat and handlers fail, when they do not overlap.
THEOREM CreditedOnce ==
  ASSUME MaxInFlight = 1
  PROVE  Spec => []PostedOnce
<1>1. Serial => PostedOnce
  BY DEF Serial
<1>2. QED BY <1>1, AlwaysSerial, PTL

\* A completed row is never rewritten, CompletedRowsAreFinal, when handlers of
\* one wallet do not overlap.
THEOREM RowsAreFinal ==
  ASSUME MaxInFlight = 1
  PROVE  Spec => CompletedRowsAreFinal
<1>1. Serial /\ [Next]_vars
        => [\A r \in RowIds : row[r].status = "COMPLETED" => row'[r] = row[r]]_row
  <2> SUFFICES ASSUME Serial, [Next]_vars
               PROVE  \A r \in RowIds :
                        row[r].status = "COMPLETED" => row'[r] = row[r]
    OBVIOUS
  <2>1. ASSUME NEW h \in Handlers, NEW id \in RowIds, NEW b \in Int,
               NEW r \in LedgerRows, Commits(h, id, b, r)
        PROVE  \A q \in RowIds :
                 row[q].status = "COMPLETED" => row'[q] = row[q]
    BY <2>1, CommitNew, PostedAppend DEF Serial, Headed, Matches, Commits
  <2>2. QED BY <2>1, NextKinds DEF Serial, Headed, Keeps
<1>2. QED BY <1>1, AlwaysSerial, PTL DEF Spec, CompletedRowsAreFinal

-----------------------------------------------------------------------------
(* What a parent sets: when the handlers of one wallet do not overlap, what *)
(* a tap tested on its snapshot is still true of the wallet when it charges, *)
(* and a handler that found no wallet still finds none when it creates one. *)

\* A tap that passed its checks asks for nothing the wallet blocks now.
Allowed(p) == \A i \in ItemsOf(PurchaseOf[p].cart) :
                 ~Restricted(wallet[StudentOf(p)], i)

Tested ==
  /\ \A p \in Purchases : pc[p] \in {"cap", "read", "commit"} => Allowed(p)
  /\ \A h \in Handlers : pc[h] = "init" => ~wallet[StudentOf(h)].exists
  /\ \A e \in Edits : pc[e] \in {"init", "write"} => EditOf[e].authorised

\* What a step of h has to do to keep Tested: nobody else is at its wallet.
LEMMA TestedKept ==
  ASSUME MaxInFlight = 1, TypeOK, Alone, Tested, NEW h \in Handlers, StepFrame(h),
         h \in Purchases /\ pc'[h] \in {"cap", "read", "commit"} => Allowed(h)',
         pc'[h] = "init" => ~wallet'[StudentOf(h)].exists,
         h \in Edits /\ pc'[h] \in {"init", "write"} => EditOf[h].authorised
  PROVE  Tested'
<1>1. \A g \in Handlers \ {h} : pc'[g] \in Active =>
        /\ pc'[g] = pc[g]
        /\ wallet'[StudentOf(g)] = wallet[StudentOf(g)]
  BY AloneStep, StudentType DEF StepFrame
<1>2. ASSUME NEW p \in Purchases, pc'[p] \in {"cap", "read", "commit"}
      PROVE  Allowed(p)'
  <2>1. CASE p = h
    BY <1>2, <2>1
  <2>2. CASE p # h
    <3>1. pc'[p] = pc[p] /\ wallet'[StudentOf(p)] = wallet[StudentOf(p)]
      BY <1>1, <1>2, <2>2 DEF Active
    <3>2. Allowed(p)
      BY <1>2, <3>1 DEF Tested
    <3>3. QED BY <3>1, <3>2 DEF Allowed, Restricted, StudentOf
  <2>3. QED BY <2>1, <2>2
<1>3. ASSUME NEW g \in Handlers, pc'[g] = "init"
      PROVE  ~wallet'[StudentOf(g)].exists
  BY <1>1, <1>3 DEF Tested, Active
<1>4. ASSUME NEW e \in Edits, pc'[e] \in {"init", "write"}
      PROVE  EditOf[e].authorised
  <2>1. e \in Handlers
    OBVIOUS
  <2>2. CASE e = h
    BY <1>4, <2>2
  <2>3. CASE e # h
    BY <1>1, <1>4, <2>1, <2>3 DEF Tested, Active
  <2>4. QED BY <2>2, <2>3
<1>5. QED BY <1>2, <1>3, <1>4 DEF Tested, StudentOf

\* The checks pass a tap on only if they found nothing blocked.
LEMMA CheckedFacts ==
  ASSUME NEW p \in Purchases, NEW w, Checked(p, w) # "refused"
  PROVE  \A i \in ItemsOf(PurchaseOf[p].cart) : ~Restricted(w, i)
  BY DEF Checked

\* Every step of a handler keeps Tested.
LEMMA TestedStep ==
  ASSUME MaxInFlight = 1, TypeOK, Alone, Tested, NEW h \in Handlers, StepOf(h),
         StepFrame(h)
  PROVE  Tested'
<1>0. StudentOf(h) \in Students
  BY StudentType
<1>1. CASE Publish(h) \/ Fail(h)
  <2>1. pc'[h] \in {"ok", "failed"}
    BY <1>1 DEF Publish, Fail, TypeOK
  <2>2. QED BY <2>1, TestedKept
<1>2. CASE h \in Purchases /\ Purchase(h)
  <2>0. h \notin Edits
    BY <1>2, DistinctAssumption
  <2>1. CASE PurchaseStart(h)
    <3> DEFINE w == wallet[StudentOf(h)]
    <3>1. /\ wallet' = wallet
          /\ pc'[h] = IF PurchaseOf[h].cart = <<>> THEN "refused"
                      ELSE IF w.exists THEN Checked(h, w) ELSE "init"
      BY <2>1 DEF PurchaseStart, Snapshot, TypeOK
    <3>2. pc'[h] \in {"cap", "read", "commit"} => Allowed(h)'
      BY <1>2, <3>1, CheckedFacts DEF Allowed, StudentOf
    <3>3. pc'[h] = "init" => ~wallet'[StudentOf(h)].exists
      BY <1>2, <3>1, CheckedType
    <3>4. QED BY <2>0, <3>2, <3>3, TestedKept
  <2>2. CASE PurchaseInit(h)
    <3> DEFINE u == Upserted(wallet[StudentOf(h)], 0)
    <3>1. /\ wallet'[StudentOf(h)] = u /\ pc'[h] = Checked(h, u)
      BY <1>0, <2>2 DEF PurchaseInit, InitializeWallet, Snapshot, TypeOK
    <3> HIDE DEF u
    <3>2. pc'[h] \in {"cap", "read", "commit"} => Allowed(h)'
      BY <1>2, <3>1, CheckedFacts DEF Allowed, StudentOf
    <3>3. pc'[h] # "init"
      BY <1>2, <3>1, CheckedType
    <3>4. QED BY <2>0, <3>2, <3>3, TestedKept
  <2>3. CASE PurchaseCap(h) \/ PurchaseRead(h)
    <3>1. /\ wallet' = wallet /\ pc[h] \in {"cap", "read"}
          /\ pc'[h] \in {"refused", "read", "commit"}
      BY <2>3 DEF PurchaseCap, PurchaseRead, ReadBalance, TypeOK
    <3>2. Allowed(h)'
      BY <1>2, <3>1 DEF Tested, Allowed, StudentOf
    <3>3. QED BY <2>0, <3>1, <3>2, TestedKept
  <2>4. CASE PurchaseCommit(h)
    <3>1. pc'[h] = "publish"
      BY <2>4 DEF PurchaseCommit, Post, TypeOK
    <3>2. QED BY <3>1, TestedKept
  <2>5. QED BY <1>2, <2>1, <2>2, <2>3, <2>4 DEF Purchase
<1>3. CASE h \in TopUps /\ TopUp(h)
  <2>0. h \notin Edits /\ h \notin Purchases
    BY <1>3, DistinctAssumption
  <2>1. pc'[h] = "init" => ~wallet'[StudentOf(h)].exists
    BY <1>3 DEF TopUp, TopUpStart, TopUpInit, TopUpIntent, TopUpRow, Snapshot,
                TypeOK
  <2>2. QED BY <2>0, <2>1, TestedKept
<1>4. CASE h \in Hooks /\ Hook(h)
  <2>0. h \notin Edits /\ h \notin Purchases
    BY <1>4, DistinctAssumption
  <2>1. pc'[h] # "init"
    BY <1>4 DEF Hook, HookStart, HookRead, HookCommit, ReadBalance, Post, TypeOK
  <2>2. QED BY <2>0, <2>1, TestedKept
<1>5. CASE h \in Edits /\ Edit(h)
  <2>0. h \notin Purchases
    BY <1>5, DistinctAssumption
  <2>1. pc'[h] = "init" => ~wallet'[StudentOf(h)].exists
    BY <1>5 DEF Edit, EditStart, EditInit, EditWrite, Snapshot, TypeOK
  <2>2. pc'[h] \in {"init", "write"} => EditOf[h].authorised
    BY <1>5 DEF Edit, EditStart, EditInit, EditWrite, Snapshot, TypeOK, Tested
  <2>3. QED BY <2>0, <2>1, <2>2, TestedKept
<1>6. QED BY <1>1, <1>2, <1>3, <1>4, <1>5 DEF StepOf

\* With one handler at a time Tested always holds.
LEMMA AlwaysTested ==
  ASSUME MaxInFlight = 1
  PROVE  Spec => [](Serial /\ Tested)
<1>1. Init => Tested
  <2> SUFFICES ASSUME Init PROVE Tested
    OBVIOUS
  <2>1. \A h \in Handlers : pc[h] = "idle"
    BY DEF Init
  <2>2. /\ \A p \in Purchases : pc[p] = "idle"
        /\ \A e \in Edits : pc[e] = "idle"
    BY <2>1
  <2>3. QED BY <2>1, <2>2 DEF Tested
<1>2. Serial /\ Tested /\ [Next]_vars => Tested'
  <2> SUFFICES ASSUME Serial, Tested, [Next]_vars PROVE Tested'
    OBVIOUS
  <2>0. TypeOK /\ Alone
    BY DEF Serial, Headed, Matches
  <2>1. CASE UNCHANGED <<wallet, row, intents, pc, snap, read, posted>>
    BY <2>1 DEF Tested, Allowed, StudentOf
  <2>2. CASE \E h \in Handlers : StepOf(h) /\ StepFrame(h)
    BY <2>0, <2>2, TestedStep
  <2>3. QED BY <2>0, <2>1, <2>2, EveryStep
<1>3. QED BY <1>1, <1>2, AlwaysSerial, PTL DEF Spec

\* Only its commit charges a tap.
LEMMA ChargedByCommit ==
  ASSUME TypeOK, NEW h \in Handlers, StepOf(h), NEW p \in Purchases, Charged(p)
  PROVE  p = h /\ PurchaseCommit(p)
<1>1. CASE UNCHANGED row
  BY <1>1 DEF Charged
<1>2. CASE h \in Purchases /\ PurchaseCommit(h)
  BY <1>2 DEF PurchaseCommit, Post, Charged, TypeOK
<1>3. CASE h \in TopUps /\ TopUpRow(h)
  BY <1>3, DistinctAssumption DEF TopUpRow, Charged, TypeOK
<1>4. CASE h \in Hooks /\ HookCommit(h)
  <2>1. HookRef[h] # p
    BY <1>4, RequestAssumption, DistinctAssumption
  <2>2. QED BY <1>4, <2>1 DEF HookCommit, Post, Charged, TypeOK
<1>5. QED
  BY <1>1, <1>2, <1>3, <1>4
  DEF StepOf, Purchase, PurchaseStart, PurchaseInit, PurchaseCap, PurchaseRead,
      TopUp, TopUpStart, TopUpInit, TopUpIntent, Hook, HookStart, HookRead, Edit,
      EditStart, EditInit, EditWrite, Publish, Fail

\* A tap is charged only for what its parent does not block at that moment,
\* RestrictionsHold, when the handlers of one wallet do not overlap.
THEOREM NothingBlockedIsCharged ==
  ASSUME MaxInFlight = 1
  PROVE  Spec => RestrictionsHold
<1>1. Serial /\ Tested /\ [Next]_vars
        => [\A p \in Purchases :
              Charged(p) => \A i \in ItemsOf(PurchaseOf[p].cart) :
                               ~Restricted(wallet[StudentOf(p)], i)]_vars
  <2> SUFFICES ASSUME Serial, Tested, [Next]_vars,
                      NEW p \in Purchases, Charged(p)
               PROVE  Allowed(p)
    BY DEF Allowed
  <2>0. TypeOK
    BY DEF Serial, Headed, Matches
  <2>1. \E h \in Handlers : StepOf(h)
    BY <2>0, EveryStep DEF Charged
  <2>2. QED BY <2>0, <2>1, ChargedByCommit DEF Tested, PurchaseCommit
<1>2. QED BY <1>1, AlwaysTested, PTL DEF Spec, RestrictionsHold

\* The cap of a wallet that exists is changed by authorised edits only, and to
\* what they ask for, CapSetByEdits, when its handlers do not overlap.
THEOREM OnlyEditsSetTheCap ==
  ASSUME MaxInFlight = 1
  PROVE  Spec => CapSetByEdits
<1> DEFINE SetBy(s) ==
      \E e \in Edits : /\ StudentOf(e) = s /\ EditOf[e].authorised
                       /\ wallet'[s].dailyLimit = EditOf[e].dailyLimit
                       /\ pc[e] = "write" /\ pc'[e] = "ok"
<1>1. Serial /\ Tested /\ [Next]_vars
        => [\A s \in Students :
              wallet[s].exists /\ wallet'[s].dailyLimit # wallet[s].dailyLimit
                => SetBy(s)]_vars
  <2> SUFFICES ASSUME Serial, Tested, [Next]_vars, NEW s \in Students,
                      wallet[s].exists,
                      wallet'[s].dailyLimit # wallet[s].dailyLimit
               PROVE  SetBy(s)
    OBVIOUS
  <2>0. TypeOK
    BY DEF Serial, Headed, Matches
  <2>1. PICK h \in Handlers : StepOf(h) /\ StepFrame(h)
    BY <2>0, EveryStep
  <2>2. StudentOf(h) = s
    BY <2>1 DEF StepFrame
  <2>3. pc[h] # "init"
    BY <2>2 DEF Tested
  <2>4. CASE h \in Edits /\ EditWrite(h)
    <3>1. /\ pc[h] = "write" /\ pc'[h] = "ok"
          /\ wallet'[s] = Edited(wallet[s], h)
      BY <2>0, <2>2, <2>4 DEF EditWrite, TypeOK
    <3>2. wallet'[s].dailyLimit
            = Given(EditOf[h].dailyLimit, wallet[s].dailyLimit)
      <4>1. wallet[s] \in WalletRows
        BY <2>0 DEF TypeOK
      <4>2. QED BY <3>1, <4>1 DEF Edited, WalletRows
    <3>3. wallet'[s].dailyLimit = EditOf[h].dailyLimit
      BY <3>2 DEF Given
    <3>4. EditOf[h].authorised
      BY <2>4, <3>1 DEF Tested
    <3>5. QED BY <2>2, <2>4, <3>1, <3>3, <3>4
  <2>5. CASE \/ h \in Purchases /\ PurchaseCommit(h)
             \/ h \in Hooks /\ HookCommit(h)
    <3>1. \E b : wallet' = [wallet EXCEPT ![s].balance = b]
      BY <2>2, <2>5 DEF PurchaseCommit, HookCommit, Post
    <3>2. wallet[s] \in WalletRows
      BY <2>0 DEF TypeOK
    <3>3. wallet'[s].dailyLimit = wallet[s].dailyLimit
      BY <2>0, <3>1, <3>2 DEF TypeOK, WalletRows
    <3>4. QED BY <3>3
  <2>6. CASE UNCHANGED wallet
    BY <2>6
  <2>7. QED
    BY <2>1, <2>3, <2>4, <2>5, <2>6
    DEF StepOf, Purchase, PurchaseStart, PurchaseInit, PurchaseCap,
        PurchaseRead, TopUp, TopUpStart, TopUpInit, TopUpIntent, TopUpRow, Hook,
        HookStart, HookRead, Edit, EditStart, EditInit, Publish, Fail
<1>2. QED BY <1>1, AlwaysTested, PTL DEF Spec, CapSetByEdits

-----------------------------------------------------------------------------
(* The cap is a bound on the spending of the day *)

AmountOf == [p \in Purchases |-> row[p].amount]

\* No row is dated after today, and what the cap was tested on still holds:
\* a tap on its way to the commit fits in what is left of the day's cap.
Capped ==
  /\ \A p \in Purchases : row[p].day <= day
  /\ \A p \in Purchases : pc[p] = "cap" =>
       snap[p].dailyLimit = wallet[StudentOf(p)].dailyLimit
  /\ \A p \in Purchases :
       pc[p] \in {"read", "commit"} /\ wallet[StudentOf(p)].dailyLimit > 0
         => SpentToday(StudentOf(p)) + Cost(p) <= wallet[StudentOf(p)].dailyLimit

\* The debits of a wallet are finitely many natural numbers.
LEMMA SpentType ==
  ASSUME TypeOK, NEW s \in Students
  PROVE  /\ IsFiniteSet(DebitsToday(s))
         /\ \A p \in DebitsToday(s) : AmountOf[p] \in Nat
         /\ SpentToday(s) = SumFunctionOnSet(AmountOf, DebitsToday(s))
         /\ SpentToday(s) \in Nat
<1>1. IsFiniteSet(DebitsToday(s))
  <2>1. DebitsToday(s) \subseteq Handlers
    BY DEF DebitsToday
  <2>2. QED BY <2>1, BoundAssumption, FS_Subset
<1>2. \A p \in DebitsToday(s) : AmountOf[p] \in Nat
  BY DEF DebitsToday, AmountOf, TypeOK, LedgerRows
<1>3. SpentToday(s) = SumFunctionOnSet(AmountOf, DebitsToday(s))
  BY DEF SpentToday, AmountOf
<1>4. SumFunctionOnSet(AmountOf, DebitsToday(s)) \in Nat
  BY <1>1, <1>2, SumFacts
<1>5. QED BY <1>1, <1>2, <1>3, <1>4

\* The spending of a wallet whose rows and whose day stay is what it was.
LEMMA SpentSame ==
  ASSUME TypeOK, TypeOK', NEW s \in Students, day' = day,
         \A p \in Purchases : StudentOf(p) = s => row'[p] = row[p]
  PROVE  SpentToday(s)' = SpentToday(s)
<1>1. \A p \in Purchases : PurchaseOf[p].student = s => row'[p] = row[p]
  BY DEF StudentOf
<1>2. DebitsToday(s)' = DebitsToday(s)
  BY <1>1 DEF DebitsToday
<1>3. \A p \in DebitsToday(s) : AmountOf[p] \in Nat /\ AmountOf[p] = AmountOf'[p]
  BY <1>1, SpentType DEF DebitsToday, AmountOf
<1>4. SumFunctionOnSet(AmountOf, DebitsToday(s))
        = SumFunctionOnSet(AmountOf', DebitsToday(s))
  BY <1>3, SpentType, SumSame
<1>5. SpentToday(s)' = SumFunctionOnSet(AmountOf', DebitsToday(s)')
  BY DEF SpentToday, AmountOf
<1>6. QED BY <1>2, <1>4, <1>5, SpentType

\* A commit adds the cost of its tap to the spending of the day.
LEMMA SpentCommit ==
  ASSUME TypeOK, TypeOK', NEW p \in Purchases, Charged(p), PurchaseCommit(p)
  PROVE  SpentToday(StudentOf(p))' = SpentToday(StudentOf(p)) + Cost(p)
<1> DEFINE s == StudentOf(p)
           before == DebitsToday(s)
           after == DebitsToday(s)'
<1>0. /\ s \in Students /\ PurchaseOf[p].student = s
      /\ Cost(p) \in Nat
  BY StudentType, CostType DEF StudentOf
<1>1. /\ day' = day
      /\ \A q \in Purchases \ {p} : row'[q] = row[q]
      /\ row'[p].status = "COMPLETED" /\ row'[p].amount = Cost(p)
      /\ row'[p].day = day
      /\ row[p].status = "NONE"
  BY DEF PurchaseCommit, Post, TypeOK, Charged
<1>2. /\ after = before \cup {p} /\ p \notin before /\ p \in after
      /\ after \ {p} = before
  BY <1>0, <1>1 DEF DebitsToday
<1>3. /\ IsFiniteSet(after) /\ \A q \in after : AmountOf'[q] \in Nat
      /\ SpentToday(s)' = SumFunctionOnSet(AmountOf', after)
  <2>1. /\ IsFiniteSet(after)
    BY <1>2, <1>0, SpentType, FS_AddElement
  <2>2. \A q \in after : AmountOf'[q] \in Nat
    BY DEF DebitsToday, AmountOf, TypeOK, LedgerRows
  <2>3. QED BY <2>1, <2>2 DEF SpentToday, AmountOf
<1>4. SumFunctionOnSet(AmountOf', after)
        = AmountOf'[p] + SumFunctionOnSet(AmountOf', after \ {p})
  <2> HIDE DEF after
  <2>1. QED BY <1>2, <1>3, SumFacts
<1>5. SumFunctionOnSet(AmountOf, before) = SumFunctionOnSet(AmountOf', before)
  <2>1. \A q \in before : AmountOf[q] \in Nat /\ AmountOf[q] = AmountOf'[q]
    BY <1>0, <1>1, SpentType DEF DebitsToday, AmountOf
  <2>2. IsFiniteSet(before)
    BY <1>0, SpentType
  <2> HIDE DEF before
  <2>3. QED BY <2>1, <2>2, SumSame
<1>6. AmountOf'[p] = Cost(p)
  BY <1>1 DEF AmountOf
<1>7. SpentToday(s) = SumFunctionOnSet(AmountOf, before) /\ SpentToday(s) \in Nat
  BY <1>0, SpentType
<1>8. SumFunctionOnSet(AmountOf', after \ {p}) = SumFunctionOnSet(AmountOf', before)
  BY <1>2
<1> HIDE DEF after, before, s
<1>9. QED BY <1>0, <1>3, <1>4, <1>5, <1>6, <1>7, <1>8 DEF s

\* A handler's step moves no date on and rewrites no other snapshot.
LEMMA DayFrame ==
  ASSUME TypeOK, NEW h \in Handlers, StepOf(h)
  PROVE  /\ day' = day
         /\ \A g \in Handlers \ {h} : snap'[g] = snap[g]
  BY DEF StepOf, Purchase, PurchaseStart, PurchaseInit, PurchaseCap, PurchaseRead,
         PurchaseCommit, TopUp, TopUpStart, TopUpInit, TopUpIntent, TopUpRow,
         Hook, HookStart, HookRead, HookCommit, Edit, EditStart, EditInit,
         EditWrite, Publish, Fail, Snapshot, TypeOK

\* A ledger row is dated the day it is written.
LEMMA DatedStep ==
  ASSUME TypeOK, NEW h \in Handlers, StepOf(h), NEW p \in Purchases
  PROVE  row'[p] = row[p] \/ row'[p].day = day
<1>1. CASE UNCHANGED row
  BY <1>1
<1>2. CASE h \in Purchases /\ PurchaseCommit(h)
  BY <1>2 DEF PurchaseCommit, Post, TypeOK
<1>3. CASE h \in TopUps /\ TopUpRow(h)
  BY <1>3, DistinctAssumption DEF TopUpRow, TypeOK
<1>4. CASE h \in Hooks /\ HookCommit(h)
  <2>1. HookRef[h] # p
    BY <1>4, RequestAssumption, DistinctAssumption
  <2>2. QED BY <1>4, <2>1 DEF HookCommit, Post, TypeOK
<1>5. QED
  BY <1>1, <1>2, <1>3, <1>4
  DEF StepOf, Purchase, PurchaseStart, PurchaseInit, PurchaseCap, PurchaseRead,
      TopUp, TopUpStart, TopUpInit, TopUpIntent, Hook, HookStart, HookRead, Edit,
      EditStart, EditInit, EditWrite, Publish, Fail

\* A step of h keeps Capped if it keeps it for h: when h steps, nobody else is
\* at its wallet.
LEMMA CappedKept ==
  ASSUME MaxInFlight = 1, TypeOK, TypeOK', Alone, Capped, NEW h \in Handlers,
         StepOf(h), StepFrame(h),
         h \in Purchases /\ pc'[h] = "cap" =>
           snap'[h].dailyLimit = wallet'[StudentOf(h)].dailyLimit,
         h \in Purchases /\ pc'[h] \in {"read", "commit"}
                        /\ wallet'[StudentOf(h)].dailyLimit > 0
           => SpentToday(StudentOf(h))' + Cost(h)
                <= wallet'[StudentOf(h)].dailyLimit
  PROVE  Capped'
<1>1. \A p \in Purchases : row'[p].day <= day'
  <2>1. \A p \in Purchases : row[p].day \in Int /\ day \in Int
    BY DEF TypeOK, LedgerRows
  <2>2. QED BY <2>1, DayFrame, DatedStep DEF Capped
<1>2. ASSUME NEW p \in Purchases, p # h, pc'[p] \in {"cap", "read", "commit"}
      PROVE  /\ pc'[p] = pc[p] /\ snap'[p] = snap[p]
             /\ wallet'[StudentOf(p)] = wallet[StudentOf(p)]
             /\ SpentToday(StudentOf(p))' = SpentToday(StudentOf(p))
  <2>1. p \in Handlers /\ pc'[p] = pc[p] /\ pc[p] \in Active
    BY <1>2 DEF StepFrame, Active
  <2>2. StudentOf(p) # StudentOf(h)
    BY <1>2, <2>1, AloneStep
  <2>3. StudentOf(p) \in Students
    BY <2>1, StudentType
  <2>4. \A q \in Purchases : StudentOf(q) = StudentOf(p) => row'[q] = row[q]
    BY <2>2 DEF StepFrame
  <2>5. SpentToday(StudentOf(p))' = SpentToday(StudentOf(p))
    BY <2>3, <2>4, DayFrame, SpentSame
  <2>6. QED BY <1>2, <2>1, <2>2, <2>3, <2>5, DayFrame DEF StepFrame
<1>3. ASSUME NEW p \in Purchases, pc'[p] = "cap"
      PROVE  snap'[p].dailyLimit = wallet'[StudentOf(p)].dailyLimit
  BY <1>2, <1>3 DEF Capped
<1>4. ASSUME NEW p \in Purchases, pc'[p] \in {"read", "commit"},
             wallet'[StudentOf(p)].dailyLimit > 0
      PROVE  SpentToday(StudentOf(p))' + Cost(p)
               <= wallet'[StudentOf(p)].dailyLimit
  BY <1>2, <1>4 DEF Capped
<1>5. \A p \in Purchases : StudentOf(p)' = StudentOf(p) /\ Cost(p)' = Cost(p)
  BY DEF StudentOf, Cost
<1>6. QED BY <1>1, <1>3, <1>4, <1>5 DEF Capped

\* A tap skips the test of the cap only when the wallet it read has none.
LEMMA CheckedCap ==
  ASSUME NEW p \in Purchases, NEW w, Checked(p, w) = "read"
  PROVE  ~(w.dailyLimit > 0)
  BY DEF Checked

\* Every step of a handler keeps Capped.
LEMMA CappedStep ==
  ASSUME MaxInFlight = 1, TypeOK, TypeOK', Alone, Capped, NEW h \in Handlers,
         StepOf(h), StepFrame(h)
  PROVE  Capped'
<1> DEFINE s == StudentOf(h)
<1>0. s \in Students /\ day' = day /\ wallet[s] \in WalletRows
  BY StudentType, DayFrame DEF TypeOK
<1>1. CASE pc'[h] \notin {"cap", "read", "commit"}
  BY <1>1, CappedKept
<1>2. CASE h \notin Purchases
  BY <1>2, CappedKept
<1>3. CASE h \in Purchases /\ pc'[h] \in {"cap", "read", "commit"}
  <2>0. Purchase(h)
    <3>1. ~Publish(h) /\ ~Fail(h)
      BY <1>3 DEF Publish, Fail, TypeOK
    <3>2. QED BY <1>3, <3>1, DistinctAssumption DEF StepOf
  <2>1. CASE PurchaseStart(h)
    <3> DEFINE w == wallet[s]
    <3>1. /\ wallet' = wallet /\ snap'[h] = w
          /\ pc'[h] = IF PurchaseOf[h].cart = <<>> THEN "refused"
                      ELSE IF w.exists THEN Checked(h, w) ELSE "init"
      BY <2>1 DEF PurchaseStart, Snapshot, TypeOK
    <3>2. pc'[h] = Checked(h, w)
      BY <1>3, <3>1
    <3>3. pc'[h] # "commit" /\ (pc'[h] = "read" => ~(w.dailyLimit > 0))
      BY <1>3, <3>2, CheckedCap, CheckedType
    <3>4. QED BY <3>1, <3>3, CappedKept
  <2>2. CASE PurchaseInit(h)
    <3> DEFINE u == Upserted(wallet[s], 0)
    <3>1. /\ wallet'[s] = u /\ snap'[h] = u /\ pc'[h] = Checked(h, u)
      BY <1>0, <2>2 DEF PurchaseInit, InitializeWallet, Snapshot, TypeOK
    <3> HIDE DEF u
    <3>2. pc'[h] # "commit" /\ (pc'[h] = "read" => ~(u.dailyLimit > 0))
      BY <1>3, <3>1, CheckedCap, CheckedType
    <3>3. QED BY <3>1, <3>2, CappedKept
  <2>3. CASE PurchaseCap(h) \/ PurchaseRead(h)
    <3>1. /\ wallet' = wallet /\ row' = row
          /\ pc'[h] # "cap"
          /\ \/ pc[h] = "read"
             \/ pc[h] = "cap" /\ ~(SpentToday(s) + Cost(h) > snap[h].dailyLimit)
      BY <1>3, <2>3 DEF PurchaseCap, PurchaseRead, ReadBalance, TypeOK
    <3>2. SpentToday(s)' = SpentToday(s)
      BY <1>0, <3>1, SpentSame
    <3>3. SpentToday(s) \in Nat /\ Cost(h) \in Nat /\ wallet[s].dailyLimit \in Nat
      BY <1>0, <1>3, SpentType, CostType DEF WalletRows
    <3>4. wallet[s].dailyLimit > 0 => SpentToday(s) + Cost(h) <= wallet[s].dailyLimit
      <4>1. CASE pc[h] = "read"
        BY <1>3, <4>1 DEF Capped
      <4>2. CASE /\ pc[h] = "cap"
                 /\ ~(SpentToday(s) + Cost(h) > snap[h].dailyLimit)
        <5>1. snap[h].dailyLimit = wallet[s].dailyLimit
          BY <1>3, <4>2 DEF Capped
        <5>2. QED BY <3>3, <4>2, <5>1
      <4>3. QED BY <3>1, <4>1, <4>2
    <3>5. QED BY <1>3, <3>1, <3>2, <3>4, CappedKept
  <2>4. CASE PurchaseCommit(h)
    BY <1>3, <2>4 DEF PurchaseCommit, Post, TypeOK
  <2>5. QED BY <2>0, <2>1, <2>2, <2>3, <2>4 DEF Purchase
<1>4. QED BY <1>1, <1>2, <1>3

\* Midnight empties the spending of the day, as no row is dated after it.
LEMMA SpentMidnight ==
  ASSUME TypeOK, Capped, NEW s \in Students, day' = day + 1, UNCHANGED row
  PROVE  SpentToday(s)' = 0
<1>1. DebitsToday(s)' = {}
  <2>1. \A p \in Purchases : row[p].day \in Int /\ row[p].day <= day /\ day \in Int
    BY DEF TypeOK, LedgerRows, Capped
  <2>2. QED BY <2>1 DEF DebitsToday
<1>2. SpentToday(s)' = SumFunctionOnSet(AmountOf', {})
  BY <1>1 DEF SpentToday, AmountOf
<1>3. SumFunctionOnSet(AmountOf', {}) = 0
  BY SumEmpty
<1>4. QED BY <1>2, <1>3

\* At midnight the day has no debit yet, so every cap is whole again.
LEMMA CappedMidnight ==
  ASSUME TypeOK, TypeOK', Capped, day' \in {day, day + 1},
         UNCHANGED <<wallet, row, pc, snap>>
  PROVE  Capped'
<1>1. \A p \in Purchases : StudentOf(p) \in Students /\ StudentOf(p)' = StudentOf(p)
  BY StudentType DEF StudentOf
<1>2. \A p \in Purchases : Cost(p)' = Cost(p) /\ Cost(p) \in Nat
  BY CostType DEF Cost
<1>3. \A s \in Students : SpentToday(s)' \in Nat /\ SpentToday(s)' <= SpentToday(s)
  <2> SUFFICES ASSUME NEW s \in Students
               PROVE  SpentToday(s)' \in Nat /\ SpentToday(s)' <= SpentToday(s)
    OBVIOUS
  <2>1. SpentToday(s) \in Nat
    BY SpentType
  <2>2. CASE day' = day
    BY <2>1, <2>2, SpentSame
  <2>3. CASE day' = day + 1
    BY <2>1, <2>3, SpentMidnight
  <2>4. QED BY <2>2, <2>3
<1>4. \A s \in Students : SpentToday(s) \in Nat /\ wallet[s].dailyLimit \in Nat
  BY SpentType DEF TypeOK, WalletRows
<1>5. \A p \in Purchases : row'[p].day <= day'
  <2>1. \A p \in Purchases : row[p].day \in Int /\ row[p].day <= day /\ day \in Int
    BY DEF TypeOK, LedgerRows, Capped
  <2>2. QED BY <2>1
<1>6. ASSUME NEW p \in Purchases, pc[p] \in {"read", "commit"},
             wallet[StudentOf(p)].dailyLimit > 0
      PROVE  SpentToday(StudentOf(p))' + Cost(p)
               <= wallet[StudentOf(p)].dailyLimit
  <2>1. SpentToday(StudentOf(p)) + Cost(p) <= wallet[StudentOf(p)].dailyLimit
    BY <1>6 DEF Capped
  <2>2. QED BY <1>1, <1>2, <1>3, <1>4, <2>1
<1>7. QED BY <1>1, <1>2, <1>5, <1>6 DEF Capped

\* A step is a step of one handler within its frame, midnight or a stutter.
LEMMA DayOrStep ==
  ASSUME TypeOK, [Next]_vars
  PROVE  \/ \E h \in Handlers : StepOf(h) /\ StepFrame(h)
         \/ NextDay \/ UNCHANGED vars
<1>1. CASE NextDay \/ UNCHANGED vars
  BY <1>1
<1>2. CASE \E h \in Handlers : StepOf(h)
  <2>1. PICK h \in Handlers : StepOf(h)
    BY <1>2
  <2>2. StepFrame(h)
    BY <2>1, PurchaseFrame, TopUpFrame, HookFrame, EditFrame
    DEF StepOf, Publish, Fail, StepFrame, TypeOK, Active
  <2>3. QED BY <2>1, <2>2
<1>3. QED BY <1>1, <1>2 DEF Next, Quiet, StepOf

\* What the cap was tested on holds until the commit, in every reachable state.
LEMMA AlwaysCapped ==
  ASSUME MaxInFlight = 1
  PROVE  Spec => [](Serial /\ Capped)
<1>1. Init => Capped
  <2> SUFFICES ASSUME Init PROVE Capped
    OBVIOUS
  <2>1. \A p \in Purchases : pc[p] = "idle" /\ row[p] = NoRow /\ day = 0
    BY DEF Init
  <2>2. QED BY <2>1 DEF Capped, NoRow
<1>2. Serial /\ Capped /\ TypeOK' /\ [Next]_vars => Capped'
  <2> SUFFICES ASSUME Serial, Capped, TypeOK', [Next]_vars PROVE Capped'
    OBVIOUS
  <2>0. TypeOK /\ Alone
    BY DEF Serial, Headed, Matches
  <2>1. CASE \E h \in Handlers : StepOf(h) /\ StepFrame(h)
    BY <2>0, <2>1, CappedStep
  <2>2. CASE NextDay \/ UNCHANGED vars
    BY <2>0, <2>2, CappedMidnight DEF NextDay, vars
  <2>3. QED BY <2>0, <2>1, <2>2, DayOrStep
<1>3. QED BY <1>1, <1>2, AlwaysSerial, TypeCorrect, PTL DEF Spec

\* A tap that is charged leaves the spending of the day within the cap,
\* CapHolds, when the handlers of one wallet do not overlap.
THEOREM SpendingStaysWithinTheCap ==
  ASSUME MaxInFlight = 1
  PROVE  Spec => CapHolds
<1>1. Serial /\ Capped /\ TypeOK' /\ [Next]_vars
        => [\A p \in Purchases :
              LET s == StudentOf(p)
              IN  Charged(p) /\ wallet[s].dailyLimit > 0
                    => SpentToday(s)' <= wallet[s].dailyLimit]_vars
  <2> SUFFICES ASSUME Serial, Capped, TypeOK', [Next]_vars,
                      NEW p \in Purchases, Charged(p),
                      wallet[StudentOf(p)].dailyLimit > 0
               PROVE  SpentToday(StudentOf(p))' <= wallet[StudentOf(p)].dailyLimit
    OBVIOUS
  <2>0. TypeOK
    BY DEF Serial, Headed, Matches
  <2>1. PurchaseCommit(p)
    BY <2>0, EveryStep, ChargedByCommit DEF Charged
  <2>2. SpentToday(StudentOf(p))' = SpentToday(StudentOf(p)) + Cost(p)
    BY <2>0, <2>1, SpentCommit
  <2>3. QED BY <2>1, <2>2 DEF Capped, PurchaseCommit
<1>2. QED BY <1>1, AlwaysCapped, TypeCorrect, PTL DEF Spec, CapHolds
-----------------------------------------------------------------------------
(* The handlers of a wallet implement the operations of an Account *)

\* A tap on its way to the commit has a cart that can be sold, a top-up whose
\* row is to be written has its intent, and an edit publishes nothing.
Sells ==
  /\ \A p \in Purchases : pc[p] = "init" => PurchaseOf[p].cart # <<>>
  /\ \A p \in Purchases : pc[p] \in {"cap", "read", "commit"} => p \in Sold
  /\ \A t \in TopUps : pc[t] = "row" => t \in intents
  /\ \A e \in Edits : pc[e] # "publish"

\* What a step of h has to do to keep Sells.
LEMMA SellsKept ==
  ASSUME TypeOK, Sells, NEW h \in Handlers, StepFrame(h),
         h \in Purchases /\ pc'[h] = "init" => PurchaseOf[h].cart # <<>>,
         h \in Purchases /\ pc'[h] \in {"cap", "read", "commit"} => h \in Sold,
         h \in TopUps /\ pc'[h] = "row" => h \in intents',
         h \in Edits => pc'[h] # "publish",
         intents \subseteq intents'
  PROVE  Sells'
<1>1. ASSUME NEW p \in Purchases
      PROVE  /\ pc'[p] = "init" => PurchaseOf[p].cart # <<>>
             /\ pc'[p] \in {"cap", "read", "commit"} => p \in Sold
  <2>1. p \in Handlers
    OBVIOUS
  <2> QED BY <2>1 DEF Sells, StepFrame
<1>2. ASSUME NEW t \in TopUps, pc'[t] = "row"
      PROVE  t \in intents'
  <2>1. t \in Handlers
    OBVIOUS
  <2> QED BY <1>2, <2>1 DEF Sells, StepFrame
<1>3. ASSUME NEW e \in Edits
      PROVE  pc'[e] # "publish"
  <2>1. e \in Handlers
    OBVIOUS
  <2> QED BY <2>1 DEF Sells, StepFrame
<1>4. Sold' = Sold
  BY DEF Sold
<1> QED BY <1>1, <1>2, <1>3, <1>4 DEF Sells

\* The checks pass a tap on only if its cart can be sold.
LEMMA CheckedSold ==
  ASSUME NEW p \in Purchases, NEW w, PurchaseOf[p].cart # <<>>,
         Checked(p, w) # "refused"
  PROVE  p \in Sold
  BY DEF Checked, Sold

\* Every step of a handler keeps Sells.
LEMMA SellsStep ==
  ASSUME TypeOK, Sells, NEW h \in Handlers, StepOf(h), StepFrame(h)
  PROVE  Sells'
<1>1. CASE h \in Purchases /\ Purchase(h)
  <2>0. UNCHANGED intents /\ h \notin TopUps /\ h \notin Edits
    BY <1>1, DistinctAssumption
    DEF Purchase, PurchaseStart, PurchaseInit, PurchaseCap, PurchaseRead,
        PurchaseCommit
  <2>1. CASE PurchaseStart(h)
    <3> DEFINE w == wallet[StudentOf(h)]
               cart == PurchaseOf[h].cart
    <3>1. pc'[h] = IF cart = <<>> THEN "refused"
                   ELSE IF w.exists THEN Checked(h, w) ELSE "init"
      BY <2>1 DEF PurchaseStart, Snapshot, TypeOK
    <3>2. Checked(h, w) \in {"refused", "cap", "read"}
      BY <1>1, CheckedType
    <3>3. cart # <<>> /\ Checked(h, w) # "refused" => h \in Sold
      BY <1>1, CheckedSold
    <3> HIDE DEF w, cart
    <3>4. /\ pc'[h] = "init" => cart # <<>>
          /\ pc'[h] \in {"cap", "read", "commit"} => h \in Sold
      BY <3>1, <3>2, <3>3
    <3> QED BY <2>0, <3>4, SellsKept DEF cart
  <2>2. CASE PurchaseInit(h)
    <3> DEFINE w == Upserted(wallet[StudentOf(h)], 0)
    <3>1. pc'[h] = Checked(h, w)
      BY <2>2 DEF PurchaseInit, Snapshot, TypeOK
    <3>2. Checked(h, w) \in {"refused", "cap", "read"}
      BY <1>1, CheckedType
    <3>3. PurchaseOf[h].cart # <<>>
      BY <1>1, <2>2 DEF PurchaseInit, Sells
    <3>4. Checked(h, w) # "refused" => h \in Sold
      BY <1>1, <3>3, CheckedSold
    <3> HIDE DEF w
    <3> QED BY <2>0, <3>1, <3>2, <3>4, SellsKept
  <2>3. CASE PurchaseCap(h) \/ PurchaseRead(h) \/ PurchaseCommit(h)
    <3>1. h \in Sold /\ pc'[h] # "init"
      BY <1>1, <2>3
      DEF PurchaseCap, PurchaseRead, ReadBalance, PurchaseCommit, Post, Sells,
          TypeOK
    <3> QED BY <2>0, <3>1, SellsKept
  <2> QED BY <1>1, <2>1, <2>2, <2>3 DEF Purchase
<1>2. CASE h \in TopUps /\ TopUp(h)
  <2>1. /\ h \notin Purchases /\ h \notin Edits /\ intents \subseteq intents'
        /\ pc'[h] = "row" => h \in intents'
    BY <1>2, DistinctAssumption
    DEF TopUp, TopUpStart, TopUpInit, TopUpIntent, TopUpRow, Snapshot, TypeOK
  <2> QED BY <2>1, SellsKept
<1>3. CASE \/ h \in Hooks /\ Hook(h)
           \/ h \in Edits /\ Edit(h)
           \/ Publish(h) \/ Fail(h)
  <2>1. UNCHANGED intents
    BY <1>3 DEF Hook, HookStart, HookRead, HookCommit, Edit, EditStart, EditInit,
                EditWrite, Publish, Fail
  <2>2. \/ h \notin Purchases /\ h \notin TopUps
        \/ pc'[h] \in {"ok", "failed"}
    BY <1>3, DistinctAssumption DEF Publish, Fail, TypeOK
  <2>3. h \in Edits => pc'[h] # "publish"
    BY <1>3, DistinctAssumption
    DEF Edit, EditStart, EditInit, EditWrite, Snapshot, Publish, Fail, TypeOK
  <2> QED BY <2>1, <2>2, <2>3, SellsKept
<1> QED BY <1>1, <1>2, <1>3 DEF StepOf

\* All that a charge relies on.
Atomic ==
  Serial /\ Tested /\ Capped /\ Sells /\ Solvent /\ AnswersAreTrue

\* With one handler at a time Atomic always holds.
LEMMA AlwaysAtomic ==
  ASSUME MaxInFlight = 1
  PROVE  Spec => []Atomic
<1>1. Init => Sells
  <2> SUFFICES ASSUME Init PROVE Sells
    OBVIOUS
  <2>1. \A h \in Handlers : pc[h] = "idle"
    BY DEF Init
  <2>2. /\ \A q \in Purchases : pc[q] = "idle"
        /\ \A t \in TopUps : pc[t] = "idle"
        /\ \A e \in Edits : pc[e] = "idle"
    BY <2>1
  <2> QED BY <2>2 DEF Sells
<1>2. TypeOK /\ Sells /\ [Next]_vars => Sells'
  <2> SUFFICES ASSUME TypeOK, Sells, [Next]_vars PROVE Sells'
    OBVIOUS
  <2>1. CASE UNCHANGED <<wallet, row, intents, pc, snap, read, posted>>
    BY <2>1 DEF Sells, Sold
  <2>2. CASE \E h \in Handlers : StepOf(h) /\ StepFrame(h)
    BY <2>2, SellsStep
  <2> QED BY <2>1, <2>2, EveryStep
<1> QED BY <1>1, <1>2, TypeCorrect, AlwaysTested, AlwaysCapped, AlwaysSolvent,
           AnswersTheTruth, PTL DEF Spec, Atomic

\* What a wallet looks like to an Account depends on three of its columns.
LEMMA AccountsKept ==
  ASSUME TypeOK, NEW h \in Handlers, StepFrame(h),
         wallet'[StudentOf(h)].balance = wallet[StudentOf(h)].balance,
         CapOf(wallet'[StudentOf(h)]) = CapOf(wallet[StudentOf(h)]),
         BlockedBy(wallet'[StudentOf(h)]) = BlockedBy(wallet[StudentOf(h)])
  PROVE  UNCHANGED <<Balances, Caps, Blocks>>
<1>1. \A s \in Students :
        /\ wallet'[s].balance = wallet[s].balance
        /\ CapOf(wallet'[s]) = CapOf(wallet[s])
        /\ BlockedBy(wallet'[s]) = BlockedBy(wallet[s])
  BY DEF StepFrame
<1>2. Balances' = Balances
  BY <1>1 DEF Balances
<1>3. Caps' = Caps
  BY <1>1 DEF Caps, CapOf
<1>4. Blocks' = Blocks
  BY <1>1 DEF Blocks, BlockedBy, Nothing
<1> QED BY <1>2, <1>3, <1>4

\* Only debits are spent, and only completed rows are settled.
LEMMA SettledKept ==
  ASSUME TypeOK, TypeOK', day' = day,
         \A p \in Purchases : row'[p] = row[p],
         \A r \in RowIds :
           row'[r].status = "COMPLETED" <=> row[r].status = "COMPLETED"
  PROVE  UNCHANGED <<Settled, Spendings>>
<1>1. Settled' = Settled
  BY DEF Settled
<1>2. \A s \in Students : SpentToday(s)' = SpentToday(s)
  BY SpentSame
<1>3. Spendings' = Spendings
  BY <1>2 DEF Spendings
<1> QED BY <1>1, <1>3

\* A step of h answers h or nobody.
LEMMA AnswersStep ==
  ASSUME TypeOK, TypeOK', NEW h \in Handlers, StepFrame(h)
  PROVE  /\ Answers[h] = "none"
         /\ \/ pc'[h] \notin Ended /\ Answers' = Answers
            \/ pc'[h] \in Ended /\ Answers' = [Answers EXCEPT ![h] = pc'[h]]
<1>1. pc[h] \notin Ended
  BY DEF StepFrame, Arrives, Active, Ended
<1>2. Answers[h] = "none"
  BY <1>1 DEF Answers
<1>3. \A g \in Handlers : Answers'[g] = IF g # h THEN Answers[g]
                                        ELSE IF pc'[h] \in Ended THEN pc'[h]
                                        ELSE "none"
  BY DEF Answers, StepFrame
<1>4. Answers \in [Handlers -> {Answers[g] : g \in Handlers}]
  BY DEF Answers
<1>5. CASE pc'[h] \notin Ended
  <2>1. \A g \in Handlers : Answers'[g] = Answers[g]
    BY <1>2, <1>3, <1>5
  <2>2. Answers' = [g \in Handlers |-> Answers'[g]]
    BY DEF Answers
  <2>3. Answers = [g \in Handlers |-> Answers[g]]
    BY DEF Answers
  <2> QED BY <1>2, <1>5, <2>1, <2>2, <2>3
<1>6. CASE pc'[h] \in Ended
  <2>1. Answers' = [g \in Handlers |-> Answers'[g]]
    BY DEF Answers
  <2>2. [Answers EXCEPT ![h] = pc'[h]] =
          [g \in Handlers |-> IF g = h THEN pc'[h] ELSE Answers[g]]
    BY DEF Answers
  <2> QED BY <1>2, <1>3, <1>6, <2>1, <2>2
<1> QED BY <1>5, <1>6

\* A step that moves nothing an Account sees tells h its answer, or is a
\* stutter.
LEMMA Replies ==
  ASSUME Atomic, Atomic', NEW h \in Handlers, StepFrame(h),
         UNCHANGED <<intents, Balances, Caps, Blocks, Settled, Spendings>>,
         h \in TopUps /\ pc'[h] = "ok" => h \in intents,
         h \in Edits => pc'[h] # "ok"
  PROVE  [Acc!Next]_(Acc!vars)
<1>0. TypeOK /\ TypeOK' /\ RowsMatch' /\ AnswersAreTrue'
  BY DEF Atomic, Serial, Headed, Matches
<1>1. CASE pc'[h] \notin Ended
  <2>1. Answers' = Answers
    BY <1>0, <1>1, AnswersStep
  <2> QED BY <2>1 DEF Acc!vars
<1>2. CASE pc'[h] \in Ended
  <2>1. Answers[h] = "none" /\ Answers' = [Answers EXCEPT ![h] = pc'[h]]
    BY <1>0, <1>2, AnswersStep
  <2>2. pc'[h] = "ok" => Acc!Done(h)
    <3> SUFFICES ASSUME pc'[h] = "ok" PROVE Acc!Done(h)
      OBVIOUS
    <3>1. CASE h \in Purchases
      <4>1. h \in Settled'
        BY <1>0, <3>1 DEF AnswersAreTrue, Settled, RowIds
      <4> QED BY <3>1, <4>1 DEF Acc!Done
    <3>2. CASE h \in Hooks
      <4>1. HookRef[h] \in Settled'
        BY <1>0, <3>2, RequestAssumption DEF AnswersAreTrue, Settled, RowIds
      <4> QED BY <3>2, <4>1 DEF Acc!Done
    <3>3. CASE h \in TopUps
      BY <3>3 DEF Acc!Done
    <3> QED BY <3>1, <3>2, <3>3 DEF Handlers
  <2>3. pc'[h] = "refused" => h \notin Settled
    <3> SUFFICES ASSUME pc'[h] = "refused", h \in Settled' PROVE FALSE
      OBVIOUS
    <3>1. h \in RowIds /\ row'[h].status = "COMPLETED"
      BY DEF Settled
    <3>2. h \notin Purchases
      BY <1>0, <3>1 DEF AnswersAreTrue
    <3>3. h \notin TopUps
      BY <1>0 DEF RowsMatch, CreditsMatch, BeforeCredit
    <3> QED BY <3>1, <3>2, <3>3 DEF RowIds
  <2>4. Acc!Tell(h, pc'[h])
    BY <2>1, <2>2, <2>3 DEF Acc!Tell
  <2>5. h \in Acc!Requests
    BY DEF Acc!Requests, Handlers
  <2> QED BY <1>2, <2>4, <2>5 DEF Acc!Next, Ended
<1> QED BY <1>1, <1>2

\* The first use of a wallet opens an empty one: nothing an Account sees moves
\* but, if an edit brings it, the cap.
LEMMA Opens ==
  ASSUME Atomic, NEW h \in Handlers, pc[h] = "init", NEW limit \in Nat,
         InitializeWallet(h, limit)
  PROVE  LET s == StudentOf(h)
         IN  /\ ~wallet[s].exists /\ wallet'[s] = Upserted(wallet[s], limit)
             /\ wallet'[s].balance = wallet[s].balance
             /\ CapOf(wallet'[s]) = limit /\ CapOf(wallet[s]) = 0
             /\ BlockedBy(wallet'[s]) = BlockedBy(wallet[s])
<1> DEFINE s == StudentOf(h)
           w == wallet[s]
           u == Upserted(w, limit)
<1>1. TypeOK /\ ~w.exists /\ s \in Students
  BY StudentType DEF Atomic, Serial, Headed, Matches, Tested
<1>2. wallet'[s] = u /\ w.balance = 0
  BY <1>1 DEF InitializeWallet, TypeOK, Atomic, Serial, Headed, Matches,
              WalletsExist
<1>3. u = [exists |-> TRUE, balance |-> 0, dailyLimit |-> limit,
           blocked |-> [c \in Columns |-> {}], isActive |-> TRUE]
  BY <1>1 DEF Upserted, NoWallet
<1> HIDE DEF u
<1>4. /\ u.balance = 0 /\ CapOf(u) = limit /\ BlockedBy(u) = Nothing
      /\ CapOf(w) = 0 /\ BlockedBy(w) = Nothing
  BY <1>1, <1>3 DEF CapOf, BlockedBy, Nothing
<1> QED BY <1>1, <1>2, <1>4 DEF u

\* The steps of a tap before its commit test and answer; the commit is the
\* Charge of an Account.
LEMMA PurchaseRefines ==
  ASSUME Atomic, Atomic', NEW p \in Purchases, Purchase(p), StepFrame(p)
  PROVE  [Acc!Next]_(Acc!vars)
<1> DEFINE s == StudentOf(p)
<1>0. /\ TypeOK /\ TypeOK' /\ RowsMatch /\ WalletsExist /\ s \in Students
      /\ p \in Handlers /\ p \notin TopUps /\ p \notin Edits /\ p \notin Hooks
      /\ wallet[s] \in WalletRows
  BY StudentType, DistinctAssumption
  DEF Atomic, Serial, Headed, Matches, TypeOK
<1>1. CASE ~PurchaseCommit(p)
  <2>1. UNCHANGED <<row, day, intents>>
    BY <1>1 DEF Purchase, PurchaseStart, PurchaseInit, PurchaseCap, PurchaseRead
  <2>2. UNCHANGED <<Settled, Spendings>>
    BY <1>0, <2>1, SettledKept
  <2>3. UNCHANGED <<Balances, Caps, Blocks>>
    <3>1. CASE PurchaseInit(p)
      <4>1. pc[p] = "init" /\ InitializeWallet(p, 0)
        BY <3>1 DEF PurchaseInit
      <4> QED BY <1>0, <4>1, Opens, AccountsKept
    <3>2. CASE UNCHANGED wallet
      BY <1>0, <3>2, AccountsKept
    <3> QED BY <1>1, <3>1, <3>2
            DEF Purchase, PurchaseStart, PurchaseCap, PurchaseRead
  <2> QED BY <1>0, <2>1, <2>2, <2>3, Replies
<1>2. CASE PurchaseCommit(p)
  <2> DEFINE b == wallet[s].balance - Cost(p)
  <2>1. /\ pc[p] = "commit" /\ read[p] = wallet[s].balance
        /\ Cost(p) <= wallet[s].balance
        /\ p \in Sold /\ Allowed(p) /\ row[p].status = "NONE"
        /\ wallet[s].exists
    BY <1>0, <1>2
    DEF PurchaseCommit, Atomic, Serial, Fresh, Solvent, ReadsCover, Sells, Tested,
        RowsMatch, DebitsMatch, BeforeDebit, WalletsExist, Opened
  <2>2. /\ wallet' = [wallet EXCEPT ![s].balance = b]
        /\ \A r \in RowIds \ {p} : row'[r] = row[r]
        /\ row'[p].status = "COMPLETED" /\ pc'[p] = "publish"
        /\ UNCHANGED <<intents, day>>
    BY <1>0, <1>2, <2>1 DEF PurchaseCommit, Post, TypeOK
  <2>3. /\ wallet'[s].balance = b /\ wallet'[s].exists
        /\ wallet'[s].dailyLimit = wallet[s].dailyLimit
        /\ wallet'[s].blocked = wallet[s].blocked
        /\ \A z \in Students \ {s} : wallet'[z] = wallet[z]
    BY <1>0, <2>1, <2>2 DEF TypeOK, WalletRows
  <2>4. Balances' = [Balances EXCEPT ![s] = @ - Cost(p)]
    BY <1>0, <2>3 DEF Balances
  <2>5. UNCHANGED <<Caps, Blocks>>
    <3>1. \A z \in Students : /\ CapOf(wallet'[z]) = CapOf(wallet[z])
                              /\ BlockedBy(wallet'[z]) = BlockedBy(wallet[z])
      BY <2>1, <2>3 DEF CapOf, BlockedBy
    <3> QED BY <3>1 DEF Caps, Blocks, CapOf, BlockedBy, Nothing
  <2>6. Spendings' = [Spendings EXCEPT ![s] = @ + Cost(p)]
    <3>1. SpentToday(s)' = SpentToday(s) + Cost(p)
      BY <1>0, <1>2, <2>1, <2>2, SpentCommit DEF Charged
    <3>2. \A z \in Students \ {s} : SpentToday(z)' = SpentToday(z)
      BY <1>0, <2>2, SpentSame
    <3> QED BY <1>0, <3>1, <3>2 DEF Spendings
  <2>7. Settled' = Settled \cup {p} /\ p \notin Settled
    BY <2>1, <2>2 DEF Settled
  <2>8. Answers[p] = "none" /\ Answers' = Answers
    BY <1>0, <2>2, AnswersStep DEF Ended
  <2>9. \A c \in Columns : CartTags[p] \cap Blocks[s][c] = {}
    <3>1. Blocks[s] = wallet[s].blocked
      BY <1>0, <2>1 DEF Blocks, BlockedBy
    <3>2. \A i \in ItemsOf(PurchaseOf[p].cart), c \in Columns :
            TagsOf[i] \cap wallet[s].blocked[c] = {}
      BY <2>1 DEF Allowed, Restricted
    <3> QED BY <3>1, <3>2 DEF CartTags
  <2>10. Caps[s] > 0 => Spendings[s] + Cost(p) <= Caps[s]
    BY <1>0, <2>1 DEF Caps, CapOf, Spendings, Atomic, Capped
  <2>11. Cost(p) <= Balances[s] /\ Owners[p] = s /\ Costs[p] = Cost(p)
    BY <1>0, <2>1 DEF Balances, Owners, Costs
  <2>12. Acc!Charge(p)
    BY <2>1, <2>2, <2>4, <2>5, <2>6, <2>7, <2>8, <2>9, <2>10, <2>11
    DEF Acc!Charge
  <2> QED BY <2>12 DEF Acc!Next
<1> QED BY <1>1, <1>2

\* The intent of a top-up is the Ask of an Account; the row only answers.
LEMMA TopUpRefines ==
  ASSUME Atomic, Atomic', NEW t \in TopUps, TopUp(t), StepFrame(t)
  PROVE  [Acc!Next]_(Acc!vars)
<1>0. /\ TypeOK /\ TypeOK' /\ RowsMatch
      /\ t \in Handlers /\ t \notin Purchases /\ t \notin Edits /\ day' = day
  BY DistinctAssumption
  DEF Atomic, Serial, Headed, Matches, TopUp, TopUpStart, TopUpInit, TopUpIntent,
      TopUpRow
<1>1. UNCHANGED <<Balances, Caps, Blocks>>
  <2>1. CASE TopUpInit(t)
    <3>1. pc[t] = "init" /\ InitializeWallet(t, 0)
      BY <2>1 DEF TopUpInit
    <3> QED BY <1>0, <3>1, Opens, AccountsKept
  <2>2. CASE UNCHANGED wallet
    BY <1>0, <2>2, AccountsKept
  <2> QED BY <2>1, <2>2 DEF TopUp, TopUpStart, TopUpIntent, TopUpRow
<1>2. UNCHANGED <<Settled, Spendings>>
  <2>1. CASE TopUpRow(t)
    <3>1. /\ \A r \in RowIds \ {t} : row'[r] = row[r]
          /\ row[t].status = "NONE" /\ row'[t].status = "PENDING"
      BY <1>0, <2>1 DEF TopUpRow, TypeOK, RowsMatch, CreditsMatch, BeforeCredit
    <3> QED BY <1>0, <3>1, SettledKept
  <2>2. CASE UNCHANGED row
    BY <1>0, <2>2, SettledKept
  <2> QED BY <2>1, <2>2 DEF TopUp, TopUpStart, TopUpInit, TopUpIntent
<1>3. CASE TopUpIntent(t)
  <2>1. intents' = intents \cup {t} /\ pc'[t] = "row"
    BY <1>0, <1>3 DEF TopUpIntent, TypeOK
  <2>2. Answers[t] = "none" /\ Answers' = Answers
    BY <1>0, <2>1, AnswersStep DEF Ended
  <2>3. Acc!Ask(t)
    BY <1>1, <1>2, <2>1, <2>2 DEF Acc!Ask
  <2> QED BY <2>3 DEF Acc!Next
<1>4. CASE ~TopUpIntent(t)
  <2>1. UNCHANGED intents
    BY <1>4 DEF TopUp, TopUpStart, TopUpInit, TopUpRow
  <2>2. pc'[t] = "ok" => t \in intents
    BY <1>0, <1>4
    DEF TopUp, TopUpStart, TopUpInit, TopUpRow, Snapshot, TypeOK, Atomic, Sells
  <2> QED BY <1>0, <1>1, <1>2, <2>1, <2>2, Replies
<1> QED BY <1>3, <1>4

\* The commit of a callback is the Credit of an Account.
LEMMA HookRefines ==
  ASSUME Atomic, Atomic', NEW k \in Hooks, Hook(k), StepFrame(k)
  PROVE  [Acc!Next]_(Acc!vars)
<1> DEFINE s == StudentOf(k)
           t == HookRef[k]
<1>0. /\ TypeOK /\ TypeOK' /\ RowsMatch /\ WalletsExist /\ s \in Students
      /\ k \in Handlers /\ k \notin TopUps /\ k \notin Edits
      /\ t \in TopUps /\ t \notin Purchases /\ StudentOf(t) = s
      /\ wallet[s] \in WalletRows /\ UNCHANGED <<day, intents>>
  BY StudentType, HookStudent, DistinctAssumption, RequestAssumption
  DEF Atomic, Serial, Headed, Matches, TypeOK, Hook, HookStart, HookRead,
      HookCommit
<1>1. CASE ~HookCommit(k)
  <2>1. UNCHANGED <<wallet, row>>
    BY <1>1 DEF Hook, HookStart, HookRead
  <2>2. UNCHANGED <<Balances, Caps, Blocks, Settled, Spendings>>
    BY <1>0, <2>1, AccountsKept, SettledKept
  <2> QED BY <1>0, <2>2, Replies
<1>2. CASE HookCommit(k)
  <2> DEFINE b == wallet[s].balance + TopUpOf[t].amount
  <2>1. /\ pc[k] = "commit" /\ read[k] = wallet[s].balance
        /\ t \in intents /\ row[t].status = "PENDING"
    BY <1>0, <1>2
    DEF HookCommit, Atomic, Serial, Fresh, WalletsExist, Opened
  <2>2. wallet[s].exists
    BY <1>0, <2>1 DEF WalletsExist
  <2>3. /\ wallet' = [wallet EXCEPT ![s].balance = b]
        /\ \A r \in RowIds \ {t} : row'[r] = row[r]
        /\ row'[t].status = "COMPLETED" /\ pc'[k] = "publish"
    <3>1. row[t] \in LedgerRows /\ t \in RowIds
      BY <1>0 DEF TypeOK
    <3>2. /\ wallet' = [wallet EXCEPT ![s].balance = b]
          /\ row' = [row EXCEPT ![t] = [row[t] EXCEPT !.status = "COMPLETED",
                                                      !.balanceAfter = b]]
          /\ pc' = [pc EXCEPT ![k] = "publish"]
      BY <1>2, <2>1 DEF HookCommit, Post
    <3> HIDE DEF b, s, t
    <3> QED BY <1>0, <3>1, <3>2 DEF TypeOK, LedgerRows
  <2>4. /\ wallet'[s].balance = b /\ wallet'[s].exists
        /\ wallet'[s].dailyLimit = wallet[s].dailyLimit
        /\ wallet'[s].blocked = wallet[s].blocked
        /\ \A z \in Students \ {s} : wallet'[z] = wallet[z]
    BY <1>0, <2>2, <2>3 DEF TypeOK, WalletRows
  <2>5. Balances' = [Balances EXCEPT ![s] = @ + TopUpOf[t].amount]
    BY <1>0, <2>4 DEF Balances
  <2>6. UNCHANGED <<Caps, Blocks>>
    <3>1. \A z \in Students : /\ CapOf(wallet'[z]) = CapOf(wallet[z])
                              /\ BlockedBy(wallet'[z]) = BlockedBy(wallet[z])
      BY <2>2, <2>4 DEF CapOf, BlockedBy
    <3> QED BY <3>1 DEF Caps, Blocks, CapOf, BlockedBy, Nothing
  <2>7. Spendings' = Spendings
    <3>1. \A z \in Students : SpentToday(z)' = SpentToday(z)
      BY <1>0, <2>3, SpentSame
    <3> QED BY <3>1 DEF Spendings
  <2>8. Settled' = Settled \cup {t} /\ t \notin Settled
    BY <1>0, <2>1, <2>3 DEF Settled
  <2>9. Answers' = Answers
    BY <1>0, <2>3, AnswersStep DEF Ended
  <2>10. Owners[t] = s /\ Worth[t] = TopUpOf[t].amount
    BY <1>0 DEF Owners, Worth
  <2> HIDE DEF s, t
  <2>11. Acc!Credit(t)
    BY <1>0, <2>1, <2>5, <2>6, <2>7, <2>8, <2>9, <2>10 DEF Acc!Credit
  <2> QED BY <1>0, <2>11 DEF Acc!Next
<1> QED BY <1>1, <1>2

\* An edit that opens the wallet sets its cap, and one that writes sets its
\* rules.
LEMMA EditRefines ==
  ASSUME Atomic, Atomic', NEW e \in Edits, Edit(e), StepFrame(e)
  PROVE  [Acc!Next]_(Acc!vars)
<1> DEFINE s == StudentOf(e)
           w == wallet[s]
           cap == EditOf[e].dailyLimit
           given == EditOf[e].blocked
<1>0. /\ TypeOK /\ TypeOK' /\ s \in Students /\ e \in Handlers
      /\ e \notin TopUps /\ w \in WalletRows
      /\ UNCHANGED <<row, day, intents>>
  BY StudentType, DistinctAssumption
  DEF Atomic, Serial, Headed, Matches, TypeOK, Edit, EditStart, EditInit, EditWrite
<1>1. UNCHANGED <<Settled, Spendings>>
  BY <1>0, SettledKept
<1>2. CASE EditStart(e)
  <2>1. UNCHANGED wallet /\ pc'[e] # "ok"
    BY <1>0, <1>2 DEF EditStart, Snapshot, TypeOK
  <2>2. UNCHANGED <<Balances, Caps, Blocks>>
    BY <1>0, <2>1, AccountsKept
  <2> QED BY <1>0, <1>1, <2>1, <2>2, Replies
<1>3. CASE EditInit(e)
  <2> DEFINE limit == Given(cap, 0)
  <2>1. /\ pc[e] = "init" /\ InitializeWallet(e, limit) /\ limit \in Nat
        /\ EditOf[e].authorised /\ pc'[e] = "write"
    BY <1>0, <1>3, RequestAssumption
    DEF EditInit, Given, NoChange, Atomic, Tested, Snapshot, TypeOK
  <2>2. /\ wallet'[s].balance = w.balance
        /\ CapOf(wallet'[s]) = limit /\ CapOf(w) = 0
        /\ BlockedBy(wallet'[s]) = BlockedBy(w)
        /\ \A z \in Students \ {s} : wallet'[z] = wallet[z]
    <3> HIDE DEF limit
    <3> QED BY <1>0, <2>1, Opens DEF StepFrame
  <2>3. UNCHANGED <<Balances, Blocks>>
    <3>1. \A z \in Students : /\ wallet'[z].balance = wallet[z].balance
                              /\ BlockedBy(wallet'[z]) = BlockedBy(wallet[z])
      BY <2>2
    <3>2. Balances' = Balances
      BY <3>1 DEF Balances
    <3>3. Blocks' = Blocks
      BY <3>1 DEF Blocks, BlockedBy, Nothing
    <3> QED BY <3>2, <3>3
  <2>4. Caps' = [Caps EXCEPT ![s] = IF cap = NoChange THEN @ ELSE cap]
    <3>1. \A z \in Students : CapOf(wallet'[z]) =
            IF z # s THEN CapOf(wallet[z])
            ELSE IF cap = NoChange THEN CapOf(w) ELSE cap
      BY <2>2 DEF Given
    <3>2. Caps' = [z \in Students |-> CapOf(wallet'[z])]
      BY DEF Caps, CapOf
    <3> HIDE DEF cap
    <3> QED BY <1>0, <3>1, <3>2 DEF Caps
  <2>5. Answers[e] = "none" /\ Answers' = Answers
    BY <1>0, <2>1, AnswersStep DEF Ended
  <2>6. Owners[e] = s
    BY <1>0 DEF Owners
  <2>7. Acc!SetLimit(e)
    BY <1>0, <1>1, <2>1, <2>3, <2>4, <2>5, <2>6 DEF Acc!SetLimit, Acc!Limited
  <2> QED BY <2>7 DEF Acc!Next
<1>4. CASE EditWrite(e)
  <2>1. /\ pc[e] = "write" /\ w.exists /\ EditOf[e].authorised
        /\ wallet'[s] = Edited(w, e) /\ pc'[e] = "ok"
        /\ \A z \in Students \ {s} : wallet'[z] = wallet[z]
    BY <1>0, <1>4, DistinctAssumption
    DEF EditWrite, Atomic, Tested, Serial, Headed, Matches, WalletsExist, Opened,
        TypeOK
  <2>2. /\ Edited(w, e).balance = w.balance /\ Edited(w, e).exists
        /\ Edited(w, e).dailyLimit = Given(cap, w.dailyLimit)
        /\ Edited(w, e).blocked = [c \in Columns |-> IF c \in DOMAIN given
                                      THEN given[c] ELSE w.blocked[c]]
    BY <1>0, <2>1 DEF Edited, WalletRows
  <2>3. Balances' = Balances
    BY <2>1, <2>2 DEF Balances
  <2>4. Caps' = [Caps EXCEPT ![s] = IF cap = NoChange THEN @ ELSE cap]
    <3>1. \A z \in Students : CapOf(wallet'[z]) =
            IF z # s THEN CapOf(wallet[z])
            ELSE IF cap = NoChange THEN CapOf(w) ELSE cap
      BY <2>1, <2>2 DEF Given, CapOf
    <3>2. Caps' = [z \in Students |-> CapOf(wallet'[z])]
      BY DEF Caps, CapOf
    <3> HIDE DEF cap
    <3> QED BY <1>0, <3>1, <3>2 DEF Caps
  <2>5. Blocks' = [Blocks EXCEPT ![s] =
                     [c \in Columns |-> IF c \in DOMAIN given THEN given[c]
                                        ELSE @[c]]]
    <3>1. \A z \in Students \ {s} : BlockedBy(wallet'[z]) = BlockedBy(wallet[z])
      BY <2>1
    <3>2. /\ BlockedBy(w) = w.blocked
          /\ BlockedBy(wallet'[s]) =
               [c \in Columns |-> IF c \in DOMAIN given THEN given[c]
                                  ELSE w.blocked[c]]
      BY <2>1, <2>2 DEF BlockedBy
    <3>3. Blocks' = [z \in Students |-> BlockedBy(wallet'[z])]
      BY DEF Blocks, BlockedBy, Nothing
    <3> HIDE DEF given
    <3> QED BY <1>0, <3>1, <3>2, <3>3 DEF Blocks
  <2>6. Answers[e] = "none" /\ Answers' = [Answers EXCEPT ![e] = "ok"]
    BY <1>0, <2>1, AnswersStep DEF Ended
  <2>7. Owners[e] = s
    BY <1>0 DEF Owners
  <2>8. Acc!SetRules(e)
    BY <1>0, <1>1, <2>1, <2>3, <2>4, <2>5, <2>6, <2>7
    DEF Acc!SetRules, Acc!Limited
  <2> QED BY <2>8 DEF Acc!Next
<1> QED BY <1>2, <1>3, <1>4 DEF Edit

\* The publish that ends a handler, and its failure, answer it.
LEMMA EndRefines ==
  ASSUME Atomic, Atomic', NEW h \in Handlers, Publish(h) \/ Fail(h), StepFrame(h)
  PROVE  [Acc!Next]_(Acc!vars)
<1>1. /\ TypeOK /\ TypeOK' /\ RowsMatch /\ Tested
      /\ UNCHANGED <<wallet, row, intents, day>>
  BY DEF Publish, Fail, Atomic, Serial, Headed, Matches
<1>2. UNCHANGED <<Balances, Caps, Blocks, Settled, Spendings>>
  BY <1>1, AccountsKept, SettledKept
<1>3. CASE Fail(h)
  <2>1. pc'[h] = "failed"
    BY <1>1, <1>3 DEF Fail, TypeOK
  <2> QED BY <1>1, <1>2, <2>1, Replies
<1>4. CASE Publish(h)
  <2>1. pc[h] = "publish"
    BY <1>4 DEF Publish
  <2>2. h \notin TopUps
    BY <1>1, <2>1 DEF RowsMatch, CreditsMatch, BeforeCredit
  <2>3. h \notin Edits
    BY <2>1 DEF Atomic, Sells
  <2> QED BY <1>1, <1>2, <2>2, <2>3, Replies
<1> QED BY <1>3, <1>4

\* Every step of the wallets is a step of the Account.
LEMMA StepRefines ==
  ASSUME Atomic, Atomic', [Next]_vars
  PROVE  [Acc!Next]_(Acc!vars)
<1>0. TypeOK /\ TypeOK' /\ Capped
  BY DEF Atomic, Serial, Headed, Matches
<1>1. CASE \E h \in Handlers : StepOf(h) /\ StepFrame(h)
  BY <1>1, PurchaseRefines, TopUpRefines, HookRefines, EditRefines, EndRefines
  DEF StepOf
<1>2. CASE NextDay \/ UNCHANGED vars
  <2>1. /\ UNCHANGED <<wallet, row, intents, pc>>
        /\ day' = day \/ day' = day + 1
    BY <1>2 DEF NextDay, vars
  <2>2. UNCHANGED <<Balances, Caps, Blocks, Settled, Answers>>
    <3>1. UNCHANGED <<Balances, Settled, Answers>>
      BY <2>1 DEF Balances, Settled, Answers
    <3>2. UNCHANGED <<Caps, Blocks>>
      BY <2>1 DEF Caps, Blocks, CapOf, BlockedBy, Nothing
    <3> QED BY <3>1, <3>2
  <2>3. CASE day' = day
    <3>1. \A s \in Students : SpentToday(s)' = SpentToday(s)
      BY <1>0, <2>1, <2>3, SpentSame
    <3>2. Spendings' = Spendings
      BY <3>1 DEF Spendings
    <3> QED BY <2>1, <2>2, <3>2 DEF Acc!vars
  <2>4. CASE day' = day + 1
    <3>1. \A s \in Students : SpentToday(s)' = 0
      BY <1>0, <2>1, <2>4, SpentMidnight
    <3>2. Spendings' = [s \in Students |-> 0]
      BY <3>1 DEF Spendings
    <3>3. Acc!Midnight
      BY <2>1, <2>2, <3>2 DEF Acc!Midnight
    <3> QED BY <3>3 DEF Acc!Next
  <2> QED BY <2>1, <2>3, <2>4
<1> QED BY <1>0, <1>1, <1>2, DayOrStep

\* The wallets start as the Account does.
LEMMA InitRefines == Init => Acc!Init
<1> SUFFICES ASSUME Init PROVE Acc!Init
  OBVIOUS
<1>1. /\ wallet = Opening /\ intents = {}
      /\ \A r \in RowIds : row[r].status = "NONE"
      /\ \A h \in Handlers : pc[h] = "idle"
  BY DEF Init, NoRow
<1>2. \A s \in Students : SpentToday(s) = 0
  <2> TAKE s \in Students
  <2>1. DebitsToday(s) = {}
    BY <1>1 DEF DebitsToday
  <2>2. SpentToday(s) = SumFunctionOnSet(AmountOf, {})
    BY <2>1 DEF SpentToday, AmountOf
  <2> QED BY <2>2, SumEmpty
<1>3. Spendings = [s \in Students |-> 0]
  BY <1>2 DEF Spendings
<1>4. Settled = {}
  BY <1>1 DEF Settled
<1>5. Answers = [h \in Handlers |-> "none"]
  BY <1>1 DEF Answers, Ended
<1> QED BY <1>1, <1>3, <1>4, <1>5
        DEF Acc!Init, Acc!Requests, Balances, Caps, Blocks, Handlers

\* The wallets implement an Account, IsAnAccount, when the handlers of one
\* wallet do not overlap: whatever the catalogue, the rules, the number of
\* requests, the callbacks that repeat, the failures and the midnights, each
\* charge and each credit is as good as one atomic step.
THEOREM WalletIsAnAccount ==
  ASSUME MaxInFlight = 1
  PROVE  Spec => IsAnAccount
<1>1. Atomic /\ Atomic' /\ [Next]_vars => [Acc!Next]_(Acc!vars)
  BY StepRefines
<1> QED
  BY <1>1, InitRefines, AlwaysAtomic, PTL DEF Spec, IsAnAccount, Acc!Spec
=============================================================================
