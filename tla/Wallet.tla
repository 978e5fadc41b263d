------------------------------- MODULE Wallet -------------------------------
(***************************************************************************)
(* The canteen wallet: WalletService of src/backend/src/finance/services.  *)
(*                                                                         *)
(* Every HTTP request or gateway callback is a handler of its own, and a   *)
(* step is the code between two awaits: one statement on PostgreSQL, one   *)
(* call of the gateway or one publish on Redis.  The database runs at READ *)
(* COMMITTED, Prisma's default: a $transaction that reads and then updates *)
(* takes no lock when it reads, so it is modelled as a read step and a     *)
(* commit step (nobody sees a half-done transaction, and the UPDATE keeps  *)
(* its row lock until the commit), and other handlers run in between.      *)
(*                                                                         *)
(* Money is in piastres, a natural number: Decimal(12,2) is exact.         *)
(***************************************************************************)
EXTENDS Integers, Sequences, FiniteSets, SequencesExt

CONSTANTS
    Students,     \* owners of wallets
    Tags,         \* what a parent can block: a category, an item or a keyword
    Menu,         \* items of the canteen catalogue
    Price,        \* item -> unit price
    TagsOf,       \* item -> the tags a restriction can match it by
    InStock,      \* items whose isAvailable is true
    Purchases,    \* purchase requests: NFC taps at the canteen terminal
    PurchaseOf,   \* request -> [student, cart], a cart is a sequence of lines
    TopUps,       \* top-up requests, also the gatewayRef of the intent
    TopUpOf,      \* request -> [student, amount]
    Hooks,        \* deliveries of gateway callbacks
    HookRef,      \* delivery -> the gatewayRef it confirms
    Edits,        \* requests that edit restrictions and the daily cap
    EditOf,       \* request -> [student, authorised, dailyLimit, blocked]
    Opening,      \* student -> the wallet row the day starts with
    MaxInFlight,  \* bound: handlers in flight on one student's wallet
    MaxDay        \* bound: last calendar day of the model

NoChange == -1    \* an optional field the request leaves out

Columns == {"blockedCategoryIds", "blockedItemIds", "blockedKeywords"}

Handlers == Purchases \cup TopUps \cup Hooks \cup Edits
RowIds   == Purchases \cup TopUps

WalletRows ==
    [exists: BOOLEAN, balance: Int, dailyLimit: Nat,
     blocked: [Columns -> SUBSET Tags], isActive: BOOLEAN]

Line == [item: STRING, qty: Nat \ {0}]

\* totalCost: the sum of the line totals of a cart.
Total(cart) ==
    SumFunctionOnSet([i \in DOMAIN cart |-> Price[cart[i].item] * cart[i].qty],
                     DOMAIN cart)

ItemsOf(cart) == {cart[i].item : i \in DOMAIN cart}

\* The catalogue query returns each item once, so a cart that names an item
\* twice is refused like one that names an unknown item.
Listed(cart) == Cardinality(ItemsOf(cart) \cap Menu) = Len(cart)

Cost(p) == IF Listed(PurchaseOf[p].cart) THEN Total(PurchaseOf[p].cart) ELSE 0

-----------------------------------------------------------------------------
ASSUME RequestAssumption ==
    /\ PurchaseOf \in [Purchases -> [student: Students, cart: Seq(Line)]]
    /\ TopUpOf \in [TopUps -> [student: Students, amount: Nat]]
    /\ HookRef \in [Hooks -> TopUps]
    /\ \A e \in Edits : /\ EditOf[e].student \in Students
                        /\ EditOf[e].authorised \in BOOLEAN
                        /\ EditOf[e].dailyLimit \in Nat \cup {NoChange}
                        /\ DOMAIN EditOf[e].blocked \subseteq Columns
                        /\ \A c \in DOMAIN EditOf[e].blocked :
                              EditOf[e].blocked[c] \subseteq Tags

\* Every item of the catalogue has a price in piastres.
ASSUME PriceAssumption == Price \in [Menu -> Nat]

\* The four kinds of request have identifiers of their own.
ASSUME DistinctAssumption ==
    /\ Purchases \cap TopUps = {} /\ Purchases \cap Hooks = {}
    /\ Purchases \cap Edits = {}  /\ TopUps \cap Hooks = {}
    /\ TopUps \cap Edits = {}     /\ Hooks \cap Edits = {}

\* The day starts with wallets that are not overdrawn, and a student without
\* a wallet owns nothing.
ASSUME OpeningAssumption ==
    /\ Opening \in [Students -> WalletRows]
    /\ \A s \in Students : /\ Opening[s].balance >= 0
                           /\ ~Opening[s].exists => Opening[s].balance = 0

ASSUME BoundAssumption ==
    /\ MaxInFlight \in Nat /\ MaxDay \in Nat /\ IsFiniteSet(Handlers)
-----------------------------------------------------------------------------
VARIABLES
    wallet,    \* student -> its row of the table wallets
    row,       \* id -> its row of wallet_transactions (a debit or a credit)
    intents,   \* top-ups the gateway has issued an intent for
    day,       \* the calendar day
    pc,        \* handler -> where it stands, or how it was answered
    snap,      \* handler -> the wallet row it read outside any transaction
    read,      \* handler -> the balance its transaction has read
    posted     \* history: student -> ids in the order they moved the balance

vars == <<wallet, row, intents, day, pc, snap, read, posted>>

Active == {"init", "cap", "read", "commit", "publish", "intent", "row", "write"}
Ended  == {"ok", "refused", "failed"}

Statuses == {"NONE", "PENDING", "COMPLETED"}
LedgerRows == [status: Statuses, amount: Nat, balanceAfter: Int, day: 0..MaxDay]

NoRow    == [status |-> "NONE", amount |-> 0, balanceAfter |-> 0, day |-> 0]
NoWallet == [exists |-> FALSE, balance |-> 0, dailyLimit |-> 0,
             blocked |-> [c \in Columns |-> {}], isActive |-> FALSE]

StudentOf(h) ==
    IF h \in Purchases THEN PurchaseOf[h].student
    ELSE IF h \in TopUps THEN TopUpOf[h].student
    ELSE IF h \in Hooks THEN TopUpOf[HookRef[h]].student
    ELSE EditOf[h].student

InFlight(s) == {h \in Handlers : StudentOf(h) = s /\ pc[h] \in Active}

Init ==
    /\ wallet = Opening
    /\ row = [r \in RowIds |-> NoRow]
    /\ intents = {}
    /\ day = 0
    /\ pc = [h \in Handlers |-> "idle"]
    /\ snap = [h \in Handlers |-> NoWallet]
    /\ read = [h \in Handlers |-> 0]
    /\ posted = [s \in Students |-> <<>>]

-----------------------------------------------------------------------------
(* Steps the handlers share *)

Arrives(h) == /\ pc[h] = "idle"
              /\ Cardinality(InFlight(StudentOf(h))) < MaxInFlight

\* The handler reads the wallet of its student and goes on to `next'.
Snapshot(h, w, next) == /\ snap' = [snap EXCEPT ![h] = w]
                        /\ pc' = [pc EXCEPT ![h] = next]

\* The transaction reads the balance; no row lock is taken.
ReadBalance(h) == /\ read' = [read EXCEPT ![h] = wallet[StudentOf(h)].balance]
                  /\ pc' = [pc EXCEPT ![h] = "commit"]

\* initializeWallet: the upsert inserts a wallet, or, when another handler
\* has inserted one since the snapshot, overwrites its cap and activates it.
Upserted(w, limit) ==
    IF w.exists THEN [w EXCEPT !.dailyLimit = limit, !.isActive = TRUE]
    ELSE [NoWallet EXCEPT !.exists = TRUE, !.dailyLimit = limit,
                          !.isActive = TRUE]

InitializeWallet(h, limit) ==
    LET s == StudentOf(h)
    IN  wallet' = [wallet EXCEPT ![s] = Upserted(wallet[s], limit)]

\* Both transactions write an absolute balance together with the ledger row.
Post(h, id, balance, r) ==
    LET s == StudentOf(h)
    IN  /\ wallet' = [wallet EXCEPT ![s].balance = balance]
        /\ row' = [row EXCEPT ![id] = r]
        /\ posted' = [posted EXCEPT ![s] = Append(@, id)]
        /\ pc' = [pc EXCEPT ![h] = "publish"]

\* The alert to the parents is awaited after the commit.
Publish(h) ==
    /\ pc[h] = "publish"
    /\ pc' = [pc EXCEPT ![h] = "ok"]
    /\ UNCHANGED <<wallet, row, intents, day, snap, read, posted>>

\* A statement, a publish or the whole process fails: an open transaction is
\* rolled back, what was committed stays, and the client sees an error.
Fail(h) ==
    /\ pc[h] \in Active
    /\ pc' = [pc EXCEPT ![h] = "failed"]
    /\ UNCHANGED <<wallet, row, intents, day, snap, read, posted>>

-----------------------------------------------------------------------------
(* processCanteenTransaction *)

Restricted(w, item) == \E c \in Columns : TagsOf[item] \cap w.blocked[c] # {}

\* Mutant of Checked: the loop over the cart tests the stock only.
CheckedStockOnly(p, w) ==
    LET cart == PurchaseOf[p].cart
    IN  IF ~w.isActive \/ ~Listed(cart) \/ ~(ItemsOf(cart) \subseteq InStock)
        THEN "refused" ELSE IF w.dailyLimit > 0 THEN "cap" ELSE "read"

\* Where a purchase goes after the checks on its snapshot of the wallet.
Checked(p, w) ==
    LET cart == PurchaseOf[p].cart
        refused == \/ ~w.isActive
                   \/ ~Listed(cart)
                   \/ \E i \in ItemsOf(cart) : i \notin InStock \/ Restricted(w, i)
    IN  IF refused THEN "refused"
        ELSE IF w.dailyLimit > 0 THEN "cap" ELSE "read"

PurchaseStart(p) ==
    LET w == wallet[StudentOf(p)]
    IN  /\ Arrives(p)
        /\ Snapshot(p, w, IF PurchaseOf[p].cart = <<>> THEN "refused"
                          ELSE IF w.exists THEN Checked(p, w) ELSE "init")
        /\ UNCHANGED <<wallet, row, intents, day, read, posted>>

PurchaseInit(p) ==
    LET w == Upserted(wallet[StudentOf(p)], 0)
    IN  /\ pc[p] = "init"
        /\ InitializeWallet(p, 0)
        /\ Snapshot(p, w, Checked(p, w))
        /\ UNCHANGED <<row, intents, day, read, posted>>

\* The completed debits of the wallet since todayStart.
DebitsToday(s) == {p \in Purchases : /\ PurchaseOf[p].student = s
                                     /\ row[p].status = "COMPLETED"
                                     /\ row[p].day = day}

\* The aggregate over them.
SpentToday(s) ==
    SumFunctionOnSet([p \in Purchases |-> row[p].amount], DebitsToday(s))

\* Mutant of PurchaseCap: the cost of this purchase is not projected.
PurchaseCapSpent(p) ==
    /\ pc[p] = "cap"
    /\ pc' = [pc EXCEPT ![p] =
                 IF SpentToday(StudentOf(p)) > snap[p].dailyLimit
                 THEN "refused" ELSE "read"]
    /\ UNCHANGED <<wallet, row, intents, day, snap, read, posted>>

PurchaseCap(p) ==
    /\ pc[p] = "cap"
    /\ pc' = [pc EXCEPT ![p] =
                 IF SpentToday(StudentOf(p)) + Cost(p) > snap[p].dailyLimit
                 THEN "refused" ELSE "read"]
    /\ UNCHANGED <<wallet, row, intents, day, snap, read, posted>>

\* Mutant of PurchaseRead: the balance is not tested inside the transaction.
PurchaseReadUntested(p) ==
    /\ pc[p] = "read"
    /\ ReadBalance(p)
    /\ UNCHANGED <<wallet, row, intents, day, snap, posted>>

PurchaseRead(p) ==
    /\ pc[p] = "read"
    /\ IF wallet[StudentOf(p)].balance < Cost(p)
       THEN pc' = [pc EXCEPT ![p] = "refused"] /\ UNCHANGED read
       ELSE ReadBalance(p)
    /\ UNCHANGED <<wallet, row, intents, day, snap, posted>>

\* Mutant of PurchaseCommit: the update decrements the current balance, the
\* ledger row still takes the balance read before.
PurchaseCommitDecrement(p) ==
    /\ pc[p] = "commit"
    /\ Post(p, p, wallet[StudentOf(p)].balance - Cost(p),
            [status |-> "COMPLETED", amount |-> Cost(p),
             balanceAfter |-> read[p] - Cost(p), day |-> day])
    /\ UNCHANGED <<intents, day, snap, read>>

PurchaseCommit(p) ==
    /\ pc[p] = "commit"
    /\ Post(p, p, read[p] - Cost(p),
            [status |-> "COMPLETED", amount |-> Cost(p),
             balanceAfter |-> read[p] - Cost(p), day |-> day])
    /\ UNCHANGED <<intents, day, snap, read>>

-----------------------------------------------------------------------------
(* initiateTopUp *)

\* Mutant of TopUpStart: the wallet is initialized whether or not it exists.
TopUpStartInitializes(t) ==
    /\ Arrives(t)
    /\ Snapshot(t, wallet[StudentOf(t)], "init")
    /\ UNCHANGED <<wallet, row, intents, day, read, posted>>

TopUpStart(t) ==
    LET w == wallet[StudentOf(t)]
    IN  /\ Arrives(t)
        /\ Snapshot(t, w, IF w.exists THEN "intent" ELSE "init")
        /\ UNCHANGED <<wallet, row, intents, day, read, posted>>

TopUpInit(t) ==
    /\ pc[t] = "init"
    /\ InitializeWallet(t, 0)
    /\ Snapshot(t, Upserted(wallet[StudentOf(t)], 0), "intent")
    /\ UNCHANGED <<row, intents, day, read, posted>>

\* createPaymentIntent: from here on the gateway may call back.
TopUpIntent(t) ==
    /\ pc[t] = "intent"
    /\ intents' = intents \cup {t}
    /\ pc' = [pc EXCEPT ![t] = "row"]
    /\ UNCHANGED <<wallet, row, day, snap, read, posted>>

TopUpRow(t) ==
    /\ pc[t] = "row"
    /\ row' = [row EXCEPT ![t] =
                  [status |-> "PENDING", amount |-> TopUpOf[t].amount,
                   balanceAfter |-> snap[t].balance, day |-> day]]
    /\ pc' = [pc EXCEPT ![t] = "ok"]
    /\ UNCHANGED <<wallet, intents, day, snap, read, posted>>

-----------------------------------------------------------------------------
(* processWebhookConfirmation *)

\* Mutant of HookStart: no idempotency test.
HookStartRepeats(k) ==
    /\ HookRef[k] \in intents
    /\ Arrives(k)
    /\ pc' = [pc EXCEPT ![k] = IF row[HookRef[k]].status = "NONE"
                               THEN "refused" ELSE "read"]
    /\ UNCHANGED <<wallet, row, intents, day, snap, read, posted>>

\* Mutant of HookStart: an unknown reference is acknowledged like a repeat.
HookStartLenient(k) ==
    /\ HookRef[k] \in intents
    /\ Arrives(k)
    /\ pc' = [pc EXCEPT ![k] = IF row[HookRef[k]].status = "PENDING"
                               THEN "read" ELSE "ok"]
    /\ UNCHANGED <<wallet, row, intents, day, snap, read, posted>>

\* The status is tested on a row read before the transaction begins.
HookStart(k) ==
    /\ HookRef[k] \in intents
    /\ Arrives(k)
    /\ LET found == row[HookRef[k]].status
       IN  pc' = [pc EXCEPT ![k] = IF found = "NONE" THEN "refused"
                                   ELSE IF found = "COMPLETED" THEN "ok"
                                   ELSE "read"]
    /\ UNCHANGED <<wallet, row, intents, day, snap, read, posted>>

HookRead(k) ==
    /\ pc[k] = "read"
    /\ ReadBalance(k)
    /\ UNCHANGED <<wallet, row, intents, day, snap, posted>>

\* Mutant of HookCommit: the row keeps the balance noted at initiation.
HookCommitStale(k) ==
    LET t == HookRef[k]
    IN  /\ pc[k] = "commit"
        /\ Post(k, t, read[k] + TopUpOf[t].amount,
                [row[t] EXCEPT !.status = "COMPLETED"])
        /\ UNCHANGED <<intents, day, snap, read>>

\* Mutant of HookCommit: the status is not written.
HookCommitPending(k) ==
    LET t == HookRef[k]
        balance == read[k] + TopUpOf[t].amount
    IN  /\ pc[k] = "commit"
        /\ Post(k, t, balance, [row[t] EXCEPT !.balanceAfter = balance])
        /\ UNCHANGED <<intents, day, snap, read>>

\* The gateway confirms the amount of the intent; row.amount is not written.
HookCommit(k) ==
    LET t == HookRef[k]
        balance == read[k] + TopUpOf[t].amount
    IN  /\ pc[k] = "commit"
        /\ Post(k, t, balance, [row[t] EXCEPT !.status = "COMPLETED",
                                              !.balanceAfter = balance])
        /\ UNCHANGED <<intents, day, snap, read>>

-----------------------------------------------------------------------------
(* updateDietaryRestrictions *)

\* Mutant of Given: a field the request leaves out is written all the same.
GivenAlways(value, old) == value

Given(value, old) == IF value = NoChange THEN old ELSE value

EditStart(e) ==
    LET w == wallet[StudentOf(e)]
    IN  /\ Arrives(e)
        /\ Snapshot(e, w, IF ~EditOf[e].authorised THEN "refused"
                          ELSE IF w.exists THEN "write" ELSE "init")
        /\ UNCHANGED <<wallet, row, intents, day, read, posted>>

EditInit(e) ==
    LET limit == Given(EditOf[e].dailyLimit, 0)
    IN  /\ pc[e] = "init"
        /\ InitializeWallet(e, limit)
        /\ Snapshot(e, Upserted(wallet[StudentOf(e)], limit), "write")
        /\ UNCHANGED <<row, intents, day, read, posted>>

\* Only the columns the request carries are written.
Edited(w, e) ==
    LET given == EditOf[e].blocked
    IN  [w EXCEPT !.dailyLimit = Given(EditOf[e].dailyLimit, @),
                  !.blocked = [c \in Columns |-> IF c \in DOMAIN given
                                                THEN given[c] ELSE @[c]]]

EditWrite(e) ==
    LET s == StudentOf(e)
    IN  /\ pc[e] = "write"
        /\ wallet' = [wallet EXCEPT ![s] = Edited(wallet[s], e)]
        /\ pc' = [pc EXCEPT ![e] = "ok"]
        /\ UNCHANGED <<row, intents, day, snap, read, posted>>

-----------------------------------------------------------------------------
\* Midnight: todayStart of the cap moves on.
NextDay ==
    /\ day < MaxDay
    /\ day' = day + 1
    /\ UNCHANGED <<wallet, row, intents, pc, snap, read, posted>>

\* Nothing is left to do: every request is answered, and a callback that has
\* not arrived belongs to an intent the gateway never issued.
Quiet ==
    /\ day = MaxDay
    /\ \A h \in Handlers :
         \/ pc[h] \in Ended
         \/ h \in Hooks /\ HookRef[h] \notin intents /\ pc[h] = "idle"
    /\ UNCHANGED vars

Purchase(p) == \/ PurchaseStart(p) \/ PurchaseInit(p) \/ PurchaseCap(p)
               \/ PurchaseRead(p) \/ PurchaseCommit(p)
TopUp(t) == TopUpStart(t) \/ TopUpInit(t) \/ TopUpIntent(t) \/ TopUpRow(t)
Hook(k) == HookStart(k) \/ HookRead(k) \/ HookCommit(k)
Edit(e) == EditStart(e) \/ EditInit(e) \/ EditWrite(e)

Next ==
    \/ \E p \in Purchases : Purchase(p)
    \/ \E t \in TopUps : TopUp(t)
    \/ \E k \in Hooks : Hook(k)
    \/ \E e \in Edits : Edit(e)
    \/ \E h \in Handlers : Publish(h) \/ Fail(h)
    \/ NextDay
    \/ Quiet

Spec == Init /\ [][Next]_vars
-----------------------------------------------------------------------------
(* What holds however many handlers run at once *)

\* Every variable holds a value of its column or of its local.
TypeOK ==
    /\ wallet \in [Students -> WalletRows]
    /\ row \in [RowIds -> LedgerRows]
    /\ intents \subseteq TopUps
    /\ day \in 0..MaxDay
    /\ pc \in [Handlers -> {"idle"} \cup Active \cup Ended]
    /\ snap \in [Handlers -> WalletRows]
    /\ read \in [Handlers -> Int]
    /\ posted \in [Students -> Seq(RowIds)]

\* No interleaving of taps, callbacks, edits, failures and retries overdraws a
\* wallet: the balance test is made on the value the transaction writes from.
NonNegativeBalance == \A s \in Students : wallet[s].balance >= 0

\* The balance after the i-th movement of a wallet; the 0-th is the opening.
BalanceAfter(s, i) == IF i = 0 THEN Opening[s].balance
                      ELSE row[posted[s][i]].balanceAfter

\* The cached balance is the balanceAfter of the ledger row written last, even
\* when transactions overlap: both are written in one transaction.
LedgerHead == \A s \in Students :
                wallet[s].balance = BalanceAfter(s, Len(posted[s]))

\* An answer tells the client the truth: a refused tap charged nothing, an
\* accepted tap is in the ledger, a callback answered 200 is credited.
AnswersAreTrue ==
    /\ \A p \in Purchases :
         /\ pc[p] \in {"ok", "publish"} => row[p].status = "COMPLETED"
         /\ pc[p] = "refused" => row[p].status = "NONE"
    /\ \A t \in TopUps : pc[t] = "ok" => row[t].status # "NONE"
    /\ \A k \in Hooks : pc[k] = "ok" => row[HookRef[k]].status = "COMPLETED"

-----------------------------------------------------------------------------
(* What holds when the handlers of one wallet do not overlap *)

Signed(r) == IF r \in Purchases THEN -row[r].amount ELSE row[r].amount

\* The ledger explains the balance: each movement starts from the balance the
\* previous one left, so no movement is lost.
LedgerChain ==
    \A s \in Students : \A i \in 1..Len(posted[s]) :
        BalanceAfter(s, i) = BalanceAfter(s, i - 1) + Signed(posted[s][i])

\* However often the gateway repeats a callback, and wherever a handler fails,
\* a top-up is credited once; a tap is charged once.
PostedOnce == \A s \in Students : IsInjective(posted[s])

\* A completed row of the ledger is never written again.
CompletedRowsAreFinal ==
    [][\A r \in RowIds : row[r].status = "COMPLETED" => row'[r] = row[r]]_row

Charged(p) == row[p].status = "NONE" /\ row'[p].status = "COMPLETED"

\* A tap that is charged leaves the spending of the day within the cap.
CapHolds ==
    [][\A p \in Purchases :
         LET s == StudentOf(p)
         IN  Charged(p) /\ wallet[s].dailyLimit > 0
               => SpentToday(s)' <= wallet[s].dailyLimit]_vars

\* A tap is charged only for items the parent does not block at that moment.
RestrictionsHold ==
    [][\A p \in Purchases :
         Charged(p) => \A i \in ItemsOf(PurchaseOf[p].cart) :
                          ~Restricted(wallet[StudentOf(p)], i)]_vars

\* The cap of an existing wallet changes only by an authorised edit: neither
\* a tap nor a top-up that finds no wallet ever resets it.
CapSetByEdits ==
    [][\A s \in Students :
         wallet[s].exists /\ wallet'[s].dailyLimit # wallet[s].dailyLimit
           => \E e \in Edits : /\ StudentOf(e) = s /\ EditOf[e].authorised
                               /\ wallet'[s].dailyLimit = EditOf[e].dailyLimit
                               /\ pc[e] = "write" /\ pc'[e] = "ok"]_vars
-----------------------------------------------------------------------------
(* What Account sees of the state *)

Nothing == [c \in Columns |-> {}]

\* The rules of a wallet that is not there yet are those it will open with.
CapOf(w) == IF w.exists THEN w.dailyLimit ELSE 0
BlockedBy(w) == IF w.exists THEN w.blocked ELSE Nothing

Balances  == [s \in Students |-> wallet[s].balance]
Spendings == [s \in Students |-> SpentToday(s)]
Caps      == [s \in Students |-> CapOf(wallet[s])]
Blocks    == [s \in Students |-> BlockedBy(wallet[s])]
Settled   == {r \in RowIds : row[r].status = "COMPLETED"}
Answers   == [h \in Handlers |-> IF pc[h] \in Ended THEN pc[h] ELSE "none"]

Owners == [h \in Handlers |-> StudentOf(h)]
Costs  == [p \in Purchases |-> Cost(p)]
Worth  == [t \in TopUps |-> TopUpOf[t].amount]

\* The checks of a cart that do not depend on the wallet, and what a parent can
\* block it by.
Sold == {p \in Purchases :
           LET cart == PurchaseOf[p].cart
           IN  cart # <<>> /\ Listed(cart) /\ ItemsOf(cart) \subseteq InStock}
CartTags == [p \in Purchases |->
               UNION {TagsOf[i] : i \in ItemsOf(PurchaseOf[p].cart)}]

Acc == INSTANCE Account WITH
    Opening <- [s \in Students |-> [balance |-> Opening[s].balance,
                                    limit |-> CapOf(Opening[s]),
                                    blocked |-> BlockedBy(Opening[s])]],
    Owner <- Owners, Sellable <- Sold, CostOf <- Costs, TagsIn <- CartTags,
    AmountOf <- Worth, Confirms <- HookRef,
    Authorised <- {e \in Edits : EditOf[e].authorised},
    NewLimit <- [e \in Edits |-> EditOf[e].dailyLimit], KeepLimit <- NoChange,
    NewBlocked <- [e \in Edits |-> EditOf[e].blocked],
    balance <- Balances, spent <- Spendings, limit <- Caps, blocked <- Blocks,
    asked <- intents, settled <- Settled, answer <- Answers

\* The handlers of a wallet, each of several awaits, behave like the one-step
\* operations of an Account: what a tap tests on a snapshot, on an aggregate
\* and inside its transaction all holds when it is charged.
IsAnAccount == Acc!Spec
=============================================================================
