-------------------------------- MODULE Books --------------------------------
(***************************************************************************)
(* The ledger row by row: ledger_accounts, ledger_transactions and         *)
(* ledger_entries, the two layers that keep them balanced (domain's        *)
(* BalancedTransaction and the triggers of the ledger_constraints          *)
(* migration), and the transactions of engine::ledger that write them.     *)
(*                                                                         *)
(* PaymentEngine works with the sums these rows have (Postings); here is   *)
(* what the sums stand for.  Next to the engine's jobs, hands are sessions *)
(* that write with SQL of their own: the second layer exists for them.     *)
(***************************************************************************)
EXTENDS Money, FiniteSetsExt, Sequences

Sums == INSTANCE Postings

CONSTANTS
    Payments,        \* payments that get captured, and refunded once at most
    Owner, Price,    \* their merchant and their amount
    RefundOf,        \* what is refunded of them in minor units, 0 for nothing
    Currencies,      \* the currencies in use
    Hands,           \* sessions that bypass the first layer
    HandLines,       \* the entries they write, a set of them at a time
    Nil,             \* no merchant, no account
    MaxFaults        \* bound: transactions rolled back

\* domain::ledger::account_type: the chart of accounts.
MerchantTypes == {"merchant_pending", "merchant_available", "merchant_reserve",
                  "dispute_holding"}
PlatformTypes == {"gateway_clearing", "platform_revenue", "tax_payable"}
IsMerchantScoped(type) == type \in MerchantTypes

Merchants == {Owner[p] : p \in Payments}
Jobs == ({"capture"} \X Payments) \cup ({"refund"} \X {p \in Payments : RefundOf[p] > 0})
Sessions == Jobs \cup Hands

\* A fee that does not fit fails in FeeSchedule::compute, before anything is posted.
ASSUME BooksAssumption ==
    /\ Nil \notin Merchants /\ IsFiniteSet(Payments)
    /\ Hands \cap Jobs = {} /\ Hands \cap (Jobs \X Nat) = {}
    /\ \A p \in Payments : /\ Price[p].minor \in Nat \ {0} /\ Fits(Price[p].minor)
                           /\ Price[p].currency \in Currencies
                           /\ Fits(FeeBase(Price[p].minor, Price[p].currency)
                                     + FeeTax(Price[p].minor, Price[p].currency))
                           /\ RefundOf[p] \in 0..Price[p].minor
    /\ Currencies \subseteq AllCurrencies
    /\ \A lines \in HandLines :
          IsFiniteSet(lines) /\ \A line \in lines : line.amount \in Int
    /\ MaxFaults \in Nat

VARIABLES
    accounts,  \* ledger_accounts, committed
    headers,   \* ledger_transactions, committed
    entries,   \* ledger_entries, committed
    step,      \* the statement each session runs next
    own,       \* what its open transaction wrote
    due,       \* the ledger transactions its COMMIT has yet to check
    pending,   \* the merchant_pending account it works with
    refused,   \* history: jobs whose posting one of the layers refused
    faults     \* history: rollbacks so far

tables == <<accounts, headers, entries>>
vars == <<tables, step, own, due, pending, refused, faults>>

Nothing == [accounts |-> {}, headers |-> {}, entries |-> {}]

-----------------------------------------------------------------------------
(* Accounts. *)

\* LedgerAccount::for_merchant, for_platform and from_parts, and the CHECK
\* ledger_acct_scoping: a type has a merchant exactly if it is one of theirs.
WellScoped(a) == IsMerchantScoped(a.type) <=> a.merchant # Nil
Account(id, m, type, currency) ==
    [id |-> id, merchant |-> m, type |-> type, currency |-> currency]

\* The accounts the last migration seeds, named by what they are.
Seeded == {Account(<<type, c>>, Nil, type, c) : type \in PlatformTypes, c \in Currencies}

\* The partial unique indexes: a merchant, a type and a currency name one account.
SameKey(a, b) ==
    a.merchant = b.merchant /\ a.type = b.type /\ a.currency = b.currency

Sees(s) == [accounts |-> accounts \cup own[s].accounts,
            headers |-> headers \cup own[s].headers,
            entries |-> entries \cup own[s].entries]

\* find_platform_account and find_merchant_account.
Find(s, m, type, c) ==
    {a \in Sees(s).accounts : a.merchant = m /\ a.type = type /\ a.currency = c}
Platform(type, c) ==
    CHOOSE a \in accounts : a.merchant = Nil /\ a.type = type /\ a.currency = c

-----------------------------------------------------------------------------
(* The first layer. *)

\* LedgerEntry::credit and ::debit refuse what is not positive; credits are
\* positive, debits negative.
Credit(account, n) == [side |-> "credit", account |-> account, minor |-> n]
Debit(account, n)  == [side |-> "debit", account |-> account, minor |-> n]
Acceptable(line) == line.minor > 0
Signed(line) == IF line.side = "credit" THEN line.minor ELSE -line.minor

\* BalancedTransaction::new adds up each currency in the order of the entries;
\* lines are [account, amount, currency] records.
Running(lines, c, n) ==
    MapThenSumSet(LAMBDA i : lines[i].amount, {i \in 1..n : lines[i].currency = c})
Accepted(lines) ==
    /\ Len(lines) >= 2
    /\ \A c \in Currencies : /\ \A n \in DOMAIN lines : Fits(Running(lines, c, n))
                                /\ Running(lines, c, Len(lines)) = 0

\* TransactionBuilder: sides in, lines out.
Lines(sides, c) ==
    [i \in DOMAIN sides |->
        [account |-> sides[i].account.id, amount |-> Signed(sides[i]), currency |-> c]]
Builds(sides, c) == (\A i \in DOMAIN sides : Acceptable(sides[i])) /\ Accepted(Lines(sides, c))

-----------------------------------------------------------------------------
(* The second layer. *)

TotalIn(rows, c) == MapThenSumSet(LAMBDA e : e.amount, {e \in rows : e.currency = c})

\* ledger_transaction_must_balance: what the trigger asks of a transaction, over
\* the rows that the session it runs in sees.
\* Mutant: the query does not group by currency.
MustBalanceInAll(txn, rows) ==
    LET its == {e \in rows : e.txn = txn}
    IN  MapThenSumSet(LAMBDA e : e.amount, its) = 0 /\ Cardinality(its) >= 2
MustBalance(txn, rows) ==
    LET its == {e \in rows : e.txn = txn}
    IN  (\A c \in Currencies : TotalIn(its, c) = 0) /\ Cardinality(its) >= 2

-----------------------------------------------------------------------------
(* What the engine posts. *)

Op(j) == j[1]
Payment(j) == j[2]
CurrencyOf(j) == Price[Payment(j)].currency
Fee(p) == [base |-> FeeBase(Price[p].minor, Price[p].currency),
           tax |-> FeeTax(Price[p].minor, Price[p].currency)]
FeeBack(p) == FeeRefund(Price[p].minor, Price[p].currency, 0, RefundOf[p])

If(condition, seq) == IF condition THEN seq ELSE <<>>

\* post_capture: a zero tax gets no entry.
CaptureTxns(p, account) ==
    LET c == Price[p].currency
        fee == Fee(p)
    IN  << [kind |-> "payment_captured",
            sides |-> <<Debit(Platform("gateway_clearing", c), Price[p].minor),
                        Credit(account, Price[p].minor)>>] >>
        \o If(fee.base + fee.tax > 0,
              << [kind |-> "fee_charged",
                  sides |-> <<Debit(account, fee.base + fee.tax),
                              Credit(Platform("platform_revenue", c), fee.base)>>
                            \o If(fee.tax > 0,
                                  <<Credit(Platform("tax_payable", c), fee.tax)>>)] >>)

\* post_refund: neither does a zero share of the fee, nor a fee that is all zero.
\* Mutant: the entries are written however small the share is.
RefundTxnsUnskipped(p, account) ==
    LET c == Price[p].currency
        fee == FeeBack(p)
    IN  << [kind |-> "refund_issued",
            sides |-> <<Debit(account, RefundOf[p]),
                        Credit(Platform("gateway_clearing", c), RefundOf[p])>>],
           [kind |-> "fee_refunded",
            sides |-> <<Credit(account, fee.base + fee.tax),
                        Debit(Platform("platform_revenue", c), fee.base),
                        Debit(Platform("tax_payable", c), fee.tax)>>] >>
\* Mutant: the tax is netted against the revenue.
RefundTxnsNetted(p, account) ==
    LET c == Price[p].currency
        fee == FeeBack(p)
    IN  << [kind |-> "refund_issued",
            sides |-> <<Debit(account, RefundOf[p]),
                        Credit(Platform("gateway_clearing", c), RefundOf[p])>>] >>
        \o If(fee.base + fee.tax > 0,
              << [kind |-> "fee_refunded",
                  sides |-> <<Credit(account, fee.base + fee.tax),
                              Debit(Platform("platform_revenue", c), fee.base + fee.tax)>>] >>)
RefundTxns(p, account) ==
    LET c == Price[p].currency
        fee == FeeBack(p)
    IN  << [kind |-> "refund_issued",
            sides |-> <<Debit(account, RefundOf[p]),
                        Credit(Platform("gateway_clearing", c), RefundOf[p])>>] >>
        \o If(~(fee.base = 0 /\ fee.tax = 0),
              << [kind |-> "fee_refunded",
                  sides |-> <<Credit(account, fee.base + fee.tax)>>
                            \o If(fee.base > 0,
                                  <<Debit(Platform("platform_revenue", c), fee.base)>>)
                            \o If(fee.tax > 0,
                                  <<Debit(Platform("tax_payable", c), fee.tax)>>)] >>)

Txns(j) == IF Op(j) = "capture" THEN CaptureTxns(Payment(j), pending[j])
                                ELSE RefundTxns(Payment(j), pending[j])

-----------------------------------------------------------------------------
Init ==
    /\ accounts = Seeded /\ headers = {} /\ entries = {}
    /\ step = [s \in Sessions |-> IF s \in Jobs THEN "find" ELSE "write"]
    /\ own = [s \in Sessions |-> Nothing]
    /\ due = [s \in Sessions |-> {}]
    /\ pending = [j \in Jobs |-> Nil]
    /\ refused = {} /\ faults = 0

GoTo(s, next) == step' = [step EXCEPT ![s] = next]
Use(j, account) == pending' = [pending EXCEPT ![j] = account] /\ GoTo(j, "post")
Found(j) == Find(j, Owner[Payment(j)], "merchant_pending", CurrencyOf(j))

\* A payment is refunded after its capture committed.
MayStart(j) == Op(j) = "refund" => step[<<"capture", Payment(j)>>] = "done"

\* find_or_create_merchant_account, statement by statement: the fast path,
FindAccount(j) ==
    /\ step[j] = "find" /\ MayStart(j)
    /\ IF Found(j) # {} THEN \E a \in Found(j) : Use(j, a)
                        ELSE GoTo(j, "insert") /\ UNCHANGED pending
    /\ UNCHANGED <<tables, own, due, refused, faults>>

\* INSERT ... ON CONFLICT DO NOTHING, which waits for an open transaction that
\* inserted the same key and then does nothing if that one committed,
NewAccount(j) ==
    Account(j, Owner[Payment(j)], "merchant_pending", CurrencyOf(j))
\* Mutant: the table has no unique index.
NeverTaken(tbl, a) == FALSE
Taken(tbl, a) == \E b \in tbl : SameKey(a, b)
InsertAccount(j) ==
    /\ step[j] = "insert"
    /\ \A s \in Sessions \ {j} : ~Taken(own[s].accounts, NewAccount(j))
    /\ IF Taken(accounts, NewAccount(j))
       THEN GoTo(j, "reread") /\ UNCHANGED <<own, pending>>
       ELSE /\ own' = [own EXCEPT ![j].accounts = @ \cup {NewAccount(j)}]
            /\ Use(j, NewAccount(j))
    /\ UNCHANGED <<tables, due, refused, faults>>

\* and the second read.
RereadAccount(j) ==
    /\ step[j] = "reread"
    /\ \E a \in Found(j) : Use(j, a)
    /\ UNCHANGED <<tables, own, due, refused, faults>>

\* store::ledger::post for each transaction of the job: a header and its entries.
Headers(j) == {[id |-> <<j, n>>, kind |-> Txns(j)[n].kind] : n \in DOMAIN Txns(j)}
EntriesOf(j, n) ==
    LET lines == Lines(Txns(j)[n].sides, CurrencyOf(j))
    IN  {[id |-> <<j, n, i>>, txn |-> <<j, n>>, account |-> lines[i].account,
          amount |-> lines[i].amount, currency |-> lines[i].currency] : i \in DOMAIN lines}
AllBuild(j) == \A n \in DOMAIN Txns(j) : Builds(Txns(j)[n].sides, CurrencyOf(j))
Rollback(s, next) ==
    /\ own' = [own EXCEPT ![s] = Nothing]
    /\ due' = [due EXCEPT ![s] = {}]
    /\ pending' = IF s \in Jobs THEN [pending EXCEPT ![s] = Nil] ELSE pending
    /\ GoTo(s, next)
\* Every INSERT of entries queues the trigger for the COMMIT.
TxnsOf(rows) == {e.txn : e \in rows}
Post(j) ==
    /\ step[j] = "post"
    /\ \/ /\ AllBuild(j)
          /\ LET rows == UNION {EntriesOf(j, n) : n \in DOMAIN Txns(j)}
             IN  /\ own' = [own EXCEPT ![j].headers = Headers(j), ![j].entries = rows]
                 /\ due' = [due EXCEPT ![j] = TxnsOf(rows)]
          /\ GoTo(j, "commit")
          /\ UNCHANGED <<pending, refused>>
       \/ ~AllBuild(j) /\ refused' = refused \cup {j} /\ Rollback(j, "gone")
    /\ UNCHANGED <<tables, faults>>

\* COMMIT runs the deferred triggers first, each with a snapshot of its own: other
\* sessions check and commit in between.  One check stands for those of all the
\* rows that the session wrote of a ledger transaction.
Check(s, txn) ==
    /\ step[s] = "commit" /\ txn \in due[s]
    /\ \/ /\ MustBalance(txn, Sees(s).entries)
          /\ due' = [due EXCEPT ![s] = @ \ {txn}]
          /\ UNCHANGED <<step, own, pending, refused>>
       \/ /\ ~MustBalance(txn, Sees(s).entries)
          /\ refused' = refused \cup ({s} \cap Jobs)
          /\ Rollback(s, "gone")
    /\ UNCHANGED <<tables, faults>>

\* Then what it wrote becomes visible, whatever was committed since the checks.
Publish(s) == /\ accounts' = accounts \cup own[s].accounts
              /\ headers' = headers \cup own[s].headers
              /\ entries' = entries \cup own[s].entries
              /\ own' = [own EXCEPT ![s] = Nothing]
Commit(s) ==
    /\ step[s] = "commit" /\ due[s] = {}
    /\ Publish(s) /\ GoTo(s, "done")
    /\ UNCHANGED <<due, pending, refused, faults>>

\* Anything else that ends a transaction; the request is sent again.
Abort(j) ==
    /\ step[j] \in {"insert", "reread", "post", "commit"}
    /\ faults < MaxFaults /\ faults' = faults + 1
    /\ Rollback(j, "find")
    /\ UNCHANGED <<tables, refused>>

-----------------------------------------------------------------------------
(* Hands: INSERT, UPDATE and DELETE on ledger_entries, in one transaction each. *)

\* Entries of a header that is there, or of one that the hand adds.
HandEntry(x, txn, line) ==
    [id |-> <<x, line>>, txn |-> txn, account |-> Platform(line.type, line.of).id,
     amount |-> line.amount, currency |-> line.currency]
Write(x, lines) ==
    /\ step[x] = "write"
    /\ \E txn \in {h.id : h \in headers} \cup {x} :
          LET rows == {HandEntry(x, txn, line) : line \in lines}
          IN  /\ own' = [own EXCEPT
                   ![x].headers = IF txn = x THEN {[id |-> x, kind |-> "funds_released"]} ELSE {},
                   ![x].entries = rows]
              /\ due' = [due EXCEPT ![x] = TxnsOf(rows)]
    /\ GoTo(x, "commit")
    /\ UNCHANGED <<tables, pending, refused, faults>>

\* ledger_entries_forbid_mutation raises, and the transaction is lost.
Mutate(x, e) ==
    /\ step[x] = "write" /\ e \in entries
    /\ Rollback(x, "gone")
    /\ UNCHANGED <<tables, refused, faults>>

Advance(j) == FindAccount(j) \/ InsertAccount(j) \/ RereadAccount(j) \/ Post(j)
Next ==
    \/ \E j \in Jobs : Advance(j) \/ Abort(j)
    \/ \E s \in Sessions : Commit(s) \/ \E txn \in due[s] : Check(s, txn)
    \/ \E x \in Hands : \/ \E lines \in HandLines : Write(x, lines)
                        \/ \E e \in entries : Mutate(x, e)

Spec == Init /\ [][Next]_vars

-----------------------------------------------------------------------------
(* Balances. *)

\* store::ledger::balance, and each row of balances_for_merchant.
Balance(rows, a) == MapThenSumSet(LAMBDA e : e.amount, {e \in rows : e.account = a.id})

-----------------------------------------------------------------------------
(* Properties. *)

\* ledger_constraints, "the books balance": every committed transaction sums to zero
\* in each currency, over at least two entries.  The triggers cannot see what other
\* sessions have checked and not yet committed: sessions that add to one transaction
\* at a time, by hand into the engine's too, still leave a balanced one, in whatever
\* order they check, commit or are refused.
TrialBalance ==
    \A txn \in {e.txn : e \in entries} :
        LET its == {e \in entries : e.txn = txn}
        IN  Cardinality(its) >= 2 /\ \A c \in Currencies : TotalIn(its, c) = 0

\* No layer ever refuses what the engine posts: zero shares of a fee are skipped,
\* and nothing written by hand into its transactions can fail its commit.
PostingsSucceed == refused = {}

\* "Both callers end with the same account": transactions that look for the same
\* account at the same time work with one and the same row, one they can see,
\* whichever of them inserts it, commits or rolls back.
AccountsAreShared ==
    /\ \A a, b \in accounts : SameKey(a, b) => a = b
    /\ \A a \in accounts : WellScoped(a)
    /\ \A i \in Jobs : pending[i] # Nil =>
          /\ pending[i] \in Sees(i).accounts
          /\ \A j \in Jobs : pending[j] # Nil /\ SameKey(pending[i], pending[j])
                                => pending[i] = pending[j]

\* The sums PaymentEngine keeps are the sums of these rows: the balance of every
\* account is what the committed jobs contributed to it according to Postings,
\* each in the account's own currency, and what was written by hand.
NoPosition == [clearing |-> 0, pending |-> [m \in Merchants |-> 0], revenue |-> 0, tax |-> 0]
Contribution(j) ==
    LET p == Payment(j)
    IN  IF Op(j) = "capture"
        THEN Sums!PostCapture(NoPosition, Owner[p], Price[p].minor, Fee(p).base, Fee(p).tax)
        ELSE Sums!PostRefund(NoPosition, Owner[p], RefundOf[p], FeeBack(p))
Share(j, a) ==
    CASE a.type = "gateway_clearing" -> Contribution(j).clearing
      [] a.type = "merchant_pending" -> Contribution(j).pending[a.merchant]
      [] a.type = "platform_revenue" -> Contribution(j).revenue
      [] a.type = "tax_payable"      -> Contribution(j).tax
Posted(c) == {j \in Jobs : step[j] = "done" /\ CurrencyOf(j) = c}
ByHand == {e \in entries : e.id[1] \in Hands}
Expected(a) == MapThenSumSet(LAMBDA j : Share(j, a), Posted(a.currency)) + Balance(ByHand, a)
BooksMatchPostings == \A a \in accounts : Balance(entries, a) = Expected(a)
=============================================================================
