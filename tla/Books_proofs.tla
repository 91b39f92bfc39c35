----------------------------- MODULE Books_proofs -----------------------------
(***************************************************************************)
(* The ledger balances whoever writes to it, the transactions that look    *)
(* for one account work with one row, no layer refuses what the engine     *)
(* posts, and the balances are what was posted: for any number of          *)
(* payments, merchants, currencies, hands and rollbacks.                   *)
(*                                                                         *)
(* The accounts are the unique index's: an insert waits for every open     *)
(* transaction with the same key, so that the keys of the open inserts     *)
(* differ from each other and from the table's.                            *)
(*                                                                         *)
(* The sums are folds over sets of rows, in the order of CHOOSE.  What is  *)
(* known of such folds is proved first, by induction on the set: a set for *)
(* which a fact fails has a smallest subset for which it fails.  Then what *)
(* a job posts: its transactions have two or three sides that sum to zero  *)
(* and give each account its share.  Then the invariant BooksInv, in which *)
(* the rows of an open transaction are as they will be once it commits.    *)
(*                                                                         *)
(* The balance of the whole comes last.  A deferred check sees neither     *)
(* what other sessions wrote nor what they will have committed when its    *)
(* own session does; but what it saw of others summed to zero, hence so do *)
(* the session's own rows (ChecksStand), and that stays whatever is        *)
(* committed next to them.                                                 *)
(***************************************************************************)
EXTENDS Books, FiniteSetTheorems, WellFoundedInduction, TLAPS

Statements == {"find", "insert", "reread", "post", "write", "commit", "done", "gone"}
TypeOK ==
    /\ step \in [Sessions -> Statements]
    /\ DOMAIN own = Sessions /\ DOMAIN pending = Jobs
    /\ \A s \in Sessions : DOMAIN own[s] = {"accounts", "headers", "entries"}

\* Only a job that has its account at hand has inserted one, and only its own.
Inserting(s) == s \in Jobs /\ step[s] \in {"post", "commit"}
InsertsItsOwn == \A s \in Sessions :
    own[s].accounts # {} => Inserting(s) /\ own[s].accounts = {NewAccount(s)}

\* No two rows, committed or not, have the same key.
KeysDiffer ==
    /\ \A a, b \in accounts : SameKey(a, b) => a = b
    /\ \A s \in Sessions : \A a \in own[s].accounts : ~Taken(accounts, a)
    /\ \A s, t \in Sessions : s # t => \A a \in own[s].accounts : ~Taken(own[t].accounts, a)

PendingIsSeen == \A j \in Jobs : pending[j] # Nil => pending[j] \in Sees(j).accounts
ScopesFit == \A a \in accounts : WellScoped(a)

AccountsInv == TypeOK /\ InsertsItsOwn /\ KeysDiffer /\ PendingIsSeen /\ ScopesFit

-----------------------------------------------------------------------------
(* What the steps do to the sessions. *)

LEMMA JobsAreSessions == Jobs \subseteq Sessions /\ Hands \subseteq Sessions /\ Jobs \cap Hands = {}
BY BooksAssumption DEF Sessions

LEMMA GoToStep ==
    ASSUME TypeOK, NEW s \in Sessions, NEW to \in Statements, GoTo(s, to)
    PROVE  /\ step' \in [Sessions -> Statements] /\ step'[s] = to
           /\ \A t \in Sessions \ {s} : step'[t] = step[t]
BY DEF TypeOK, GoTo

\* What a session has inserted is gone, and so is its account if it is a job.
LEMMA RollbackStep ==
    ASSUME AccountsInv, NEW s \in Sessions, NEW to \in Statements, Rollback(s, to),
           UNCHANGED tables
    PROVE  AccountsInv'
<1>1. /\ step' \in [Sessions -> Statements] /\ step'[s] = to
      /\ \A t \in Sessions \ {s} : step'[t] = step[t]
  BY GoToStep DEF Rollback, AccountsInv
<1>2. /\ DOMAIN own' = Sessions /\ own'[s] = Nothing
      /\ \A t \in Sessions \ {s} : own'[t] = own[t]
  BY DEF Rollback, AccountsInv, TypeOK
<1>3. /\ DOMAIN pending' = Jobs /\ (s \in Jobs => pending'[s] = Nil)
      /\ \A j \in Jobs \ {s} : pending'[j] = pending[j]
  BY DEF Rollback, AccountsInv, TypeOK
<1>4. Nothing.accounts = {} /\ DOMAIN Nothing = {"accounts", "headers", "entries"}
  BY DEF Nothing
<1>5. accounts' = accounts
  BY DEF tables
<1>6. TypeOK'
  BY <1>1, <1>2, <1>3, <1>4 DEF AccountsInv, TypeOK
<1>7. InsertsItsOwn'
  BY <1>1, <1>2, <1>4 DEF AccountsInv, InsertsItsOwn, Inserting
<1>8. KeysDiffer'
  BY <1>2, <1>4, <1>5 DEF AccountsInv, KeysDiffer, Taken
<1>9. PendingIsSeen'
  <2>1. ASSUME NEW j \in Jobs, pending'[j] # Nil PROVE pending'[j] \in Sees(j).accounts'
    <3>1. j # s /\ pending'[j] = pending[j] /\ j \in Sessions
      BY <1>3, <2>1, JobsAreSessions
    <3>2. pending[j] \in accounts \cup own[j].accounts
      BY <2>1, <3>1 DEF AccountsInv, PendingIsSeen, Sees
    <3> QED BY <1>2, <1>5, <3>1, <3>2 DEF Sees
  <2> QED BY <2>1 DEF PendingIsSeen
<1>10. ScopesFit'
  BY <1>5 DEF AccountsInv, ScopesFit
<1> QED BY <1>6, <1>7, <1>8, <1>9, <1>10 DEF AccountsInv

\* A step of s that leaves every account where it is.
LEMMA AccountsStay ==
    ASSUME AccountsInv, NEW s \in Sessions, NEW to \in Statements, GoTo(s, to),
           UNCHANGED accounts, DOMAIN own' = Sessions, DOMAIN pending' = Jobs,
           \A t \in Sessions : own'[t].accounts = own[t].accounts
                               /\ DOMAIN own'[t] = {"accounts", "headers", "entries"},
           \A j \in Jobs : pending'[j] = pending[j] \/ pending'[j] \in Sees(j).accounts,
           own[s].accounts # {} => to \in {"post", "commit"}
    PROVE  AccountsInv'
<1>1. /\ step' \in [Sessions -> Statements] /\ step'[s] = to
      /\ \A t \in Sessions \ {s} : step'[t] = step[t]
  BY GoToStep DEF AccountsInv
<1>2. TypeOK'
  BY <1>1 DEF TypeOK
<1>3. InsertsItsOwn'
  BY <1>1 DEF AccountsInv, InsertsItsOwn, Inserting
<1>4. KeysDiffer'
  BY DEF AccountsInv, KeysDiffer, Taken
<1>5. PendingIsSeen'
  <2>1. \A j \in Jobs : Sees(j).accounts' = Sees(j).accounts
    BY JobsAreSessions DEF Sees
  <2> QED BY <2>1 DEF AccountsInv, PendingIsSeen
<1>6. ScopesFit'
  BY DEF AccountsInv, ScopesFit
<1> QED BY <1>2, <1>3, <1>4, <1>5, <1>6 DEF AccountsInv

\* Outside of its open transaction a session has inserted nothing.
LEMMA NothingInserted ==
    ASSUME AccountsInv, NEW s \in Sessions, ~Inserting(s)
    PROVE  own[s].accounts = {}
BY DEF AccountsInv, InsertsItsOwn

-----------------------------------------------------------------------------
(* The steps of the jobs. *)

LEMMA FindStep ==
    ASSUME AccountsInv, NEW j \in Jobs, FindAccount(j)
    PROVE  AccountsInv'
<1>1. j \in Sessions /\ own[j].accounts = {} /\ UNCHANGED <<accounts, own>>
  BY NothingInserted, JobsAreSessions DEF FindAccount, Inserting, tables
<1>2. ASSUME NEW a \in Found(j), Use(j, a) PROVE AccountsInv'
  <2>1. a \in Sees(j).accounts
    BY DEF Found, Find
  <2>2. /\ DOMAIN pending' = Jobs /\ pending'[j] = a /\ GoTo(j, "post")
        /\ \A i \in Jobs \ {j} : pending'[i] = pending[i]
    BY <1>2 DEF Use, AccountsInv, TypeOK
  <2> QED BY <1>1, <2>1, <2>2, AccountsStay DEF AccountsInv, TypeOK, Statements
<1>3. CASE GoTo(j, "insert") /\ UNCHANGED pending
  BY <1>1, <1>3, AccountsStay DEF AccountsInv, TypeOK, Statements
<1> QED BY <1>2, <1>3 DEF FindAccount

LEMMA RereadStep ==
    ASSUME AccountsInv, NEW j \in Jobs, RereadAccount(j)
    PROVE  AccountsInv'
<1>1. j \in Sessions /\ own[j].accounts = {} /\ UNCHANGED <<accounts, own>>
  BY NothingInserted, JobsAreSessions DEF RereadAccount, Inserting, tables
<1>2. PICK a \in Found(j) : Use(j, a)
  BY DEF RereadAccount
<1>3. a \in Sees(j).accounts
  BY DEF Found, Find
<1>4. /\ DOMAIN pending' = Jobs /\ pending'[j] = a /\ GoTo(j, "post")
      /\ \A i \in Jobs \ {j} : pending'[i] = pending[i]
  BY <1>2 DEF Use, AccountsInv, TypeOK
<1> QED BY <1>1, <1>3, <1>4, AccountsStay DEF AccountsInv, TypeOK, Statements

\* An insert that waits for the open ones with its key adds a key of its own.
LEMMA InsertStep ==
    ASSUME AccountsInv, NEW j \in Jobs, InsertAccount(j)
    PROVE  AccountsInv'
<1>1. /\ j \in Sessions /\ own[j].accounts = {} /\ UNCHANGED accounts
      /\ \A s \in Sessions \ {j} : ~Taken(own[s].accounts, NewAccount(j))
  BY NothingInserted, JobsAreSessions DEF InsertAccount, Inserting, tables
<1>2. CASE GoTo(j, "reread") /\ UNCHANGED <<own, pending>>
  BY <1>1, <1>2, AccountsStay DEF AccountsInv, TypeOK, Statements
<1>3. CASE /\ ~Taken(accounts, NewAccount(j)) /\ Use(j, NewAccount(j))
           /\ own' = [own EXCEPT ![j].accounts = @ \cup {NewAccount(j)}]
  <2> DEFINE new == NewAccount(j)
  <2>1. /\ DOMAIN own' = Sessions /\ own'[j].accounts = {new}
        /\ \A t \in Sessions \ {j} : own'[t] = own[t]
        /\ DOMAIN own'[j] = {"accounts", "headers", "entries"}
    BY <1>1, <1>3 DEF AccountsInv, TypeOK
  <2>2. /\ step' \in [Sessions -> Statements] /\ step'[j] = "post"
        /\ \A t \in Sessions \ {j} : step'[t] = step[t]
    BY <1>1, <1>3, GoToStep DEF Use, AccountsInv, Statements
  <2>3. /\ DOMAIN pending' = Jobs /\ pending'[j] = new
        /\ \A i \in Jobs \ {j} : pending'[i] = pending[i]
    BY <1>3 DEF Use, AccountsInv, TypeOK
  <2> HIDE DEF new
  <2>4. TypeOK'
    BY <2>1, <2>2, <2>3 DEF AccountsInv, TypeOK
  <2>5. InsertsItsOwn'
    BY <2>1, <2>2 DEF AccountsInv, InsertsItsOwn, Inserting, new
  <2>6. \A s \in Sessions \ {j} : ~Taken(own[s].accounts, new)
    BY <1>1 DEF new
  <2>7. ~Taken(accounts, new)
    BY <1>3 DEF new
  <2>8. \A s \in Sessions \ {j} : \A a \in own[s].accounts : ~SameKey(a, new) /\ ~SameKey(new, a)
    BY <2>6 DEF Taken, SameKey
  <2>9. KeysDiffer'
    BY <1>1, <2>1, <2>6, <2>7, <2>8 DEF AccountsInv, KeysDiffer, Taken
  <2>10. PendingIsSeen'
    BY <1>1, <2>1, <2>3, JobsAreSessions DEF AccountsInv, PendingIsSeen, Sees
  <2>11. ScopesFit'
    BY <1>1 DEF AccountsInv, ScopesFit
  <2> QED BY <2>4, <2>5, <2>9, <2>10, <2>11 DEF AccountsInv
<1> QED BY <1>2, <1>3 DEF InsertAccount

LEMMA PostStep ==
    ASSUME AccountsInv, NEW j \in Jobs, Post(j)
    PROVE  AccountsInv'
<1>1. j \in Sessions /\ UNCHANGED tables
  BY JobsAreSessions DEF Post
<1>2. CASE Rollback(j, "gone")
  BY <1>1, <1>2, RollbackStep DEF Statements
<1>3. ASSUME NEW h, NEW e, own' = [own EXCEPT ![j].headers = h, ![j].entries = e],
             GoTo(j, "commit"), UNCHANGED pending
      PROVE  AccountsInv'
  <2>1. /\ DOMAIN own' = Sessions
        /\ \A t \in Sessions : own'[t].accounts = own[t].accounts
                               /\ DOMAIN own'[t] = {"accounts", "headers", "entries"}
    BY <1>1, <1>3 DEF AccountsInv, TypeOK
  <2> QED BY <1>1, <1>3, <2>1, AccountsStay DEF AccountsInv, TypeOK, Statements, tables
<1> QED BY <1>2, <1>3 DEF Post

-----------------------------------------------------------------------------
(* The steps of any session. *)

LEMMA NewAccountFits ==
    ASSUME NEW j \in Jobs
    PROVE  WellScoped(NewAccount(j))
<1>1. Payment(j) \in Payments
  BY DEF Jobs, Payment
<1>2. Owner[Payment(j)] # Nil
  BY <1>1, BooksAssumption DEF Merchants
<1> QED BY <1>2 DEF WellScoped, NewAccount, Account, IsMerchantScoped, MerchantTypes

LEMMA CommitStep ==
    ASSUME AccountsInv, NEW s \in Sessions, Commit(s)
    PROVE  AccountsInv'
<1>1. Publish(s) /\ GoTo(s, "done") /\ UNCHANGED pending
  BY DEF Commit
<1>2. /\ accounts' = accounts \cup own[s].accounts
      /\ DOMAIN own' = Sessions /\ own'[s] = Nothing
      /\ \A t \in Sessions \ {s} : own'[t] = own[t]
  BY <1>1 DEF Publish, AccountsInv, TypeOK
<1>3. /\ step' \in [Sessions -> Statements] /\ step'[s] = "done"
      /\ \A t \in Sessions \ {s} : step'[t] = step[t]
  BY <1>1, GoToStep DEF AccountsInv, Statements
<1>4. Nothing.accounts = {} /\ DOMAIN Nothing = {"accounts", "headers", "entries"}
  BY DEF Nothing
<1>5. TypeOK'
  BY <1>1, <1>2, <1>3, <1>4 DEF AccountsInv, TypeOK
<1>6. InsertsItsOwn'
  BY <1>2, <1>3, <1>4 DEF AccountsInv, InsertsItsOwn, Inserting
<1>7. \A a, b \in own[s].accounts : a = b
  BY DEF AccountsInv, InsertsItsOwn
<1>8. /\ \A a, b \in accounts : SameKey(a, b) => a = b
      /\ \A a \in own[s].accounts : \A b \in accounts : ~SameKey(b, a) /\ ~SameKey(a, b)
  BY DEF AccountsInv, KeysDiffer, Taken, SameKey
<1>9. \A a, b \in accounts' : SameKey(a, b) => a = b
  BY <1>2, <1>7, <1>8
<1>10. ASSUME NEW t \in Sessions, NEW a \in own'[t].accounts
      PROVE  /\ ~Taken(accounts', a)
             /\ \A u \in Sessions : t # u => ~Taken(own'[u].accounts, a)
  <2>1. t # s /\ a \in own[t].accounts
    BY <1>2, <1>4, <1>10
  <2>2. /\ ~Taken(accounts, a) /\ ~Taken(own[s].accounts, a)
        /\ \A u \in Sessions : t # u => ~Taken(own[u].accounts, a)
    BY <2>1 DEF AccountsInv, KeysDiffer
  <2> QED BY <1>2, <1>4, <2>2 DEF Taken
<1>11. KeysDiffer'
  BY <1>9, <1>10 DEF KeysDiffer, Taken
<1>12. PendingIsSeen'
  BY <1>1, <1>2, JobsAreSessions DEF AccountsInv, PendingIsSeen, Sees
<1>13. ScopesFit'
  BY <1>2, NewAccountFits DEF AccountsInv, ScopesFit, InsertsItsOwn, Inserting
<1> QED BY <1>5, <1>6, <1>11, <1>12, <1>13 DEF AccountsInv

\* A check changes no account unless it fails, and then what it undoes is its own.
LEMMA CheckStep ==
    ASSUME AccountsInv, NEW s \in Sessions, NEW txn, Check(s, txn)
    PROVE  AccountsInv'
<1>1. UNCHANGED tables
  BY DEF Check
<1>2. CASE Rollback(s, "gone")
  BY <1>1, <1>2, RollbackStep DEF Statements
<1>3. CASE UNCHANGED <<step, own, pending>>
  BY <1>1, <1>3 DEF AccountsInv, TypeOK, InsertsItsOwn, Inserting, KeysDiffer, PendingIsSeen,
                    ScopesFit, Taken, Sees, tables
<1> QED BY <1>2, <1>3 DEF Check

LEMMA HandStep ==
    ASSUME AccountsInv, NEW x \in Hands,
           (\E lines \in HandLines : Write(x, lines)) \/ (\E e \in entries : Mutate(x, e))
    PROVE  AccountsInv'
<1>1. x \in Sessions /\ x \notin Jobs
  BY JobsAreSessions
<1>2. CASE \E e \in entries : Mutate(x, e)
  BY <1>1, <1>2, RollbackStep DEF Mutate, Statements
<1>3. CASE \E lines \in HandLines : Write(x, lines)
  <2>1. PICK h, e : own' = [own EXCEPT ![x].headers = h, ![x].entries = e]
    BY <1>3 DEF Write
  <2>2. GoTo(x, "commit") /\ UNCHANGED <<tables, pending>>
    BY <1>3 DEF Write
  <2>3. /\ DOMAIN own' = Sessions
        /\ \A t \in Sessions : own'[t].accounts = own[t].accounts
                               /\ DOMAIN own'[t] = {"accounts", "headers", "entries"}
    BY <1>1, <2>1 DEF AccountsInv, TypeOK
  <2> QED BY <1>1, <2>2, <2>3, AccountsStay DEF AccountsInv, TypeOK, Statements, tables
<1> QED BY <1>2, <1>3

-----------------------------------------------------------------------------
(* The theorems about accounts. *)

LEMMA AccountsInit == Init => AccountsInv
<1> SUFFICES ASSUME Init PROVE AccountsInv
  OBVIOUS
<1>1. Nothing.accounts = {} /\ DOMAIN Nothing = {"accounts", "headers", "entries"}
  BY DEF Nothing
<1>2. \A s \in Sessions : own[s] = Nothing
  BY DEF Init
<1>3. TypeOK
  BY <1>1, <1>2 DEF Init, TypeOK, Statements
<1>4. \A a \in accounts : \E type \in PlatformTypes, c \in Currencies :
          a = Account(<<type, c>>, Nil, type, c)
  <2>1. accounts = Seeded
    BY DEF Init
  <2> QED BY <2>1 DEF Seeded
<1>5. \A a, b \in accounts : SameKey(a, b) => a = b
  BY <1>4 DEF SameKey, Account
<1>6. ScopesFit
  BY <1>4 DEF ScopesFit, WellScoped, Account, IsMerchantScoped, MerchantTypes, PlatformTypes
<1>7. KeysDiffer /\ InsertsItsOwn
  BY <1>1, <1>2, <1>5 DEF KeysDiffer, InsertsItsOwn
<1>8. PendingIsSeen
  BY DEF Init, PendingIsSeen
<1> QED BY <1>3, <1>6, <1>7, <1>8 DEF AccountsInv

LEMMA AccountsStep == AccountsInv /\ [Next]_vars => AccountsInv'
<1> SUFFICES ASSUME AccountsInv, [Next]_vars PROVE AccountsInv'
  OBVIOUS
<1>1. ASSUME NEW j \in Jobs, Advance(j) PROVE AccountsInv'
  BY <1>1, FindStep, InsertStep, RereadStep, PostStep DEF Advance
<1>2. ASSUME NEW j \in Jobs, Abort(j) PROVE AccountsInv'
  BY <1>2, RollbackStep, JobsAreSessions DEF Abort, Statements
<1>3. ASSUME NEW s \in Sessions, Commit(s) PROVE AccountsInv'
  BY <1>3, CommitStep
<1>4. ASSUME NEW s \in Sessions, NEW txn, Check(s, txn) PROVE AccountsInv'
  BY <1>4, CheckStep
<1>5. CASE UNCHANGED vars
  BY <1>5 DEF AccountsInv, TypeOK, InsertsItsOwn, Inserting, KeysDiffer, PendingIsSeen, ScopesFit,
              Taken, Sees, vars, tables
<1> QED BY <1>1, <1>2, <1>3, <1>4, <1>5, HandStep DEF Next

\* COMMIT has nothing to check but what the session wrote.
DueFits == /\ DOMAIN due = Sessions
           /\ \A s \in Sessions : due[s] \subseteq TxnsOf(own[s].entries)

LEMMA DueStep == AccountsInv /\ DueFits /\ [Next]_vars => DueFits'
<1> SUFFICES ASSUME AccountsInv, DueFits, [Next]_vars PROVE DueFits'
  OBVIOUS
<1>1. /\ DOMAIN own = Sessions /\ DOMAIN due = Sessions
      /\ \A s \in Sessions : /\ DOMAIN own[s] = {"accounts", "headers", "entries"}
                             /\ due[s] \subseteq TxnsOf(own[s].entries)
  BY DEF AccountsInv, TypeOK, DueFits
<1>2. ASSUME NEW s \in Sessions, NEW to, Rollback(s, to) PROVE DueFits'
  BY <1>1, <1>2 DEF Rollback, DueFits
<1>3. ASSUME UNCHANGED due, DOMAIN own' = Sessions,
             \A s \in Sessions : own'[s].entries = own[s].entries \/ due[s] = {}
      PROVE  DueFits'
  BY <1>1, <1>3 DEF DueFits
<1>4. ASSUME NEW s \in Sessions, NEW h, NEW rows, due' = [due EXCEPT ![s] = TxnsOf(rows)],
             own' = [own EXCEPT ![s].headers = h, ![s].entries = rows]
      PROVE  DueFits'
  <2>1. own'[s].entries = rows /\ \A t \in Sessions \ {s} : own'[t] = own[t]
    BY <1>1, <1>4
  <2> QED BY <1>1, <1>4, <2>1 DEF DueFits
<1>5. ASSUME NEW j \in Jobs, Advance(j) PROVE DueFits'
  <2>1. j \in Sessions
    BY JobsAreSessions
  <2>2. CASE FindAccount(j) \/ RereadAccount(j)
    BY <1>1, <1>3, <2>2 DEF FindAccount, RereadAccount
  <2>3. CASE InsertAccount(j)
    <3>1. /\ UNCHANGED due /\ DOMAIN own' = Sessions
          /\ \A s \in Sessions : own'[s].entries = own[s].entries
      BY <1>1, <2>1, <2>3 DEF InsertAccount
    <3> QED BY <1>3, <3>1
  <2>4. CASE Post(j)
    BY <1>2, <1>4, <2>1, <2>4 DEF Post
  <2> QED BY <1>5, <2>2, <2>3, <2>4 DEF Advance
<1>6. ASSUME NEW j \in Jobs, Abort(j) PROVE DueFits'
  BY <1>2, <1>6, JobsAreSessions DEF Abort
<1>7. ASSUME NEW s \in Sessions, Commit(s) PROVE DueFits'
  <2>1. /\ UNCHANGED due /\ DOMAIN own' = Sessions /\ due[s] = {}
        /\ \A t \in Sessions \ {s} : own'[t] = own[t]
    BY <1>1, <1>7 DEF Commit, Publish
  <2> QED BY <1>3, <2>1
<1>8. ASSUME NEW s \in Sessions, NEW txn, Check(s, txn) PROVE DueFits'
  BY <1>1, <1>2, <1>8 DEF Check, DueFits
<1>9. ASSUME NEW x \in Hands, NEW lines, Write(x, lines) PROVE DueFits'
  BY <1>4, <1>9, JobsAreSessions DEF Write
<1>10. ASSUME NEW x \in Hands, NEW e, Mutate(x, e) PROVE DueFits'
  BY <1>2, <1>10, JobsAreSessions DEF Mutate
<1>11. CASE UNCHANGED vars
  BY <1>1, <1>3, <1>11 DEF vars
<1> QED BY <1>5, <1>6, <1>7, <1>8, <1>9, <1>10, <1>11 DEF Next

\* What holds of the accounts between the statements.
THEOREM AccountsInvariance == Spec => []AccountsInv
<1> QED BY AccountsInit, AccountsStep, PTL DEF Spec

LEMMA DueInvariance == Spec => []DueFits
<1>1. Init => DueFits
  BY DEF Init, DueFits
<1> QED BY <1>1, DueStep, AccountsInvariance, PTL DEF Spec

\* Both callers end with the same account, whichever of them inserts it, commits or
\* rolls back (store::ledger::find_or_create_merchant_account).
THEOREM BothCallersShare == Spec => []AccountsAreShared
<1>1. ASSUME AccountsInv, NEW i \in Jobs, NEW j \in Jobs, pending[i] # Nil, pending[j] # Nil,
             SameKey(pending[i], pending[j])
      PROVE  pending[i] = pending[j]
  <2>1. i \in Sessions /\ j \in Sessions
    BY JobsAreSessions
  <2>2. /\ pending[i] \in accounts \cup own[i].accounts
        /\ pending[j] \in accounts \cup own[j].accounts
    BY <1>1 DEF AccountsInv, PendingIsSeen, Sees
  <2>3. SameKey(pending[j], pending[i])
    BY <1>1 DEF SameKey
  <2>4. CASE i # j /\ pending[i] \in own[i].accounts
    BY <1>1, <2>1, <2>2, <2>3, <2>4 DEF AccountsInv, KeysDiffer, Taken
  <2>5. CASE i # j /\ pending[j] \in own[j].accounts
    BY <1>1, <2>1, <2>2, <2>3, <2>5 DEF AccountsInv, KeysDiffer, Taken
  <2>6. CASE pending[i] \in accounts /\ pending[j] \in accounts
    BY <1>1, <2>6 DEF AccountsInv, KeysDiffer
  <2> QED BY <2>2, <2>4, <2>5, <2>6
<1>2. AccountsInv => AccountsAreShared
  BY <1>1 DEF AccountsInv, KeysDiffer, PendingIsSeen, ScopesFit, AccountsAreShared
<1> QED BY <1>2, AccountsInvariance, PTL

-----------------------------------------------------------------------------
(* Sums over finite sets. *)

\* The sum of the weights w of the elements of S, taken in the order of CHOOSE.
First(s) == CHOOSE x \in s : TRUE
IsSum(g, w, S) ==
    g = [s \in SUBSET S |-> IF s = {} THEN 0 ELSE w[First(s)] + g[s \ {First(s)}]]
Sum(w, S) == (CHOOSE g : IsSum(g, w, S))[S]

LEMMA FirstIsIn == ASSUME NEW s, s # {} PROVE First(s) \in s
BY DEF First

\* Induction: of the finite sets that are not as they should be, one has no proper
\* subset that is not.
LEMMA SmallestSet ==
    ASSUME NEW S, IsFiniteSet(S), NEW Bad, Bad \subseteq SUBSET S, Bad # {}
    PROVE  \E T \in Bad : \A U \in SUBSET T : U # T => U \notin Bad
<1>1. IsWellFoundedOn(StrictSubsetOrdering(S), SUBSET S)
  BY FS_StrictSubsetOrderingWellFounded, FS_FiniteSubsetsOfFinite
<1>2. PICK T \in Bad : \A U \in Bad : ~(<<U, T>> \in StrictSubsetOrdering(S))
  BY <1>1, WFMin
<1>3. ASSUME NEW U \in SUBSET T, U # T, U \in Bad PROVE FALSE
  BY <1>2, <1>3 DEF StrictSubsetOrdering
<1> QED BY <1>3

\* Two sums agree where both are defined.
LEMMA SumsAgree ==
    ASSUME NEW w, NEW A, NEW B, IsFiniteSet(A), A \subseteq B,
           NEW g, NEW h, IsSum(g, w, A), IsSum(h, w, B)
    PROVE  \A s \in SUBSET A : g[s] = h[s]
<1> DEFINE Bad == {s \in SUBSET A : g[s] # h[s]}
<1>1. SUFFICES ASSUME Bad # {} PROVE FALSE
  OBVIOUS
<1>2. PICK T \in Bad : \A U \in SUBSET T : U # T => U \notin Bad
  <2>1. Bad \subseteq SUBSET A
    OBVIOUS
  <2> HIDE DEF Bad
  <2> QED BY <1>1, <2>1, SmallestSet
<1>3. T \in SUBSET A /\ T \in SUBSET B /\ g[T] # h[T]
  BY <1>2
<1>4. CASE T = {}
  BY <1>3, <1>4 DEF IsSum
<1>5. CASE T # {}
  <2> DEFINE U == T \ {First(T)}
  <2>1. U \in SUBSET A /\ U # T /\ U \in SUBSET T
    BY <1>3, <1>5, FirstIsIn
  <2>2. g[U] = h[U]
    BY <1>2, <2>1
  <2>3. g[T] = w[First(T)] + g[U]
    BY <1>3, <1>5 DEF IsSum
  <2>4. h[T] = w[First(T)] + h[U]
    BY <1>3, <1>5 DEF IsSum
  <2> HIDE DEF U
  <2> QED BY <1>3, <2>2, <2>3, <2>4
<1> QED BY <1>4, <1>5

\* A finite set has a sum: the sums of its proper subsets, which agree, and one more.
LEMMA SumsExist ==
    ASSUME NEW w, NEW S, IsFiniteSet(S)
    PROVE  \E g : IsSum(g, w, S)
<1> DEFINE Bad == {s \in SUBSET S : ~\E g : IsSum(g, w, s)}
<1>1. SUFFICES ASSUME Bad # {} PROVE FALSE
  OBVIOUS
<1>2. PICK T \in Bad : \A U \in SUBSET T : U # T => U \notin Bad
  <2>1. Bad \subseteq SUBSET S
    OBVIOUS
  <2> HIDE DEF Bad
  <2> QED BY <1>1, <2>1, SmallestSet
<1>3. \A U \in SUBSET T : U # T => \E g : IsSum(g, w, U)
  BY <1>2
<1> DEFINE of(s) == CHOOSE g : IsSum(g, w, s)
           value(s) == IF s = {} THEN 0 ELSE w[First(s)] + of(s \ {First(s)})[s \ {First(s)}]
           all == [s \in SUBSET T |-> value(s)]
<1>4. \A U \in SUBSET T : U # T => IsSum(of(U), w, U)
  BY <1>3
<1>5. ASSUME NEW s \in SUBSET T, s # T PROVE all[s] = of(s)[s]
  <2>1. IsSum(of(s), w, s)
    BY <1>4, <1>5
  <2>2. CASE s = {}
    BY <2>1, <2>2 DEF IsSum
  <2>3. CASE s # {}
    <3> DEFINE r == s \ {First(s)}
    <3>1. r \in SUBSET T /\ r # T /\ r \subseteq s
      BY <1>5, <2>3, FirstIsIn
    <3>2. IsSum(of(r), w, r)
      BY <1>4, <3>1
    <3>3. IsFiniteSet(r)
      BY <3>1, FS_Subset
    <3>4. of(r)[r] = of(s)[r]
      BY <2>1, <3>1, <3>2, <3>3, SumsAgree
    <3>5. of(s)[s] = w[First(s)] + of(s)[r]
      BY <2>1, <2>3 DEF IsSum
    <3>6. all[s] = w[First(s)] + of(r)[r]
      BY <1>5, <2>3
    <3> HIDE DEF r, of, all
    <3> QED BY <3>4, <3>5, <3>6
  <2> QED BY <2>2, <2>3
<1>6. IsSum(all, w, T)
  <2>1. ASSUME NEW s \in SUBSET T, s # {}
        PROVE  all[s] = w[First(s)] + all[s \ {First(s)}]
    <3> DEFINE r == s \ {First(s)}
    <3>1. r \in SUBSET T /\ r # T
      BY <2>1, FirstIsIn
    <3>2. all[r] = of(r)[r]
      BY <1>5, <3>1
    <3>3. all[s] = w[First(s)] + of(r)[r]
      BY <2>1
    <3> HIDE DEF r, of, all
    <3> QED BY <3>2, <3>3 DEF r
  <2>2. all[{}] = 0
    OBVIOUS
  <2>3. all = [s \in SUBSET T |-> all[s]]
    OBVIOUS
  <2> HIDE DEF all
  <2>4. \A s \in SUBSET T : all[s] = IF s = {} THEN 0 ELSE w[First(s)] + all[s \ {First(s)}]
    BY <2>1, <2>2
  <2>5. all = [s \in SUBSET T |-> IF s = {} THEN 0 ELSE w[First(s)] + all[s \ {First(s)}]]
    BY <2>3, <2>4
  <2> QED BY <2>5 DEF IsSum
<1> HIDE DEF all
<1>7. \E g : IsSum(g, w, T)
  BY <1>6
<1> QED BY <1>2, <1>7

LEMMA SumIsASum ==
    ASSUME NEW w, NEW S, IsFiniteSet(S), NEW g, IsSum(g, w, S)
    PROVE  \A s \in SUBSET S : Sum(w, s) = g[s]
<1> TAKE s \in SUBSET S
<1>1. IsFiniteSet(s)
  BY FS_Subset
<1>2. PICK h : IsSum(h, w, s)
  BY <1>1, SumsExist
<1> DEFINE c == CHOOSE k : IsSum(k, w, s)
<1>3. IsSum(c, w, s)
  BY <1>2
<1>4. c[s] = g[s]
  BY <1>1, <1>3, SumsAgree
<1> QED BY <1>4 DEF Sum

LEMMA SumOfNothing == \A w : Sum(w, {}) = 0
<1> TAKE w
<1>1. IsFiniteSet({})
  BY FS_EmptySet
<1>2. PICK g : IsSum(g, w, {})
  BY <1>1, SumsExist
<1>3. Sum(w, {}) = g[{}]
  BY <1>1, <1>2, SumIsASum
<1> QED BY <1>2, <1>3 DEF IsSum

LEMMA SumFromFirst ==
    ASSUME NEW w, NEW S, IsFiniteSet(S), S # {}
    PROVE  Sum(w, S) = w[First(S)] + Sum(w, S \ {First(S)})
<1>1. PICK g : IsSum(g, w, S)
  BY SumsExist
<1>2. Sum(w, S) = g[S] /\ Sum(w, S \ {First(S)}) = g[S \ {First(S)}]
  BY <1>1, SumIsASum
<1>3. g[S] = w[First(S)] + g[S \ {First(S)}]
  BY <1>1 DEF IsSum
<1> QED BY <1>2, <1>3

LEMMA SumIsInt ==
    ASSUME NEW w, NEW S, IsFiniteSet(S), \A x \in S : w[x] \in Int
    PROVE  Sum(w, S) \in Int
<1> DEFINE Bad == {s \in SUBSET S : Sum(w, s) \notin Int}
<1>1. SUFFICES ASSUME Bad # {} PROVE FALSE
  OBVIOUS
<1>2. PICK T \in Bad : \A U \in SUBSET T : U # T => U \notin Bad
  <2>1. Bad \subseteq SUBSET S
    OBVIOUS
  <2> HIDE DEF Bad
  <2> QED BY <1>1, <2>1, SmallestSet
<1>3. T # {} /\ IsFiniteSet(T)
  <2>1. T \in SUBSET S /\ Sum(w, T) \notin Int
    BY <1>2
  <2>2. IsFiniteSet(T)
    BY <2>1, FS_Subset
  <2> QED BY <2>1, <2>2, SumOfNothing
<1> DEFINE U == T \ {First(T)}
<1>4. First(T) \in T /\ U \in SUBSET T /\ U # T /\ U \in SUBSET S
  BY <1>2, <1>3, FirstIsIn
<1>5. Sum(w, U) \in Int
  BY <1>2, <1>4
<1>6. Sum(w, T) = w[First(T)] + Sum(w, U)
  BY <1>3, SumFromFirst
<1>7. w[First(T)] \in Int /\ Sum(w, T) \notin Int
  BY <1>2, <1>4
<1> HIDE DEF U
<1> QED BY <1>5, <1>6, <1>7

\* The order in which a sum is taken does not matter.
LEMMA SumFromAny ==
    ASSUME NEW w, NEW S, IsFiniteSet(S), \A x \in S : w[x] \in Int, NEW x \in S
    PROVE  Sum(w, S) = w[x] + Sum(w, S \ {x})
<1> DEFINE Bad == {s \in SUBSET S : \E y \in s : Sum(w, s) # w[y] + Sum(w, s \ {y})}
<1>1. SUFFICES ASSUME Bad # {} PROVE FALSE
  OBVIOUS
<1>2. PICK T \in Bad : \A U \in SUBSET T : U # T => U \notin Bad
  <2>1. Bad \subseteq SUBSET S
    OBVIOUS
  <2> HIDE DEF Bad
  <2> QED BY <1>1, <2>1, SmallestSet
<1>3. PICK y \in T : Sum(w, T) # w[y] + Sum(w, T \ {y})
  BY <1>2
<1>4. T \in SUBSET S /\ IsFiniteSet(T) /\ T # {} /\ First(T) \in T
  BY <1>2, <1>3, FS_Subset, FirstIsIn
<1> DEFINE f == First(T)
<1>5. Sum(w, T) = w[f] + Sum(w, T \ {f})
  BY <1>4, SumFromFirst
<1>6. y # f
  BY <1>3, <1>5
<1> DEFINE rest == (T \ {f}) \ {y}
<1>7. rest = (T \ {y}) \ {f}
  OBVIOUS
<1>8. Sum(w, T \ {f}) = w[y] + Sum(w, rest)
  BY <1>2, <1>4, <1>6
<1>9. Sum(w, T \ {y}) = w[f] + Sum(w, rest)
  BY <1>2, <1>3, <1>4, <1>6, <1>7
<1>10. IsFiniteSet(rest)
  BY <1>4, FS_Subset
<1>11. Sum(w, rest) \in Int /\ w[f] \in Int /\ w[y] \in Int
  BY <1>4, <1>10, SumIsInt
<1> HIDE DEF rest, f
<1> QED BY <1>3, <1>5, <1>8, <1>9, <1>11

LEMMA SumAdds ==
    ASSUME NEW w, NEW S, IsFiniteSet(S), NEW x, x \notin S, \A y \in S \cup {x} : w[y] \in Int
    PROVE  Sum(w, S \cup {x}) = w[x] + Sum(w, S)
<1>1. IsFiniteSet(S \cup {x}) /\ (S \cup {x}) \ {x} = S
  BY FS_AddElement
<1> QED BY <1>1, SumFromAny

LEMMA SumOfBoth ==
    ASSUME NEW w, NEW S, NEW T, IsFiniteSet(S), IsFiniteSet(T), S \cap T = {},
           \A x \in S \cup T : w[x] \in Int
    PROVE  Sum(w, S \cup T) = Sum(w, S) + Sum(w, T)
<1> DEFINE Bad == {U \in SUBSET T : Sum(w, S \cup U) # Sum(w, S) + Sum(w, U)}
<1>1. SUFFICES ASSUME Bad # {} PROVE FALSE
  OBVIOUS
<1>2. PICK U \in Bad : \A V \in SUBSET U : V # U => V \notin Bad
  <2>1. Bad \subseteq SUBSET T
    OBVIOUS
  <2> HIDE DEF Bad
  <2> QED BY <1>1, <2>1, SmallestSet
<1>3. Sum(w, S) \in Int
  BY SumIsInt
<1>4. U # {}
  <2>1. ASSUME U = {} PROVE Sum(w, S \cup U) = Sum(w, S) + Sum(w, U)
    <3>1. S \cup U = S
      BY <2>1
    <3>2. Sum(w, U) = 0
      BY <2>1, SumOfNothing
    <3>3. Sum(w, S \cup U) = Sum(w, S)
      BY <3>1
    <3> QED BY <1>3, <3>2, <3>3
  <2> QED BY <1>2, <2>1
<1>5. PICK x : x \in U
  BY <1>4
<1> DEFINE V == U \ {x}
<1>6. V \in SUBSET U /\ V # U /\ V \in SUBSET T /\ U = V \cup {x} /\ x \notin V /\ x \notin S \cup V
  BY <1>2, <1>5
<1>7. IsFiniteSet(V) /\ IsFiniteSet(S \cup V)
  BY <1>6, FS_Subset, FS_Union
<1>8. Sum(w, S \cup V) = Sum(w, S) + Sum(w, V)
  BY <1>2, <1>6
<1> HIDE DEF V
<1>9. Sum(w, U) = w[x] + Sum(w, V)
  BY <1>2, <1>6, <1>7, SumAdds
<1>10. (S \cup V) \cup {x} = S \cup U
  BY <1>6
<1>11. Sum(w, S \cup U) = w[x] + Sum(w, S \cup V)
  BY <1>2, <1>6, <1>7, <1>10, SumAdds
<1>12. w[x] \in Int /\ Sum(w, V) \in Int
  BY <1>2, <1>5, <1>6, <1>7, SumIsInt
<1> QED BY <1>2, <1>3, <1>8, <1>9, <1>11, <1>12

LEMMA SumsTheSame ==
    ASSUME NEW w, NEW v, NEW S, IsFiniteSet(S), \A x \in S : w[x] = v[x]
    PROVE  Sum(w, S) = Sum(v, S)
<1>1. PICK g : IsSum(g, w, S)
  BY SumsExist
<1>2. \A s \in SUBSET S : s # {} => w[First(s)] = v[First(s)]
  BY FirstIsIn
<1>3. IsSum(g, v, S)
  BY <1>1, <1>2 DEF IsSum
<1> QED BY <1>1, <1>3, SumIsASum

LEMMA SumOfZeros ==
    ASSUME NEW w, NEW S, IsFiniteSet(S), \A x \in S : w[x] = 0
    PROVE  Sum(w, S) = 0
<1> DEFINE Bad == {s \in SUBSET S : Sum(w, s) # 0}
<1>1. SUFFICES ASSUME Bad # {} PROVE FALSE
  OBVIOUS
<1>2. PICK T \in Bad : \A U \in SUBSET T : U # T => U \notin Bad
  <2>1. Bad \subseteq SUBSET S
    OBVIOUS
  <2> HIDE DEF Bad
  <2> QED BY <1>1, <2>1, SmallestSet
<1>3. T # {} /\ IsFiniteSet(T)
  <2>1. T \in SUBSET S /\ Sum(w, T) # 0
    BY <1>2
  <2>2. IsFiniteSet(T)
    BY <2>1, FS_Subset
  <2> QED BY <2>1, <2>2, SumOfNothing
<1> DEFINE U == T \ {First(T)}
<1>4. First(T) \in T /\ U \in SUBSET T /\ U # T /\ U \in SUBSET S
  BY <1>2, <1>3, FirstIsIn
<1>5. Sum(w, U) = 0
  BY <1>2, <1>4
<1>6. Sum(w, T) = w[First(T)] + Sum(w, U)
  BY <1>3, SumFromFirst
<1>7. w[First(T)] = 0 /\ Sum(w, T) # 0
  BY <1>2, <1>4
<1> HIDE DEF U
<1> QED BY <1>5, <1>6, <1>7

\* The sums of Books are such sums.
LEMMA SumOfAmounts ==
    ASSUME NEW S, IsFiniteSet(S)
    PROVE  MapThenSumSet(LAMBDA e : e.amount, S) = Sum([e \in S |-> e.amount], S)
<1> DEFINE w == [e \in S |-> e.amount]
           Fold(f) == f = [s \in SUBSET S |-> IF s = {} THEN 0
               ELSE LET x == CHOOSE x \in s : TRUE IN x.amount + f[s \ {x}]]
<1>1. PICK g : IsSum(g, w, S)
  BY SumsExist
<1>2. \A s \in SUBSET S : s # {} => w[First(s)] = First(s).amount
  BY FirstIsIn
<1>3. ASSUME NEW f PROVE IsSum(f, w, S) <=> Fold(f)
  BY <1>2 DEF IsSum, First
<1>4. PICK f : Fold(f) /\ MapThenSumSet(LAMBDA e : e.amount, S) = f[S]
  <2>1. Fold(g)
    BY <1>1, <1>3
  <2> QED BY <2>1 DEF MapThenSumSet, MapThenFoldSet
<1>5. IsSum(f, w, S)
  BY <1>3, <1>4
<1>6. Sum(w, S) = f[S]
  BY <1>5, SumIsASum
<1> QED BY <1>4, <1>6

LEMMA SumOfLines ==
    ASSUME NEW lines, NEW S, IsFiniteSet(S)
    PROVE  MapThenSumSet(LAMBDA i : lines[i].amount, S) = Sum([i \in S |-> lines[i].amount], S)
<1> DEFINE w == [i \in S |-> lines[i].amount]
           Fold(f) == f = [s \in SUBSET S |-> IF s = {} THEN 0
               ELSE LET x == CHOOSE x \in s : TRUE IN lines[x].amount + f[s \ {x}]]
<1>1. PICK g : IsSum(g, w, S)
  BY SumsExist
<1>2. \A s \in SUBSET S : s # {} => w[First(s)] = lines[First(s)].amount
  BY FirstIsIn
<1>3. ASSUME NEW f PROVE IsSum(f, w, S) <=> Fold(f)
  BY <1>2 DEF IsSum, First
<1>4. PICK f : Fold(f) /\ MapThenSumSet(LAMBDA i : lines[i].amount, S) = f[S]
  <2>1. Fold(g)
    BY <1>1, <1>3
  <2> QED BY <2>1 DEF MapThenSumSet, MapThenFoldSet
<1>5. IsSum(f, w, S)
  BY <1>3, <1>4
<1>6. Sum(w, S) = f[S]
  BY <1>5, SumIsASum
<1> QED BY <1>4, <1>6

LEMMA SumOfShares ==
    ASSUME NEW a, NEW S, IsFiniteSet(S)
    PROVE  MapThenSumSet(LAMBDA j : Share(j, a), S) = Sum([j \in S |-> Share(j, a)], S)
<1> DEFINE w == [j \in S |-> Share(j, a)]
           Fold(f) == f = [s \in SUBSET S |-> IF s = {} THEN 0
               ELSE LET x == CHOOSE x \in s : TRUE IN Share(x, a) + f[s \ {x}]]
<1>1. PICK g : IsSum(g, w, S)
  BY SumsExist
<1>2. \A s \in SUBSET S : s # {} => w[First(s)] = Share(First(s), a)
  BY FirstIsIn
<1>3. ASSUME NEW f PROVE IsSum(f, w, S) <=> Fold(f)
  BY <1>2 DEF IsSum, First
<1>4. PICK f : Fold(f) /\ MapThenSumSet(LAMBDA j : Share(j, a), S) = f[S]
  <2>1. Fold(g)
    BY <1>1, <1>3
  <2> QED BY <2>1 DEF MapThenSumSet, MapThenFoldSet
<1>5. IsSum(f, w, S)
  BY <1>3, <1>4
<1>6. Sum(w, S) = f[S]
  BY <1>5, SumIsASum
<1> QED BY <1>4, <1>6

-----------------------------------------------------------------------------
(* Balances. *)

\* What an entry gives an account.
Gives(e, a) == IF e.account = a.id THEN e.amount ELSE 0

LEMMA BalanceIsSum ==
    ASSUME NEW a, NEW rows, IsFiniteSet(rows), \A e \in rows : e.amount \in Int
    PROVE  Balance(rows, a) = Sum([e \in rows |-> Gives(e, a)], rows)
<1> DEFINE its == {e \in rows : e.account = a.id}
           rest == rows \ its
           w == [e \in rows |-> Gives(e, a)]
           v == [e \in its |-> e.amount]
<1>1. IsFiniteSet(its) /\ IsFiniteSet(rest) /\ its \cap rest = {} /\ its \cup rest = rows
  BY FS_Subset
<1>2. /\ \A e \in rows : w[e] \in Int
      /\ \A e \in its : w[e] = v[e]
      /\ \A e \in rest : w[e] = 0
  BY DEF Gives
<1>3. Balance(rows, a) = Sum(v, its)
  BY <1>1, SumOfAmounts DEF Balance
<1> HIDE DEF its, rest, w, v
<1>4. Sum(v, its) = Sum(w, its)
  BY <1>1, <1>2, SumsTheSame
<1>5. Sum(w, rest) = 0
  BY <1>1, <1>2, SumOfZeros
<1>6. Sum(w, rows) = Sum(w, its) + Sum(w, rest)
  BY <1>1, <1>2, SumOfBoth
<1>7. Sum(w, its) \in Int
  BY <1>1, <1>2, SumIsInt
<1> QED BY <1>3, <1>4, <1>5, <1>6, <1>7 DEF w

LEMMA BalanceIsInt ==
    ASSUME NEW a, NEW rows, IsFiniteSet(rows), \A e \in rows : e.amount \in Int
    PROVE  Balance(rows, a) \in Int
<1> DEFINE w == [e \in rows |-> Gives(e, a)]
<1>1. \A e \in rows : w[e] \in Int
  BY DEF Gives
<1>2. Balance(rows, a) = Sum(w, rows)
  BY BalanceIsSum
<1> HIDE DEF w
<1> QED BY <1>1, <1>2, SumIsInt

LEMMA BalanceOfBoth ==
    ASSUME NEW a, NEW R, NEW E, IsFiniteSet(R), IsFiniteSet(E), R \cap E = {},
           \A e \in R \cup E : e.amount \in Int
    PROVE  Balance(R \cup E, a) = Balance(R, a) + Balance(E, a)
<1> DEFINE w == [e \in R \cup E |-> Gives(e, a)]
           v == [e \in R |-> Gives(e, a)]
           u == [e \in E |-> Gives(e, a)]
<1>1. /\ \A e \in R \cup E : w[e] \in Int
      /\ \A e \in R : w[e] = v[e]
      /\ \A e \in E : w[e] = u[e]
  BY DEF Gives
<1>2. IsFiniteSet(R \cup E)
  BY FS_Union
<1>3. /\ Balance(R \cup E, a) = Sum(w, R \cup E)
      /\ Balance(R, a) = Sum(v, R) /\ Balance(E, a) = Sum(u, E)
  BY <1>2, BalanceIsSum
<1> HIDE DEF w, v, u
<1>4. Sum(w, R) = Sum(v, R) /\ Sum(w, E) = Sum(u, E)
  BY <1>1, SumsTheSame
<1> QED BY <1>1, <1>3, <1>4, SumOfBoth

-----------------------------------------------------------------------------
(* Sums of one, of two and of three. *)

LEMMA SumOfOne ==
    ASSUME NEW w, NEW x, w[x] \in Int
    PROVE  Sum(w, {x}) = w[x]
<1>1. IsFiniteSet({}) /\ x \notin {} /\ {} \cup {x} = {x}
  BY FS_EmptySet
<1>2. Sum(w, {x}) = w[x] + Sum(w, {})
  BY <1>1, SumAdds
<1> QED BY <1>2, SumOfNothing

LEMMA SumOfTwo ==
    ASSUME NEW w, NEW x, NEW y, x # y, w[x] \in Int, w[y] \in Int
    PROVE  Sum(w, {x, y}) = w[x] + w[y]
<1>1. IsFiniteSet({y}) /\ x \notin {y} /\ {y} \cup {x} = {x, y}
  BY FS_Singleton
<1>2. \A v \in {y} \cup {x} : w[v] \in Int
  OBVIOUS
<1>3. Sum(w, {y} \cup {x}) = w[x] + Sum(w, {y})
  BY <1>1, <1>2, SumAdds
<1> QED BY <1>1, <1>3, SumOfOne

LEMMA SumOfThree ==
    ASSUME NEW w, NEW x, NEW y, NEW z, x # y, x # z, y # z,
           w[x] \in Int, w[y] \in Int, w[z] \in Int
    PROVE  Sum(w, {x, y, z}) = w[x] + w[y] + w[z]
<1>1. x \notin {y, z} /\ {y, z} \cup {x} = {x, y, z} /\ {y} \cup {z} = {y, z}
  OBVIOUS
<1>2. IsFiniteSet({y, z})
  <2>1. IsFiniteSet({y})
    BY FS_Singleton
  <2>2. IsFiniteSet({y} \cup {z})
    BY <2>1, FS_AddElement
  <2> QED BY <1>1, <2>2
<1>3. \A v \in {y, z} \cup {x} : w[v] \in Int
  OBVIOUS
<1>4. Sum(w, {y, z} \cup {x}) = w[x] + Sum(w, {y, z})
  BY <1>1, <1>2, <1>3, SumAdds
<1>5. Sum(w, {y, z}) = w[y] + w[z]
  BY SumOfTwo
<1>6. Sum(w, {x, y, z}) = w[x] + (w[y] + w[z])
  BY <1>1, <1>4, <1>5
<1> QED BY <1>6

LEMMA SumOfFirstThree ==
    ASSUME NEW w, w[1] \in Int, w[2] \in Int, w[3] \in Int
    PROVE  Sum(w, {1, 2, 3}) = w[1] + w[2] + w[3]
<1>1. PICK i, j, k : i = 1 /\ j = 2 /\ k = 3
  OBVIOUS
<1>2. i # j /\ i # k /\ j # k /\ w[i] \in Int /\ w[j] \in Int /\ w[k] \in Int
  BY <1>1
<1>3. Sum(w, {i, j, k}) = w[i] + w[j] + w[k]
  BY <1>2, SumOfThree
<1> QED BY <1>1, <1>3

-----------------------------------------------------------------------------
(* A transaction of two or three sides. *)

\* What a line adds to an account, by the id of the account.
GivesSide(side, a) == IF side.account.id = a.id THEN Signed(side) ELSE 0

\* Sides that no layer refuses.
Sound(side) == side.side \in {"credit", "debit"} /\ side.minor \in Nat \ {0}
Fair(sides) ==
    /\ \A i \in DOMAIN sides : Sound(sides[i])
    /\ Fits(Signed(sides[1])) /\ Fits(Signed(sides[1]) + Signed(sides[2]))
    /\ \/ DOMAIN sides = 1..2 /\ Signed(sides[1]) + Signed(sides[2]) = 0
       \/ DOMAIN sides = 1..3 /\ Signed(sides[1]) + Signed(sides[2]) + Signed(sides[3]) = 0

LEMMA SidesAre ==
    /\ 1..1 = {1} /\ 1..2 = {1, 2} /\ 1..3 = {1, 2, 3}
    /\ IsFiniteSet(1..1) /\ IsFiniteSet(1..2) /\ IsFiniteSet(1..3)
<1>1. 1 \in Int /\ 2 \in Int /\ 3 \in Int
  OBVIOUS
<1>2. IsFiniteSet(1..1) /\ IsFiniteSet(1..2) /\ IsFiniteSet(1..3)
  BY <1>1, FS_Interval
<1>3. 1..1 = {1} /\ 1..2 = {1, 2} /\ 1..3 = {1, 2, 3}
  OBVIOUS
<1> QED BY <1>2, <1>3

LEMMA SignedIsInt ==
    ASSUME NEW side, Sound(side)
    PROVE  Signed(side) \in Int
BY DEF Sound, Signed

\* The first layer accepts them.
LEMMA FairBuilds ==
    ASSUME NEW sides, NEW c \in Currencies, Fair(sides)
    PROVE  Builds(sides, c)
<1> DEFINE lines == Lines(sides, c)
           w == [i \in DOMAIN sides |-> Signed(sides[i])]
<1>1. /\ \A i \in DOMAIN sides : w[i] \in Int /\ lines[i].amount = w[i] /\ lines[i].currency = c
      /\ DOMAIN lines = DOMAIN sides
  BY SignedIsInt DEF Fair, Lines
<1>2. \A i \in DOMAIN sides : Acceptable(sides[i])
  BY DEF Fair, Sound, Acceptable
<1>3. /\ DOMAIN sides \in {1..2, 1..3} /\ Len(lines) >= 2 /\ Len(lines) \in {2, 3}
      /\ DOMAIN sides = 1..Len(lines)
  <2>1. ASSUME NEW k \in {2, 3}, DOMAIN lines = 1..k PROVE Len(lines) = k
    BY <2>1
  <2> QED BY <1>1, <2>1 DEF Fair
<1>4. ASSUME NEW n \in DOMAIN sides, NEW d \in Currencies
      PROVE  Running(lines, d, n) = IF d = c THEN Sum(w, 1..n) ELSE 0
  <2> DEFINE its == {i \in 1..n : lines[i].currency = d}
             v == [i \in its |-> lines[i].amount]
  <2>1. n \in {1, 2, 3} /\ 1..n \subseteq DOMAIN sides
    BY <1>3, SidesAre
  <2>2. IsFiniteSet(1..n) /\ its \subseteq 1..n
    BY <2>1, SidesAre
  <2>3. IsFiniteSet(its)
    BY <2>2, FS_Subset
  <2>4. Running(lines, d, n) = Sum(v, its)
    BY <2>3, SumOfLines DEF Running
  <2>5. CASE d = c
    <3>1. its = 1..n /\ \A i \in its : v[i] = w[i]
      BY <1>1, <2>1, <2>5
    <3> HIDE DEF its, v, w
    <3>2. Sum(v, its) = Sum(w, its)
      BY <2>3, <3>1, SumsTheSame
    <3> QED BY <2>4, <2>5, <3>1, <3>2
  <2>6. CASE d # c
    <3>1. its = {}
      BY <1>1, <2>1, <2>6
    <3> QED BY <2>4, <2>6, <3>1, SumOfNothing
  <2> QED BY <2>5, <2>6
<1>5. /\ Sum(w, 1..1) = w[1] /\ Sum(w, 1..2) = w[1] + w[2]
      /\ 3 \in DOMAIN sides => Sum(w, 1..3) = w[1] + w[2] + w[3]
  <2>1. w[1] \in Int /\ w[2] \in Int /\ (3 \in DOMAIN sides => w[3] \in Int)
    BY <1>1, <1>3
  <2> HIDE DEF w
  <2>2. Sum(w, {1}) = w[1] /\ Sum(w, {1, 2}) = w[1] + w[2]
    BY <2>1, 1 # 2, SumOfOne, SumOfTwo
  <2>3. ASSUME 3 \in DOMAIN sides PROVE Sum(w, {1, 2, 3}) = w[1] + w[2] + w[3]
    BY <2>1, <2>3, SumOfFirstThree
  <2> QED BY <2>2, <2>3, SidesAre
<1>6. /\ Fits(w[1]) /\ Fits(w[1] + w[2]) /\ Fits(0)
      /\ DOMAIN sides = 1..2 => w[1] + w[2] = 0
      /\ DOMAIN sides = 1..3 => w[1] + w[2] + w[3] = 0
  <2>1. 1 \in DOMAIN sides /\ 2 \in DOMAIN sides /\ ~(1..2 = 1..3)
    BY <1>3, SidesAre
  <2>2. Fits(0)
    BY MoneyAssumption DEF Fits
  <2> QED BY <1>3, <2>1, <2>2, SidesAre DEF Fair
<1> HIDE DEF lines, w
<1>7. ASSUME NEW d \in Currencies
      PROVE  /\ \A n \in DOMAIN sides : Fits(Running(lines, d, n))
             /\ Running(lines, d, Len(lines)) = 0
  <2>1. \A n \in DOMAIN sides : n \in {1, 2, 3}
    BY <1>3
  <2>2. Len(lines) \in DOMAIN sides
    BY <1>3
  <2>3. CASE d # c
    BY <1>4, <1>6, <2>2, <2>3
  <2>4. CASE d = c /\ DOMAIN sides = 1..2
    <3>1. Len(lines) = 2
      BY <1>3, <2>4, SidesAre
    <3> QED BY <1>4, <1>5, <1>6, <2>4, <3>1, SidesAre
  <2>5. CASE d = c /\ DOMAIN sides = 1..3
    <3>1. Len(lines) = 3
      BY <1>3, <2>5, SidesAre
    <3> QED BY <1>4, <1>5, <1>6, <2>5, <3>1, SidesAre
  <2> QED BY <1>3, <2>3, <2>4, <2>5
<1> QED BY <1>1, <1>2, <1>3, <1>7 DEF Builds, Accepted, lines

LEMMA PairsAndTriples ==
    /\ \A x, y : x # y => IsFiniteSet({x, y}) /\ Cardinality({x, y}) = 2
    /\ \A x, y, z : x # y /\ x # z /\ y # z
          => IsFiniteSet({x, y, z}) /\ Cardinality({x, y, z}) = 3
<1>1. ASSUME NEW x, NEW y, x # y PROVE IsFiniteSet({x, y}) /\ Cardinality({x, y}) = 2
  <2>1. IsFiniteSet({y}) /\ Cardinality({y}) = 1 /\ x \notin {y} /\ {y} \cup {x} = {x, y}
    BY <1>1, FS_Singleton
  <2>2. IsFiniteSet({y} \cup {x}) /\ Cardinality({y} \cup {x}) = Cardinality({y}) + 1
    BY <2>1, FS_AddElement
  <2> QED BY <2>1, <2>2
<1>2. ASSUME NEW x, NEW y, NEW z, x # y, x # z, y # z
      PROVE  IsFiniteSet({x, y, z}) /\ Cardinality({x, y, z}) = 3
  <2>1. IsFiniteSet({y, z}) /\ Cardinality({y, z}) = 2
    BY <1>1, <1>2
  <2>2. x \notin {y, z} /\ {y, z} \cup {x} = {x, y, z}
    BY <1>2
  <2>3. IsFiniteSet({y, z} \cup {x}) /\ Cardinality({y, z} \cup {x}) = Cardinality({y, z}) + 1
    BY <2>1, <2>2, FS_AddElement
  <2> QED BY <2>1, <2>2, <2>3
<1> QED BY <1>1, <1>2

-----------------------------------------------------------------------------
(* The rows of a transaction. *)

Entry(txn, i, side, c) ==
    [id |-> <<txn[1], txn[2], i>>, txn |-> txn, account |-> side.account.id,
     amount |-> Signed(side), currency |-> c]
Rows(txn, sides, c) == {Entry(txn, i, sides[i], c) : i \in DOMAIN sides}
GivesThird(sides, a) == IF 3 \in DOMAIN sides THEN GivesSide(sides[3], a) ELSE 0

\* The second layer accepts them, and they give the accounts what the sides say.
LEMMA FairRows ==
    ASSUME NEW txn, NEW sides, NEW c, Fair(sides)
    PROVE  LET rows == Rows(txn, sides, c)
           IN  /\ IsFiniteSet(rows) /\ Cardinality(rows) >= 2
               /\ \A e \in rows : e.amount \in Int
               /\ \A d : TotalIn(rows, d) = 0
               /\ \A a : Balance(rows, a) =
                    GivesSide(sides[1], a) + GivesSide(sides[2], a) + GivesThird(sides, a)
<1> DEFINE rows == Rows(txn, sides, c)
           x == Entry(txn, 1, sides[1], c)
           y == Entry(txn, 2, sides[2], c)
           z == Entry(txn, 3, sides[3], c)
<1>1. /\ x # y /\ x # z /\ y # z
      /\ x.currency = c /\ y.currency = c /\ z.currency = c
      /\ x.amount = Signed(sides[1]) /\ y.amount = Signed(sides[2]) /\ z.amount = Signed(sides[3])
      /\ \A a : Gives(x, a) = GivesSide(sides[1], a) /\ Gives(y, a) = GivesSide(sides[2], a)
                /\ Gives(z, a) = GivesSide(sides[3], a)
  BY DEF Entry, Gives, GivesSide
<1>2. \A i \in DOMAIN sides : Signed(sides[i]) \in Int
  BY SignedIsInt DEF Fair
<1>3. ASSUME NEW d, IsFiniteSet(rows), \A e \in rows : e.currency = c /\ e.amount \in Int,
             Sum([e \in rows |-> e.amount], rows) = 0
      PROVE  TotalIn(rows, d) = 0
  <2>1. CASE d = c
    <3>1. {e \in rows : e.currency = d} = rows
      BY <1>3, <2>1
    <3> QED BY <1>3, <3>1, SumOfAmounts DEF TotalIn
  <2>2. CASE d # c
    <3>1. {e \in rows : e.currency = d} = {} /\ IsFiniteSet({})
      BY <1>3, <2>2, FS_EmptySet
    <3> QED BY <3>1, SumOfAmounts, SumOfNothing DEF TotalIn
  <2> QED BY <2>1, <2>2
<1>4. \A e \in {x, y, z} : e.amount \in Int => \A a : Gives(e, a) \in Int
  BY DEF Gives
<1>5. CASE DOMAIN sides = 1..2
  <2>1. rows = {x, y} /\ ~(3 \in DOMAIN sides) /\ 1 \in DOMAIN sides /\ 2 \in DOMAIN sides
    BY <1>5, SidesAre DEF Rows
  <2>2. x.amount + y.amount = 0 /\ x.amount \in Int /\ y.amount \in Int
    <3>1. ~(1..2 = 1..3)
      BY SidesAre
    <3> QED BY <1>1, <1>2, <1>5, <2>1, <3>1 DEF Fair
  <2>3. ASSUME NEW a PROVE Gives(x, a) \in Int /\ Gives(y, a) \in Int
    BY <1>4, <2>2
  <2> HIDE DEF rows, x, y, z
  <2>4. IsFiniteSet(rows) /\ Cardinality(rows) = 2
    BY <1>1, <2>1, PairsAndTriples
  <2>5. Sum([e \in rows |-> e.amount], rows) = 0
    <3> DEFINE w == [e \in rows |-> e.amount]
    <3>1. w[x] = x.amount /\ w[y] = y.amount
      BY <2>1
    <3> HIDE DEF w
    <3>2. Sum(w, {x, y}) = w[x] + w[y]
      BY <1>1, <2>2, <3>1, SumOfTwo
    <3> QED BY <2>1, <2>2, <3>1, <3>2 DEF w
  <2>6. ASSUME NEW a PROVE Balance(rows, a) = Gives(x, a) + Gives(y, a)
    <3> DEFINE w == [e \in rows |-> Gives(e, a)]
    <3>1. w[x] = Gives(x, a) /\ w[y] = Gives(y, a) /\ w[x] \in Int /\ w[y] \in Int
      BY <2>1, <2>3
    <3>2. Balance(rows, a) = Sum(w, rows)
      BY <2>1, <2>2, <2>4, BalanceIsSum
    <3> HIDE DEF w
    <3>3. Sum(w, {x, y}) = w[x] + w[y]
      BY <1>1, <3>1, SumOfTwo
    <3> QED BY <2>1, <3>1, <3>2, <3>3
  <2>7. \A e \in rows : e.currency = c /\ e.amount \in Int
    BY <1>1, <2>1, <2>2
  <2>8. \A d : TotalIn(rows, d) = 0
    BY <1>3, <2>4, <2>5, <2>7
  <2>9. ASSUME NEW a
        PROVE  Balance(rows, a) =
                 GivesSide(sides[1], a) + GivesSide(sides[2], a) + GivesThird(sides, a)
    <3>1. GivesThird(sides, a) = 0
      BY <2>1 DEF GivesThird
    <3>2. Balance(rows, a) = GivesSide(sides[1], a) + GivesSide(sides[2], a)
      BY <1>1, <2>6
    <3>3. GivesSide(sides[1], a) + GivesSide(sides[2], a) \in Int
      BY <1>1, <2>3
    <3> QED BY <3>1, <3>2, <3>3
  <2> QED BY <2>4, <2>7, <2>8, <2>9 DEF rows
<1>6. CASE DOMAIN sides = 1..3
  <2>1. /\ rows = {x, y, z} /\ 1 \in DOMAIN sides /\ 2 \in DOMAIN sides /\ 3 \in DOMAIN sides
    BY <1>6, SidesAre DEF Rows
  <2>2. x.amount + y.amount + z.amount = 0 /\ x.amount \in Int /\ y.amount \in Int /\ z.amount \in Int
    <3>1. ~(1..2 = 1..3)
      BY SidesAre
    <3> QED BY <1>1, <1>2, <1>6, <2>1, <3>1 DEF Fair
  <2>3. ASSUME NEW a PROVE Gives(x, a) \in Int /\ Gives(y, a) \in Int /\ Gives(z, a) \in Int
    BY <1>4, <2>2
  <2> HIDE DEF rows, x, y, z
  <2>4. IsFiniteSet(rows) /\ Cardinality(rows) = 3
    <3>1. x # y /\ x # z /\ y # z
      BY <1>1
    <3> QED BY <2>1, <3>1, PairsAndTriples
  <2>5. Sum([e \in rows |-> e.amount], rows) = 0
    <3> DEFINE w == [e \in rows |-> e.amount]
    <3>1. w[x] = x.amount /\ w[y] = y.amount /\ w[z] = z.amount
      BY <2>1
    <3> HIDE DEF w
    <3>2. Sum(w, rows) = w[x] + w[y] + w[z]
      <4>1. x # y /\ x # z /\ y # z /\ w[x] \in Int /\ w[y] \in Int /\ w[z] \in Int
        BY <1>1, <2>2, <3>1
      <4>2. rows \ {x} = {y, z} /\ x \in rows /\ \A v \in rows : w[v] \in Int
        BY <2>1, <4>1
      <4>3. Sum(w, rows) = w[x] + Sum(w, rows \ {x})
        BY <2>4, <4>2, SumFromAny
      <4>4. Sum(w, {y, z}) = w[y] + w[z]
        BY <4>1, SumOfTwo
      <4>5. Sum(w, rows \ {x}) = w[y] + w[z]
        BY <4>2, <4>4
      <4> QED BY <4>1, <4>3, <4>5
    <3> QED BY <2>1, <2>2, <3>1, <3>2 DEF w
  <2>6. ASSUME NEW a PROVE Balance(rows, a) = Gives(x, a) + Gives(y, a) + Gives(z, a)
    <3> DEFINE w == [e \in rows |-> Gives(e, a)]
    <3>1. /\ w[x] = Gives(x, a) /\ w[y] = Gives(y, a) /\ w[z] = Gives(z, a)
          /\ w[x] \in Int /\ w[y] \in Int /\ w[z] \in Int
      BY <2>1, <2>3
    <3>2. Balance(rows, a) = Sum(w, rows)
      BY <2>1, <2>2, <2>4, BalanceIsSum
    <3> HIDE DEF w
    <3>3. Sum(w, rows) = w[x] + w[y] + w[z]
      <4>1. x # y /\ x # z /\ y # z /\ w[x] \in Int /\ w[y] \in Int /\ w[z] \in Int
        BY <1>1, <3>1
      <4>2. rows \ {x} = {y, z} /\ x \in rows /\ \A v \in rows : w[v] \in Int
        BY <2>1, <4>1
      <4>3. Sum(w, rows) = w[x] + Sum(w, rows \ {x})
        BY <2>4, <4>2, SumFromAny
      <4>4. Sum(w, {y, z}) = w[y] + w[z]
        BY <4>1, SumOfTwo
      <4>5. Sum(w, rows \ {x}) = w[y] + w[z]
        BY <4>2, <4>4
      <4> QED BY <4>1, <4>3, <4>5
    <3> QED BY <2>1, <3>1, <3>2, <3>3
  <2>7. \A e \in rows : e.currency = c /\ e.amount \in Int
    BY <1>1, <2>1, <2>2
  <2>8. \A d : TotalIn(rows, d) = 0
    BY <1>3, <2>4, <2>5, <2>7
  <2>9. ASSUME NEW a
        PROVE  Balance(rows, a) =
                 GivesSide(sides[1], a) + GivesSide(sides[2], a) + GivesThird(sides, a)
    <3>1. GivesThird(sides, a) = GivesSide(sides[3], a)
      BY <2>1 DEF GivesThird
    <3> QED BY <1>1, <2>6, <3>1
  <2> QED BY <2>4, <2>7, <2>8, <2>9 DEF rows
<1> QED BY <1>5, <1>6 DEF Fair

-----------------------------------------------------------------------------
(* The arithmetic of a share. *)

\* Division by a positive number: what is below it vanishes, multiples come
\* back, and the order stays.
LEMMA DivFacts ==
    ASSUME NEW d \in Nat, d > 0
    PROVE  /\ \A x \in 0..(d - 1) : x \div d = 0
           /\ \A c \in Int, x \in 0..(d - 1) : (c * d + x) \div d = c
           /\ \A x, y \in Int : x <= y => x \div d <= y \div d
<1>1. ASSUME NEW c \in Int, NEW x \in 0..(d - 1)
      PROVE  (c * d + x) \div d = c
  OBVIOUS
<1>2. ASSUME NEW x \in 0..(d - 1)
      PROVE  x \div d = 0
  OBVIOUS
<1>3. ASSUME NEW x \in Int, NEW y \in Int, x <= y
      PROVE  x \div d <= y \div d
  <2> DEFINE q == x \div d
             p == y \div d
  <2>1. q \in Int /\ p \in Int /\ d * q <= x /\ y < d * (p + 1)
    OBVIOUS
  <2> HIDE DEF q, p
  <2>2. ASSUME q > p PROVE FALSE
    <3>1. q - (p + 1) \in Nat
      BY <2>1, <2>2
    <3>2. d * (q - (p + 1)) \in Nat
      BY <3>1
    <3>3. d * q = d * (p + 1) + d * (q - (p + 1))
      BY <2>1
    <3>4. d * (p + 1) \in Int /\ d * q \in Int
      BY <2>1
    <3> QED BY <1>3, <2>1, <3>2, <3>3, <3>4
  <2> QED BY <2>1, <2>2 DEF q, p
<1> QED BY <1>1, <1>2, <1>3

\* Half of a positive number is below it.
LEMMA HalfFits == ASSUME NEW a \in Nat, a > 0 PROVE a \div 2 \in 0..(a - 1)
OBVIOUS

\* Nothing is owed at first, everything at last, and never less than before.
LEMMA OwedFacts ==
    ASSUME NEW c \in Nat, NEW a \in Nat, a > 0
    PROVE  /\ Owed(c, 0, a) = 0
           /\ Owed(c, a, a) = c
           /\ \A g \in Nat : Owed(c, g, a) \in Int
           /\ \A g, h \in Nat : g <= h => Owed(c, g, a) <= Owed(c, h, a)
<1> DEFINE half == a \div 2
<1>1. half \in 0..(a - 1)
  BY HalfFits
<1> HIDE DEF half
<1>2. \A g \in Nat : c * g \in Nat /\ Owed(c, g, a) = (c * g + half) \div a
  <2> TAKE g \in Nat
  <2>1. c * g \in Nat
    OBVIOUS
  <2> QED BY <2>1 DEF Owed, Percent, half
<1>3. Owed(c, 0, a) = 0
  BY <1>1, <1>2, DivFacts
<1>4. Owed(c, a, a) = c
  <2>1. (c * a + half) \div a = c
    BY <1>1, DivFacts
  <2> QED BY <1>2, <2>1
<1>5. \A g \in Nat : Owed(c, g, a) \in Int
  BY <1>1, <1>2
<1>6. ASSUME NEW g \in Nat, NEW h \in Nat, g <= h
      PROVE  Owed(c, g, a) <= Owed(c, h, a)
  <2>1. c * g <= c * h
    <3>1. h - g \in Nat /\ c * (h - g) \in Nat
      BY <1>6
    <3>2. c * h = c * g + c * (h - g)
      OBVIOUS
    <3> QED BY <1>2, <3>1, <3>2
  <2>2. c * g + half <= c * h + half
    BY <1>1, <1>2, <2>1
  <2>3. c * g + half \in Int /\ c * h + half \in Int
    BY <1>1, <1>2
  <2>4. (c * g + half) \div a <= (c * h + half) \div a
    BY <2>2, <2>3, DivFacts
  <2> QED BY <1>2, <2>4
<1> QED BY <1>3, <1>4, <1>5, <1>6

\* A fee is positive and its tax is not negative.
LEMMA FeeFacts ==
    ASSUME NEW amount \in Nat, NEW currency
    PROVE  FeeBase(amount, currency) \in Nat \ {0} /\ FeeTax(amount, currency) \in Nat
<1>1. ASSUME NEW m \in Nat, NEW n \in Nat, NEW d \in Nat, d > 0
      PROVE  Percent(m, n, d) \in Nat
  <2> DEFINE half == d \div 2
  <2>1. m * n \in Nat /\ half \in Nat
    BY <1>1
  <2>2. Percent(m, n, d) = (m * n + half) \div d
    BY <2>1 DEF Percent
  <2> HIDE DEF half
  <2>3. 0 <= m * n + half /\ m * n + half \in Int
    BY <2>1
  <2>4. 0 \div d = 0 /\ 0 \div d <= (m * n + half) \div d
    BY <1>1, <2>3, DivFacts
  <2>5. (m * n + half) \div d \in Int
    BY <1>1, <2>3
  <2> QED BY <2>2, <2>4, <2>5
<1> DEFINE schedule == ForCurrency(currency)
<1>2. /\ schedule.percent_bps \in Nat /\ schedule.fixed_minor \in Nat \ {0}
      /\ schedule.tax_percent \in Nat
  BY DEF ForCurrency
<1>3. FeeBase(amount, currency) \in Nat \ {0}
  <2>1. Percent(amount, schedule.percent_bps, 10000) \in Nat
    BY <1>1, <1>2
  <2> QED BY <1>2, <2>1 DEF FeeBase
<1>4. FeeTax(amount, currency) \in Nat
  BY <1>1, <1>2, <1>3 DEF FeeTax
<1> QED BY <1>3, <1>4

LEMMA FeesAre ==
    ASSUME NEW p \in Payments
    PROVE  /\ Price[p].minor \in Nat \ {0} /\ RefundOf[p] \in Nat /\ RefundOf[p] <= Price[p].minor
           /\ Fee(p).base \in Nat \ {0} /\ Fee(p).tax \in Nat
           /\ FeeBack(p).base \in Nat /\ FeeBack(p).base <= Fee(p).base
           /\ FeeBack(p).tax \in Nat /\ FeeBack(p).tax <= Fee(p).tax
<1> DEFINE price == Price[p].minor
           refunded == RefundOf[p]
           base == FeeBase(price, Price[p].currency)
           tax == FeeTax(price, Price[p].currency)
<1>1. /\ price \in Nat \ {0} /\ refunded \in Nat /\ refunded <= price
  BY BooksAssumption
<1>2. /\ Fee(p).base = base /\ Fee(p).tax = tax
      /\ FeeBack(p).base = Owed(base, refunded, price) - Owed(base, 0, price)
      /\ FeeBack(p).tax = Owed(tax, refunded, price) - Owed(tax, 0, price)
  BY DEF Fee, FeeBack, FeeRefund
<1>3. base \in Nat \ {0} /\ tax \in Nat
  BY <1>1, FeeFacts
<1> HIDE DEF price, refunded, base, tax
<1>4. ASSUME NEW part \in Nat
      PROVE  /\ Owed(part, refunded, price) - Owed(part, 0, price) \in Nat
             /\ Owed(part, refunded, price) - Owed(part, 0, price) <= part
  <2>1. /\ Owed(part, 0, price) = 0 /\ Owed(part, price, price) = part
        /\ Owed(part, refunded, price) \in Int
        /\ Owed(part, 0, price) <= Owed(part, refunded, price)
        /\ Owed(part, refunded, price) <= Owed(part, price, price)
    BY <1>1, OwedFacts
  <2> QED BY <2>1
<1>5. base \in Nat
  BY <1>3
<1> QED BY <1>1, <1>2, <1>3, <1>4, <1>5 DEF price, refunded

-----------------------------------------------------------------------------
(* The transactions of a job. *)

LEMMA Joined ==
    ASSUME NEW x, NEW y, NEW z
    PROVE  /\ <<x>> \o <<>> = <<x>> /\ <<x>> \o <<y>> = <<x, y>>
           /\ <<x, y>> \o <<>> = <<x, y>> /\ <<x, y>> \o <<z>> = <<x, y, z>>
<1>1. <<x>> \o <<>> = <<x>>
  OBVIOUS
<1>2. <<x>> \o <<y>> = <<x, y>>
  <2> DEFINE s == <<x>> \o <<y>>
             t == <<x, y>>
  <2>1. s \in Seq({x, y}) /\ Len(s) = 2 /\ s[1] = x /\ s[2] = y
    OBVIOUS
  <2>2. t \in Seq({x, y}) /\ Len(t) = 2 /\ t[1] = x /\ t[2] = y
    OBVIOUS
  <2> HIDE DEF s, t
  <2>3. \A i \in 1..2 : i = 1 \/ i = 2
    OBVIOUS
  <2>4. s = t
    BY <2>1, <2>2, <2>3
  <2> QED BY <2>4 DEF s, t
<1>3. <<x, y>> \o <<>> = <<x, y>>
  OBVIOUS
<1>4. <<x, y>> \o <<z>> = <<x, y, z>>
  <2> DEFINE s == <<x, y>> \o <<z>>
             t == <<x, y, z>>
  <2>1. s \in Seq({x, y, z}) /\ Len(s) = 3 /\ s[1] = x /\ s[2] = y /\ s[3] = z
    OBVIOUS
  <2>2. t \in Seq({x, y, z}) /\ Len(t) = 3 /\ t[1] = x /\ t[2] = y /\ t[3] = z
    OBVIOUS
  <2> HIDE DEF s, t
  <2>3. \A i \in 1..3 : i = 1 \/ i = 2 \/ i = 3
    OBVIOUS
  <2>4. s = t
    BY <2>1, <2>2, <2>3
  <2> QED BY <2>4 DEF s, t
<1> QED BY <1>1, <1>2, <1>3, <1>4

LEMMA CapturesAre ==
    ASSUME NEW j \in Jobs, Op(j) = "capture"
    PROVE  LET p == Payment(j)
               account == pending[j]
               c == CurrencyOf(j)
               debit == Debit(account, Fee(p).base + Fee(p).tax)
               credit == Credit(Platform("platform_revenue", c), Fee(p).base)
               tax == Credit(Platform("tax_payable", c), Fee(p).tax)
           IN  /\ DOMAIN Txns(j) = 1..2
               /\ Txns(j)[1].sides = <<Debit(Platform("gateway_clearing", c), Price[p].minor),
                                       Credit(account, Price[p].minor)>>
               /\ Txns(j)[2].sides = IF Fee(p).tax > 0 THEN <<debit, credit, tax>>
                                                       ELSE <<debit, credit>>
<1> DEFINE p == Payment(j)
           fee == Fee(p)
           c == CurrencyOf(j)
           debit == Debit(pending[j], fee.base + fee.tax)
           credit == Credit(Platform("platform_revenue", c), fee.base)
           tax == Credit(Platform("tax_payable", c), fee.tax)
           first == [kind |-> "payment_captured",
                     sides |-> <<Debit(Platform("gateway_clearing", c), Price[p].minor),
                                 Credit(pending[j], Price[p].minor)>>]
           sides == <<debit, credit>> \o If(fee.tax > 0, <<tax>>)
           second == [kind |-> "fee_charged", sides |-> sides]
<1>1. Txns(j) = <<first>> \o If(fee.base + fee.tax > 0, <<second>>)
  BY DEF Txns, CaptureTxns, CurrencyOf
<1>2. fee.base + fee.tax > 0
  <2>1. p \in Payments
    BY DEF Jobs, Payment
  <2> QED BY <2>1, FeesAre
<1> HIDE DEF debit, credit, tax, fee
<1>3. sides = IF fee.tax > 0 THEN <<debit, credit, tax>> ELSE <<debit, credit>>
  BY Joined DEF If
<1>4. second.sides = sides /\ first.sides = <<Debit(Platform("gateway_clearing", c), Price[p].minor),
                                 Credit(pending[j], Price[p].minor)>>
  OBVIOUS
<1> HIDE DEF first, second, sides
<1>5. Txns(j) = <<first, second>>
  BY <1>1, <1>2, Joined DEF If
<1>6. DOMAIN Txns(j) = 1..2 /\ Txns(j)[1] = first /\ Txns(j)[2] = second
  <2>1. DOMAIN <<first, second>> = 1..2
    OBVIOUS
  <2> QED BY <1>5, <2>1
<1> QED BY <1>3, <1>4, <1>6 DEF fee, debit, credit, tax

LEMMA RefundsAre ==
    ASSUME NEW j \in Jobs, Op(j) # "capture"
    PROVE  LET p == Payment(j)
               account == pending[j]
               c == CurrencyOf(j)
               credit == Credit(account, FeeBack(p).base + FeeBack(p).tax)
               base == Debit(Platform("platform_revenue", c), FeeBack(p).base)
               tax == Debit(Platform("tax_payable", c), FeeBack(p).tax)
           IN  /\ Txns(j)[1].sides = <<Debit(account, RefundOf[p]),
                                       Credit(Platform("gateway_clearing", c), RefundOf[p])>>
               /\ FeeBack(p).base = 0 /\ FeeBack(p).tax = 0 => DOMAIN Txns(j) = 1..1
               /\ ~(FeeBack(p).base = 0 /\ FeeBack(p).tax = 0) =>
                    /\ DOMAIN Txns(j) = 1..2
                    /\ FeeBack(p).base > 0 /\ FeeBack(p).tax > 0
                         => Txns(j)[2].sides = <<credit, base, tax>>
                    /\ FeeBack(p).base > 0 /\ ~(FeeBack(p).tax > 0)
                         => Txns(j)[2].sides = <<credit, base>>
                    /\ ~(FeeBack(p).base > 0) /\ FeeBack(p).tax > 0
                         => Txns(j)[2].sides = <<credit, tax>>
<1> DEFINE p == Payment(j)
           fee == FeeBack(p)
           c == CurrencyOf(j)
           credit == Credit(pending[j], fee.base + fee.tax)
           base == Debit(Platform("platform_revenue", c), fee.base)
           tax == Debit(Platform("tax_payable", c), fee.tax)
           first == [kind |-> "refund_issued",
                     sides |-> <<Debit(pending[j], RefundOf[p]),
                                 Credit(Platform("gateway_clearing", c), RefundOf[p])>>]
           sides == <<credit>> \o If(fee.base > 0, <<base>>) \o If(fee.tax > 0, <<tax>>)
           second == [kind |-> "fee_refunded", sides |-> sides]
<1>1. Txns(j) = <<first>> \o If(~(fee.base = 0 /\ fee.tax = 0), <<second>>)
  BY DEF Txns, RefundTxns, CurrencyOf
<1> HIDE DEF credit, base, tax, fee
<1>2. /\ fee.base > 0 /\ fee.tax > 0 => sides = <<credit, base, tax>>
      /\ fee.base > 0 /\ ~(fee.tax > 0) => sides = <<credit, base>>
      /\ ~(fee.base > 0) /\ fee.tax > 0 => sides = <<credit, tax>>
  BY Joined DEF If
<1>3. second.sides = sides /\ first.sides = <<Debit(pending[j], RefundOf[p]),
                                 Credit(Platform("gateway_clearing", c), RefundOf[p])>>
  OBVIOUS
<1> HIDE DEF first, second, sides
<1>4. /\ fee.base = 0 /\ fee.tax = 0 => Txns(j) = <<first>>
      /\ ~(fee.base = 0 /\ fee.tax = 0) => Txns(j) = <<first, second>>
  BY <1>1, Joined DEF If
<1>5. ASSUME NEW x, NEW y
      PROVE  /\ DOMAIN <<x>> = 1..1 /\ <<x>>[1] = x
             /\ DOMAIN <<x, y>> = 1..2 /\ <<x, y>>[1] = x /\ <<x, y>>[2] = y
  OBVIOUS
<1>6. /\ Txns(j)[1] = first
      /\ fee.base = 0 /\ fee.tax = 0 => DOMAIN Txns(j) = 1..1
      /\ ~(fee.base = 0 /\ fee.tax = 0) => DOMAIN Txns(j) = 1..2 /\ Txns(j)[2] = second
  BY <1>4, <1>5
<1> QED BY <1>2, <1>3, <1>6 DEF fee, credit, base, tax

LEMMA FairPair ==
    ASSUME NEW sides, NEW x, NEW y, sides = <<x, y>>, Sound(x), Sound(y),
           Signed(x) + Signed(y) = 0, Fits(Signed(x))
    PROVE  Fair(sides)
<1>1. DOMAIN sides = 1..2 /\ sides[1] = x /\ sides[2] = y /\ \A i \in 1..2 : i = 1 \/ i = 2
  OBVIOUS
<1>2. Fits(0)
  BY MoneyAssumption DEF Fits
<1> QED BY <1>1, <1>2 DEF Fair

LEMMA FairTriple ==
    ASSUME NEW sides, NEW x, NEW y, NEW z, sides = <<x, y, z>>, Sound(x), Sound(y), Sound(z),
           Signed(x) + Signed(y) + Signed(z) = 0, Fits(Signed(x)), Fits(Signed(x) + Signed(y))
    PROVE  Fair(sides)
<1>1. /\ DOMAIN sides = 1..3 /\ sides[1] = x /\ sides[2] = y /\ sides[3] = z
      /\ \A i \in 1..3 : i = 1 \/ i = 2 \/ i = 3
  OBVIOUS
<1> QED BY <1>1 DEF Fair

\* No layer refuses what the engine posts.
LEMMA TxnsAreFair ==
    ASSUME NEW j \in Jobs
    PROVE  /\ DOMAIN Txns(j) \in {1..1, 1..2}
           /\ \A n \in DOMAIN Txns(j) : Fair(Txns(j)[n].sides)
<1> DEFINE p == Payment(j)
           price == Price[p].minor
           fee == Fee(p)
           back == FeeBack(p)
<1>1. p \in Payments /\ (Op(j) # "capture" => RefundOf[p] > 0)
  BY DEF Jobs, Payment, Op
<1>2. /\ price \in Nat \ {0} /\ RefundOf[p] \in Nat /\ RefundOf[p] <= price
      /\ fee.base \in Nat \ {0} /\ fee.tax \in Nat
      /\ back.base \in Nat /\ back.base <= fee.base
      /\ back.tax \in Nat /\ back.tax <= fee.tax
  BY <1>1, FeesAre
<1>3. price <= MaxMinor /\ fee.base + fee.tax <= MaxMinor /\ MaxMinor \in Nat
  BY <1>1, BooksAssumption, MoneyAssumption DEF Fits, Fee
<1> HIDE DEF price, fee, back
<1>4. ASSUME NEW account, NEW n \in Nat \ {0}, n <= MaxMinor
      PROVE  /\ Sound(Debit(account, n)) /\ Signed(Debit(account, n)) = -n
             /\ Sound(Credit(account, n)) /\ Signed(Credit(account, n)) = n
             /\ Fits(n) /\ Fits(-n)
  BY <1>3, <1>4 DEF Sound, Signed, Debit, Credit, Fits
<1>5. ASSUME NEW x, NEW y, NEW n \in Nat \ {0}, n <= MaxMinor, NEW sides,
             sides = <<Debit(x, n), Credit(y, n)>> \/ sides = <<Credit(y, n), Debit(x, n)>>
      PROVE  Fair(sides)
  <2>1. Signed(Debit(x, n)) + Signed(Credit(y, n)) = 0 /\ Signed(Credit(y, n)) + Signed(Debit(x, n)) = 0
    BY <1>4, <1>5
  <2> QED BY <1>4, <1>5, <2>1, FairPair
<1>6. ASSUME NEW x, NEW y, NEW z, NEW m \in Nat \ {0}, NEW n \in Nat \ {0}, m + n <= MaxMinor,
             NEW sides,
             \/ sides = <<Debit(x, m + n), Credit(y, m), Credit(z, n)>>
             \/ sides = <<Credit(x, m + n), Debit(y, m), Debit(z, n)>>
      PROVE  Fair(sides)
  <2>1. m + n \in Nat \ {0} /\ m <= MaxMinor /\ n <= MaxMinor
    BY <1>3, <1>6
  <2>2. /\ Sound(Debit(x, m + n)) /\ Sound(Credit(y, m)) /\ Sound(Credit(z, n))
        /\ Sound(Credit(x, m + n)) /\ Sound(Debit(y, m)) /\ Sound(Debit(z, n))
        /\ Signed(Debit(x, m + n)) = -(m + n) /\ Signed(Credit(y, m)) = m /\ Signed(Credit(z, n)) = n
        /\ Signed(Credit(x, m + n)) = m + n /\ Signed(Debit(y, m)) = -m /\ Signed(Debit(z, n)) = -n
        /\ Fits(n) /\ Fits(-n) /\ Fits(m + n) /\ Fits(-(m + n))
    BY <1>4, <1>6, <2>1
  <2>3. /\ -(m + n) + m = -n /\ m + n + (-m) = n /\ -n + n = 0 /\ n + (-n) = 0
    OBVIOUS
  <2> QED BY <1>6, <2>2, <2>3, FairTriple
<1>7. CASE Op(j) = "capture"
  <2>1. DOMAIN Txns(j) = 1..2 /\ \A n \in 1..2 : n = 1 \/ n = 2
    <3>1. \A n \in 1..2 : n = 1 \/ n = 2
      OBVIOUS
    <3> QED BY <1>7, <3>1, CapturesAre
  <2>2. Fair(Txns(j)[1].sides)
    BY <1>2, <1>3, <1>5, <1>7, CapturesAre DEF price
  <2>3. Fair(Txns(j)[2].sides)
    <3>1. CASE fee.tax > 0
      <4>1. Txns(j)[2].sides = <<Debit(pending[j], fee.base + fee.tax),
                                 Credit(Platform("platform_revenue", CurrencyOf(j)), fee.base),
                                 Credit(Platform("tax_payable", CurrencyOf(j)), fee.tax)>>
        BY <1>7, <3>1, CapturesAre DEF fee
      <4>2. fee.base \in Nat \ {0} /\ fee.tax \in Nat \ {0}
        BY <1>2, <3>1
      <4> QED BY <1>3, <1>6, <4>1, <4>2
    <3>2. CASE ~(fee.tax > 0)
      <4>1. fee.tax = 0 /\ fee.base + fee.tax = fee.base /\ fee.base <= MaxMinor
        BY <1>2, <1>3, <3>2
      <4> QED BY <1>2, <1>5, <1>7, <3>2, <4>1, CapturesAre DEF fee
    <3> QED BY <3>1, <3>2
  <2> QED BY <2>1, <2>2, <2>3
<1>8. CASE Op(j) # "capture"
  <2>1. Fair(Txns(j)[1].sides)
    <3>1. RefundOf[p] \in Nat \ {0} /\ RefundOf[p] <= MaxMinor
      BY <1>1, <1>2, <1>3, <1>8
    <3> QED BY <1>5, <1>8, <3>1, RefundsAre
  <2>2. back.base + back.tax <= MaxMinor /\ back.base <= MaxMinor /\ back.tax <= MaxMinor
    BY <1>2, <1>3
  <2>3. CASE back.base = 0 /\ back.tax = 0
    <3>1. DOMAIN Txns(j) = 1..1
      BY <1>8, <2>3, RefundsAre DEF back
    <3> QED BY <2>1, <3>1
  <2>4. CASE ~(back.base = 0 /\ back.tax = 0)
    <3>1. DOMAIN Txns(j) = 1..2 /\ \A n \in 1..2 : n = 1 \/ n = 2
      BY <1>8, <2>4, RefundsAre DEF back
    <3>2. Fair(Txns(j)[2].sides)
      <4>1. CASE back.base > 0 /\ back.tax > 0
        <5>1. Txns(j)[2].sides = <<Credit(pending[j], back.base + back.tax),
                                   Debit(Platform("platform_revenue", CurrencyOf(j)), back.base),
                                   Debit(Platform("tax_payable", CurrencyOf(j)), back.tax)>>
          BY <1>8, <2>4, <4>1, RefundsAre DEF back
        <5>2. back.base \in Nat \ {0} /\ back.tax \in Nat \ {0}
          BY <1>2, <4>1
        <5> QED BY <1>6, <2>2, <5>1, <5>2
      <4>2. CASE back.base > 0 /\ ~(back.tax > 0)
        <5>1. back.base + back.tax = back.base /\ back.base \in Nat \ {0}
          BY <1>2, <4>2
        <5> QED BY <1>5, <1>8, <2>2, <2>4, <4>2, <5>1, RefundsAre DEF back
      <4>3. CASE ~(back.base > 0) /\ back.tax > 0
        <5>1. back.base + back.tax = back.tax /\ back.tax \in Nat \ {0}
          BY <1>2, <4>3
        <5> QED BY <1>5, <1>8, <2>2, <2>4, <4>3, <5>1, RefundsAre DEF back
      <4> QED BY <1>2, <2>4, <4>1, <4>2, <4>3
    <3> QED BY <2>1, <3>1, <3>2
  <2> QED BY <2>3, <2>4
<1> QED BY <1>7, <1>8

-----------------------------------------------------------------------------
(* What a job contributes. *)

LEMMA JobsAre ==
    ASSUME NEW j \in Jobs
    PROVE  /\ j = <<Op(j), Payment(j)>> /\ Op(j) \in {"capture", "refund"}
           /\ Payment(j) \in Payments /\ CurrencyOf(j) \in Currencies
           /\ Owner[Payment(j)] \in Merchants /\ Owner[Payment(j)] # Nil
<1>1. /\ j = <<Op(j), Payment(j)>> /\ Op(j) \in {"capture", "refund"} /\ Payment(j) \in Payments
  BY DEF Jobs, Op, Payment
<1> QED BY <1>1, BooksAssumption DEF CurrencyOf, Merchants

LEMMA CaptureContributes ==
    ASSUME NEW j \in Jobs, Op(j) = "capture"
    PROVE  LET p == Payment(j)
           IN  /\ Contribution(j).clearing = -Price[p].minor
               /\ Contribution(j).revenue = Fee(p).base /\ Contribution(j).tax = Fee(p).tax
               /\ \A m \in Merchants : Contribution(j).pending[m] =
                    IF m = Owner[p] THEN Price[p].minor - (Fee(p).base + Fee(p).tax) ELSE 0
<1> DEFINE p == Payment(j)
           n == Price[p].minor
           base == Fee(p).base
           tax == Fee(p).tax
           o == Owner[p]
<1>1. p \in Payments /\ o \in Merchants
  BY JobsAre
<1>2. n \in Nat \ {0} /\ base \in Nat \ {0} /\ tax \in Nat
  BY <1>1, FeesAre
<1>3. Contribution(j) = Sums!PostCapture(NoPosition, o, n, base, tax)
  BY DEF Contribution
<1> HIDE DEF n, base, tax, o
<1>4. Contribution(j) = Sums!Post(Sums!Post(NoPosition, o, Sums!CaptureEntries(n)), o,
                                  Sums!FeeChargedEntries(base, tax))
  BY <1>2, <1>3 DEF Sums!PostCapture
<1>5. Sums!Posted(tax) = tax
  BY <1>2 DEF Sums!Posted
<1> DEFINE captured == Sums!Post(NoPosition, o, Sums!CaptureEntries(n))
<1>6. /\ captured.clearing = -n /\ captured.revenue = 0 /\ captured.tax = 0
      /\ captured.pending = [m \in Merchants |-> IF m = o THEN n ELSE 0]
  BY <1>1, <1>2 DEF Sums!Post, Sums!CaptureEntries, NoPosition
<1> HIDE DEF captured
<1>7. Contribution(j) = Sums!Post(captured, o, Sums!FeeChargedEntries(base, tax))
  BY <1>4 DEF captured
<1>8. /\ Contribution(j).clearing = -n /\ Contribution(j).revenue = base
      /\ Contribution(j).tax = tax
      /\ \A m \in Merchants :
            Contribution(j).pending[m] = IF m = o THEN n - (base + tax) ELSE 0
  BY <1>1, <1>2, <1>5, <1>6, <1>7 DEF Sums!Post, Sums!FeeChargedEntries
<1> QED BY <1>8 DEF n, base, tax, o

LEMMA RefundContributes ==
    ASSUME NEW j \in Jobs, Op(j) # "capture"
    PROVE  LET p == Payment(j)
           IN  /\ Contribution(j).clearing = RefundOf[p]
               /\ Contribution(j).revenue = -FeeBack(p).base
               /\ Contribution(j).tax = -FeeBack(p).tax
               /\ \A m \in Merchants : Contribution(j).pending[m] =
                    IF m = Owner[p] THEN FeeBack(p).base + FeeBack(p).tax - RefundOf[p] ELSE 0
<1> DEFINE p == Payment(j)
           n == RefundOf[p]
           fee == FeeBack(p)
           o == Owner[p]
<1>1. p \in Payments /\ o \in Merchants
  BY JobsAre
<1>2. n \in Nat /\ fee.base \in Nat /\ fee.tax \in Nat
  BY <1>1, FeesAre
<1>3. Contribution(j) = Sums!PostRefund(NoPosition, o, n, fee)
  BY DEF Contribution
<1> HIDE DEF n, fee, o
<1> DEFINE refunded == Sums!Post(NoPosition, o, Sums!RefundEntries(n))
<1>4. /\ fee.base = 0 /\ fee.tax = 0 => Contribution(j) = refunded
      /\ ~(fee.base = 0 /\ fee.tax = 0) =>
            Contribution(j) = Sums!Post(refunded, o, Sums!FeeRefundedEntries(fee))
  BY <1>3 DEF Sums!PostRefund
<1>5. Sums!Posted(fee.base) = fee.base /\ Sums!Posted(fee.tax) = fee.tax
  BY <1>2 DEF Sums!Posted
<1>6. /\ refunded.clearing = n /\ refunded.revenue = 0 /\ refunded.tax = 0
      /\ refunded.pending = [m \in Merchants |-> IF m = o THEN -n ELSE 0]
  BY <1>1, <1>2 DEF Sums!Post, Sums!RefundEntries, NoPosition
<1> HIDE DEF refunded
<1>7. CASE fee.base = 0 /\ fee.tax = 0
  BY <1>1, <1>2, <1>4, <1>6, <1>7 DEF n, fee, o
<1>8. CASE ~(fee.base = 0 /\ fee.tax = 0)
  <2>1. /\ Contribution(j).clearing = n /\ Contribution(j).revenue = -fee.base
        /\ Contribution(j).tax = -fee.tax
        /\ \A m \in Merchants : Contribution(j).pending[m] =
              IF m = o THEN fee.base + fee.tax - n ELSE 0
    BY <1>1, <1>2, <1>4, <1>5, <1>6, <1>8 DEF Sums!Post, Sums!FeeRefundedEntries
  <2> QED BY <2>1 DEF n, fee, o
<1> QED BY <1>7, <1>8

-----------------------------------------------------------------------------
(* The accounts. *)

\* Every account there can be.
Chart == Seeded \cup {NewAccount(j) : j \in Jobs}
SeededStay == Seeded \subseteq accounts /\ accounts \subseteq Chart

LEMMA AccountsAre ==
    /\ \A a \in Seeded : /\ a.type \in PlatformTypes /\ a.currency \in Currencies
                         /\ a.merchant = Nil /\ a.id = <<a.type, a.currency>>
                         /\ a = Account(a.id, Nil, a.type, a.currency)
    /\ \A j \in Jobs : /\ NewAccount(j).id = j /\ NewAccount(j).merchant = Owner[Payment(j)]
                       /\ NewAccount(j).type = "merchant_pending"
                       /\ NewAccount(j).currency = CurrencyOf(j)
                       /\ NewAccount(j).merchant # Nil
<1>1. \A j \in Jobs : NewAccount(j).merchant # Nil
  BY JobsAre DEF NewAccount, Account
<1> QED BY <1>1 DEF Seeded, NewAccount, Account

\* The id of an account tells it apart.
LEMMA IdsDiffer == \A a, b \in Chart : a.id = b.id => a = b
<1> SUFFICES ASSUME NEW a \in Chart, NEW b \in Chart, a.id = b.id PROVE a = b
  OBVIOUS
<1>1. ASSUME NEW s \in Seeded, NEW j \in Jobs PROVE s.id # NewAccount(j).id
  <2>1. s.id[1] \in PlatformTypes
    BY AccountsAre
  <2>2. NewAccount(j).id[1] \in {"capture", "refund"}
    BY AccountsAre, JobsAre DEF Op
  <2> QED BY <2>1, <2>2 DEF PlatformTypes
<1>2. CASE a \in Seeded /\ b \in Seeded
  <2>1. a.type = b.type /\ a.currency = b.currency
    BY <1>2, AccountsAre
  <2> QED BY <1>2, <2>1, AccountsAre
<1>3. CASE a \notin Seeded /\ b \notin Seeded
  BY <1>3, AccountsAre DEF Chart
<1> QED BY <1>1, <1>2, <1>3 DEF Chart

LEMMA PlatformIs ==
    ASSUME SeededStay, NEW type \in PlatformTypes, NEW c \in Currencies
    PROVE  /\ Platform(type, c) = Account(<<type, c>>, Nil, type, c)
           /\ Platform(type, c) \in Seeded /\ Platform(type, c).id = <<type, c>>
<1> DEFINE it == Account(<<type, c>>, Nil, type, c)
<1>1. it \in Seeded /\ it.merchant = Nil /\ it.type = type /\ it.currency = c /\ it.id = <<type, c>>
  BY DEF Seeded, Account
<1>2. ASSUME NEW a \in accounts, a.merchant = Nil, a.type = type, a.currency = c
      PROVE  a = it
  <2>1. a \in Seeded
    BY <1>2, AccountsAre DEF SeededStay, Chart
  <2> QED BY <1>2, <2>1, AccountsAre
<1>3. it \in accounts
  BY <1>1 DEF SeededStay
<1> HIDE DEF it
<1>4. Platform(type, c) = it
  BY <1>1, <1>2, <1>3 DEF Platform
<1> QED BY <1>1, <1>4 DEF it

\* What the sides give, for lines of the four accounts that a job posts to.
LEMMA LinesGive ==
    ASSUME NEW id, NEW account, NEW n, NEW a, account.id = id
    PROVE  /\ GivesSide(Debit(account, n), a) = IF a.id = id THEN -n ELSE 0
           /\ GivesSide(Credit(account, n), a) = IF a.id = id THEN n ELSE 0
BY DEF GivesSide, Debit, Credit, Signed

\* The transactions of a job give every account its share of what Postings says.
Given(txn, a) == GivesSide(txn.sides[1], a) + GivesSide(txn.sides[2], a) + GivesThird(txn.sides, a)
GivenBy(j, a) == Given(Txns(j)[1], a) + (IF 2 \in DOMAIN Txns(j) THEN Given(Txns(j)[2], a) ELSE 0)
WorksWith(j, account) == account \in Chart /\ SameKey(account, NewAccount(j))

LEMMA TwoGive ==
    ASSUME NEW txn, NEW x, NEW y, txn.sides = <<x, y>>, NEW a,
           GivesSide(x, a) \in Int, GivesSide(y, a) \in Int
    PROVE  Given(txn, a) = GivesSide(x, a) + GivesSide(y, a)
<1>1. /\ txn.sides[1] = x /\ txn.sides[2] = y /\ ~(3 \in DOMAIN txn.sides)
  OBVIOUS
<1>2. Given(txn, a) = GivesSide(x, a) + GivesSide(y, a) + 0
  BY <1>1 DEF Given, GivesThird
<1> QED BY <1>2

LEMMA ThreeGive ==
    ASSUME NEW txn, NEW x, NEW y, NEW z, txn.sides = <<x, y, z>>, NEW a
    PROVE  Given(txn, a) = GivesSide(x, a) + GivesSide(y, a) + GivesSide(z, a)
<1>1. txn.sides[1] = x /\ txn.sides[2] = y /\ txn.sides[3] = z /\ 3 \in DOMAIN txn.sides
  OBVIOUS
<1> QED BY <1>1 DEF Given, GivesThird

LEMMA TxnsGive ==
    ASSUME SeededStay, NEW j \in Jobs, WorksWith(j, pending[j]),
           NEW a \in Chart, SameKey(a, pending[j]) => a = pending[j]
    PROVE  GivenBy(j, a) = IF a.currency = CurrencyOf(j) THEN Share(j, a) ELSE 0
<1> DEFINE p == Payment(j)
           c == CurrencyOf(j)
           mine == pending[j]
           clearing == Platform("gateway_clearing", c)
           revenue == Platform("platform_revenue", c)
           taxes == Platform("tax_payable", c)
           At(id, n) == IF a.id = id THEN n ELSE 0
<1>1. p \in Payments /\ c \in Currencies /\ Owner[p] \in Merchants /\ Owner[p] # Nil
  BY JobsAre
<1>2. /\ clearing.id = <<"gateway_clearing", c>> /\ revenue.id = <<"platform_revenue", c>>
      /\ taxes.id = <<"tax_payable", c>>
      /\ clearing \in Seeded /\ revenue \in Seeded /\ taxes \in Seeded
  BY <1>1, PlatformIs DEF PlatformTypes
<1>3. /\ mine \in Chart /\ mine.merchant = Owner[p] /\ mine.type = "merchant_pending"
      /\ mine.currency = c
  BY AccountsAre DEF WorksWith, SameKey
\* which of the four it is, if any
<1>4. /\ a.id = clearing.id <=> a.type = "gateway_clearing" /\ a.currency = c
      /\ a.id = revenue.id <=> a.type = "platform_revenue" /\ a.currency = c
      /\ a.id = taxes.id <=> a.type = "tax_payable" /\ a.currency = c
      /\ a.id = mine.id <=> a.type = "merchant_pending" /\ a.currency = c /\ a.merchant = Owner[p]
  <2>1. a.id = mine.id => a = mine
    BY <1>3, IdsDiffer
  <2>2. a.id = mine.id <=> a.type = "merchant_pending" /\ a.currency = c /\ a.merchant = Owner[p]
    BY <1>3, <2>1 DEF SameKey
  <2>3. ASSUME NEW t \in PlatformTypes
        PROVE  a.id = <<t, c>> <=> a.type = t /\ a.currency = c
    <3>1. CASE a \in Seeded
      BY <3>1, AccountsAre
    <3>2. CASE a \notin Seeded
      <4>1. PICK i \in Jobs : a = NewAccount(i)
        BY <3>2 DEF Chart
      <4>2. a.id[1] \in {"capture", "refund"} /\ a.type = "merchant_pending"
        BY <4>1, AccountsAre, JobsAre DEF Op
      <4>3. <<t, c>>[1] = t
        OBVIOUS
      <4> QED BY <4>2, <4>3 DEF PlatformTypes
    <3> QED BY <3>1, <3>2
  <2> QED BY <1>2, <2>2, <2>3 DEF PlatformTypes
<1>5. /\ a.type \in {"gateway_clearing", "platform_revenue", "tax_payable", "merchant_pending"}
      /\ a.type = "merchant_pending" => a.merchant \in Merchants
  BY AccountsAre, JobsAre DEF Chart, PlatformTypes
<1>6. ASSUME NEW account, NEW n \in Int
      PROVE  /\ GivesSide(Debit(account, n), a) = At(account.id, -n)
             /\ GivesSide(Credit(account, n), a) = At(account.id, n)
             /\ At(account.id, -n) \in Int /\ At(account.id, n) \in Int
  BY LinesGive
<1>7. CASE Op(j) = "capture"
  <2> DEFINE n == Price[p].minor
             base == Fee(p).base
             tax == Fee(p).tax
  <2>1. n \in Nat \ {0} /\ base \in Nat \ {0} /\ tax \in Nat /\ base + tax \in Nat
    BY <1>1, FeesAre
  <2>2. /\ DOMAIN Txns(j) = 1..2 /\ 2 \in DOMAIN Txns(j)
        /\ Txns(j)[1].sides = <<Debit(clearing, n), Credit(mine, n)>>
        /\ Txns(j)[2].sides = IF tax > 0
             THEN <<Debit(mine, base + tax), Credit(revenue, base), Credit(taxes, tax)>>
             ELSE <<Debit(mine, base + tax), Credit(revenue, base)>>
    BY <1>7, CapturesAre
  <2>3. /\ Share(j, a) = CASE a.type = "gateway_clearing" -> -n
                           [] a.type = "merchant_pending" ->
                                IF a.merchant = Owner[p] THEN n - (base + tax) ELSE 0
                           [] a.type = "platform_revenue" -> base
                           [] a.type = "tax_payable" -> tax
    BY <1>5, <1>7, CaptureContributes DEF Share
  <2> HIDE DEF n, base, tax, clearing, revenue, taxes, mine, c
  <2>4. Given(Txns(j)[1], a) = At(clearing.id, -n) + At(mine.id, n)
    BY <1>6, <2>1, <2>2, TwoGive
  <2>5. Given(Txns(j)[2], a) = At(mine.id, -(base + tax)) + At(revenue.id, base) + At(taxes.id, tax)
    <3>1. CASE tax > 0
      BY <1>6, <2>1, <2>2, <3>1, ThreeGive
    <3>2. CASE ~(tax > 0)
      <4>1. tax = 0 /\ At(taxes.id, tax) = 0
        BY <2>1, <3>2
      <4>2. Given(Txns(j)[2], a) = At(mine.id, -(base + tax)) + At(revenue.id, base)
        BY <1>6, <2>1, <2>2, <3>2, TwoGive
      <4> QED BY <1>6, <2>1, <4>1, <4>2
    <3> QED BY <3>1, <3>2
  <2>6. GivenBy(j, a) = (At(clearing.id, -n) + At(mine.id, n))
            + (At(mine.id, -(base + tax)) + At(revenue.id, base) + At(taxes.id, tax))
    BY <2>2, <2>4, <2>5 DEF GivenBy
  <2> QED BY <1>4, <1>5, <2>1, <2>3, <2>6 DEF c
<1>8. CASE Op(j) # "capture"
  <2> DEFINE n == RefundOf[p]
             base == FeeBack(p).base
             tax == FeeBack(p).tax
  <2>1. n \in Nat /\ base \in Nat /\ tax \in Nat /\ base + tax \in Nat
    BY <1>1, FeesAre
  <2>2. /\ Txns(j)[1].sides = <<Debit(mine, n), Credit(clearing, n)>>
        /\ base = 0 /\ tax = 0 => DOMAIN Txns(j) = 1..1
        /\ ~(base = 0 /\ tax = 0) =>
             /\ DOMAIN Txns(j) = 1..2
             /\ base > 0 /\ tax > 0 => Txns(j)[2].sides =
                  <<Credit(mine, base + tax), Debit(revenue, base), Debit(taxes, tax)>>
             /\ base > 0 /\ ~(tax > 0) => Txns(j)[2].sides =
                  <<Credit(mine, base + tax), Debit(revenue, base)>>
             /\ ~(base > 0) /\ tax > 0 => Txns(j)[2].sides =
                  <<Credit(mine, base + tax), Debit(taxes, tax)>>
    BY <1>8, RefundsAre
  <2>3. /\ Share(j, a) = CASE a.type = "gateway_clearing" -> n
                           [] a.type = "merchant_pending" ->
                                IF a.merchant = Owner[p] THEN base + tax - n ELSE 0
                           [] a.type = "platform_revenue" -> -base
                           [] a.type = "tax_payable" -> -tax
    BY <1>5, <1>8, RefundContributes DEF Share
  <2> HIDE DEF n, base, tax, clearing, revenue, taxes, mine, c
  <2>4. Given(Txns(j)[1], a) = At(mine.id, -n) + At(clearing.id, n)
    BY <1>6, <2>1, <2>2, TwoGive
  <2>5. /\ 2 \in DOMAIN Txns(j) <=> ~(base = 0 /\ tax = 0)
        /\ ~(base = 0 /\ tax = 0) => Given(Txns(j)[2], a) =
             At(mine.id, base + tax) + At(revenue.id, -base) + At(taxes.id, -tax)
    <3>1. CASE base > 0 /\ tax > 0
      BY <1>6, <2>1, <2>2, <3>1, ThreeGive
    <3>2. CASE base > 0 /\ ~(tax > 0)
      <4>1. tax = 0 /\ At(taxes.id, -tax) = 0
        BY <2>1, <3>2
      <4>2. Given(Txns(j)[2], a) = At(mine.id, base + tax) + At(revenue.id, -base)
        BY <1>6, <2>1, <2>2, <3>2, TwoGive
      <4> QED BY <1>6, <2>1, <2>2, <3>2, <4>1, <4>2
    <3>3. CASE ~(base > 0) /\ tax > 0
      <4>1. base = 0 /\ At(revenue.id, -base) = 0
        BY <2>1, <3>3
      <4>2. Given(Txns(j)[2], a) = At(mine.id, base + tax) + At(taxes.id, -tax)
        BY <1>6, <2>1, <2>2, <3>3, TwoGive
      <4> QED BY <1>6, <2>1, <2>2, <3>3, <4>1, <4>2
    <3>4. CASE base = 0 /\ tax = 0
      BY <2>2, <3>4
    <3> QED BY <2>1, <3>1, <3>2, <3>3, <3>4
  <2>6. GivenBy(j, a) = (At(mine.id, -n) + At(clearing.id, n))
            + (At(mine.id, base + tax) + At(revenue.id, -base) + At(taxes.id, -tax))
    BY <2>1, <2>4, <2>5 DEF GivenBy
  <2> QED BY <1>4, <1>5, <2>1, <2>3, <2>6 DEF c
<1> QED BY <1>7, <1>8

-----------------------------------------------------------------------------
(* The invariant of the sums. *)

\* What an open transaction of a job has written, given its account.
BalancedIn(rows, txn) ==
    LET its == {e \in rows : e.txn = txn}
    IN  Cardinality(its) >= 2 /\ \A c \in Currencies : TotalIn(its, c) = 0
RowsOfJob(j, account, mine) ==
    /\ IsFiniteSet(mine.entries)
    /\ \A e \in mine.entries : /\ e.amount \in Int /\ e.id[1] = j /\ e.txn \in {j} \X Nat
                               /\ BalancedIn(mine.entries, e.txn)
    /\ \A h \in mine.headers : h.id \in {j} \X Nat
    /\ \A a \in Chart : (SameKey(a, account) => a = account) =>
          Balance(mine.entries, a) = IF a.currency = CurrencyOf(j) THEN Share(j, a) ELSE 0
HasNoRows(mine) == mine.entries = {} /\ mine.headers = {}

JobFits(j) ==
    /\ step[j] \in {"post", "commit"} => WorksWith(j, pending[j])
                                         /\ pending[j] \in accounts \cup own[j].accounts
    /\ step[j] = "commit" => RowsOfJob(j, pending[j], own[j])
    /\ step[j] # "commit" => HasNoRows(own[j])

\* A hand adds to a transaction of its own or to a committed one.
IsDone(txn) == txn \in Jobs \X Nat => step[txn[1]] = "done"
HandFits(x) ==
    /\ IsFiniteSet(own[x].entries)
    /\ \A e \in own[x].entries : e.amount \in Int /\ e.id[1] = x /\ IsDone(e.txn)
    /\ \A h \in own[x].headers : IsDone(h.id)
    /\ step[x] # "commit" => HasNoRows(own[x])

RowsAreDone ==
    /\ IsFiniteSet(entries)
    /\ \A e \in entries : /\ e.amount \in Int /\ e.id[1] \in Sessions
                          /\ step[e.id[1]] = "done" /\ IsDone(e.txn)
    /\ \A h \in headers : IsDone(h.id)

\* The accounts that are there, and those that would not clash with one of them.
Free(a) == a \in Chart /\ \A b \in accounts : SameKey(a, b) => a = b
ExpectedAt(jobs, rows, a) ==
    MapThenSumSet(LAMBDA j : Share(j, a), jobs) + Balance({e \in rows : e.id[1] \in Hands}, a)
BalancesFit ==
    \A a \in Chart : Free(a) => Balance(entries, a) = ExpectedAt(Posted(a.currency), entries, a)

SumsInv ==
    /\ SeededStay /\ refused = {}
    /\ (\A j \in Jobs : JobFits(j)) /\ (\A x \in Hands : HandFits(x))
    /\ RowsAreDone /\ BalancesFit
BooksInv == AccountsInv /\ SumsInv

-----------------------------------------------------------------------------
(* Shares and what they add up to. *)

LEMMA JobsAreFinite == IsFiniteSet(Jobs)
<1> DEFINE some == {p \in Payments : RefundOf[p] > 0}
<1>1. IsFiniteSet(Payments) /\ some \subseteq Payments
  BY BooksAssumption
<1>2. IsFiniteSet(some)
  BY <1>1, FS_Subset
<1>3. IsFiniteSet({"capture"}) /\ IsFiniteSet({"refund"})
  BY FS_Singleton
<1>4. IsFiniteSet({"capture"} \X Payments) /\ IsFiniteSet({"refund"} \X some)
  BY <1>1, <1>2, <1>3, FS_Product
<1>5. IsFiniteSet(({"capture"} \X Payments) \cup ({"refund"} \X some))
  BY <1>4, FS_Union
<1> QED BY <1>5 DEF Jobs

LEMMA ShareIsInt ==
    ASSUME NEW j \in Jobs, NEW a \in Chart
    PROVE  Share(j, a) \in Int
<1> DEFINE p == Payment(j)
<1>1. /\ a.type \in {"gateway_clearing", "platform_revenue", "tax_payable", "merchant_pending"}
      /\ a.type = "merchant_pending" => a.merchant \in Merchants
  BY AccountsAre, JobsAre DEF Chart, PlatformTypes
<1>2. p \in Payments
  BY JobsAre
<1>3. /\ Price[p].minor \in Int /\ RefundOf[p] \in Int /\ Fee(p).base \in Int /\ Fee(p).tax \in Int
      /\ FeeBack(p).base \in Int /\ FeeBack(p).tax \in Int
  BY <1>2, FeesAre
<1>4. CASE Op(j) = "capture"
  BY <1>1, <1>3, <1>4, CaptureContributes DEF Share
<1>5. CASE Op(j) # "capture"
  BY <1>1, <1>3, <1>5, RefundContributes DEF Share
<1> QED BY <1>4, <1>5

LEMMA SharesAdd ==
    ASSUME NEW jobs, jobs \subseteq Jobs, NEW j \in Jobs, j \notin jobs, NEW a \in Chart
    PROVE  LET w(S) == [i \in S |-> Share(i, a)]
           IN  /\ Sum(w(jobs), jobs) \in Int
               /\ Sum(w(jobs \cup {j}), jobs \cup {j}) = Share(j, a) + Sum(w(jobs), jobs)
<1> DEFINE both == jobs \cup {j}
           w == [i \in both |-> Share(i, a)]
           v == [i \in jobs |-> Share(i, a)]
<1>1. IsFiniteSet(jobs)
  BY JobsAreFinite, FS_Subset
<1>2. /\ \A i \in both : w[i] \in Int
      /\ \A i \in jobs : v[i] \in Int /\ w[i] = v[i]
      /\ w[j] = Share(j, a)
  BY ShareIsInt
<1> HIDE DEF w, v
<1>3. Sum(w, both) = w[j] + Sum(w, jobs)
  BY <1>1, <1>2, SumAdds
<1>4. Sum(w, jobs) = Sum(v, jobs)
  BY <1>1, <1>2, SumsTheSame
<1>5. Sum(v, jobs) \in Int
  BY <1>1, <1>2, SumIsInt
<1> QED BY <1>2, <1>3, <1>4, <1>5 DEF w, v

LEMMA ExpectedIsSum ==
    ASSUME NEW jobs \in SUBSET Jobs, NEW rows, NEW a
    PROVE  ExpectedAt(jobs, rows, a) =
             Sum([j \in jobs |-> Share(j, a)], jobs) + Balance({e \in rows : e.id[1] \in Hands}, a)
<1>1. IsFiniteSet(jobs)
  BY JobsAreFinite, FS_Subset
<1> QED BY <1>1, SumOfShares DEF ExpectedAt

\* Rows that are added, and the three reasons why the balances still fit.
Adds(rows, mine) ==
    /\ IsFiniteSet(rows) /\ IsFiniteSet(mine) /\ rows \cap mine = {}
    /\ \A e \in rows \cup mine : e.amount \in Int

LEMMA RowsAdd ==
    ASSUME NEW rows, NEW mine, Adds(rows, mine), NEW jobs \in SUBSET Jobs, NEW a \in Chart,
           Balance(rows, a) = ExpectedAt(jobs, rows, a)
    PROVE  /\ (\A e \in mine : e.id[1] \in Hands) =>
                Balance(rows \cup mine, a) = ExpectedAt(jobs, rows \cup mine, a)
           /\ (\A e \in mine : e.id[1] \notin Hands) =>
                /\ Balance(mine, a) = 0 =>
                     Balance(rows \cup mine, a) = ExpectedAt(jobs, rows \cup mine, a)
                /\ \A j \in Jobs \ jobs : Balance(mine, a) = Share(j, a) =>
                     Balance(rows \cup mine, a) = ExpectedAt(jobs \cup {j}, rows \cup mine, a)
<1> DEFINE ByHands(R) == {e \in R : e.id[1] \in Hands}
           total(J) == Sum([j \in J |-> Share(j, a)], J)
<1>0. /\ IsFiniteSet(rows) /\ IsFiniteSet(mine) /\ rows \cap mine = {}
      /\ \A e \in rows \cup mine : e.amount \in Int
  BY DEF Adds
<1>1. Balance(rows \cup mine, a) = Balance(rows, a) + Balance(mine, a)
  BY <1>0, BalanceOfBoth
<1>2. Balance(rows, a) \in Int /\ Balance(mine, a) \in Int
  BY <1>0, BalanceIsInt
<1>3. IsFiniteSet(ByHands(rows)) /\ \A e \in ByHands(rows) : e.amount \in Int
  BY <1>0, FS_Subset
<1>4. Balance(ByHands(rows), a) \in Int
  BY <1>3, BalanceIsInt
<1>5. ASSUME NEW J \in SUBSET Jobs, NEW R
      PROVE  ExpectedAt(J, R, a) = total(J) + Balance(ByHands(R), a)
  BY ExpectedIsSum
<1>6. total(jobs) \in Int
  <2>1. IsFiniteSet(jobs)
    BY JobsAreFinite, FS_Subset
  <2> DEFINE w == [j \in jobs |-> Share(j, a)]
  <2>2. \A j \in jobs : w[j] \in Int
    BY ShareIsInt
  <2> HIDE DEF w
  <2>3. Sum(w, jobs) \in Int
    BY <2>1, <2>2, SumIsInt
  <2> QED BY <2>3 DEF w
<1>7. Balance(rows, a) = total(jobs) + Balance(ByHands(rows), a)
  BY <1>5
<1>8. \A j \in Jobs \ jobs : total(jobs \cup {j}) = Share(j, a) + total(jobs) /\ Share(j, a) \in Int
  BY SharesAdd, ShareIsInt
<1>9. ASSUME \A e \in mine : e.id[1] \in Hands
      PROVE  Balance(rows \cup mine, a) = ExpectedAt(jobs, rows \cup mine, a)
  <2>1. ByHands(rows \cup mine) = ByHands(rows) \cup mine /\ ByHands(rows) \cap mine = {}
    BY <1>0, <1>9
  <2>2. Balance(ByHands(rows) \cup mine, a) = Balance(ByHands(rows), a) + Balance(mine, a)
    BY <1>0, <1>3, <2>1, BalanceOfBoth
  <2> HIDE DEF ByHands, total
  <2>3. ExpectedAt(jobs, rows \cup mine, a) = total(jobs) + Balance(ByHands(rows) \cup mine, a)
    BY <1>5, <2>1
  <2>4. ExpectedAt(jobs, rows \cup mine, a)
            = total(jobs) + (Balance(ByHands(rows), a) + Balance(mine, a))
    BY <2>2, <2>3
  <2>5. Balance(rows \cup mine, a)
            = (total(jobs) + Balance(ByHands(rows), a)) + Balance(mine, a)
    BY <1>1, <1>7
  <2> QED BY <1>2, <1>4, <1>6, <2>4, <2>5
<1>10. ASSUME \A e \in mine : e.id[1] \notin Hands
       PROVE  /\ Balance(mine, a) = 0 =>
                   Balance(rows \cup mine, a) = ExpectedAt(jobs, rows \cup mine, a)
              /\ \A j \in Jobs \ jobs : Balance(mine, a) = Share(j, a) =>
                   Balance(rows \cup mine, a) = ExpectedAt(jobs \cup {j}, rows \cup mine, a)
  <2>1. ByHands(rows \cup mine) = ByHands(rows)
    BY <1>10
  <2> HIDE DEF ByHands, total
  <2>2. \A J \in SUBSET Jobs : ExpectedAt(J, rows \cup mine, a) = total(J) + Balance(ByHands(rows), a)
    BY <1>5, <2>1
  <2>3. Balance(rows \cup mine, a)
            = (total(jobs) + Balance(ByHands(rows), a)) + Balance(mine, a)
    BY <1>1, <1>7
  <2>4. Balance(mine, a) = 0 =>
            Balance(rows \cup mine, a) = ExpectedAt(jobs, rows \cup mine, a)
    <3>1. ExpectedAt(jobs, rows \cup mine, a) = total(jobs) + Balance(ByHands(rows), a)
      BY <2>2
    <3>2. Balance(mine, a) = 0 => Balance(rows \cup mine, a) = Balance(rows, a)
      BY <1>1, <1>2
    <3> QED BY <1>7, <3>1, <3>2
  <2>5. ASSUME NEW j \in Jobs \ jobs, Balance(mine, a) = Share(j, a)
        PROVE  Balance(rows \cup mine, a) = ExpectedAt(jobs \cup {j}, rows \cup mine, a)
    <3>1. total(jobs \cup {j}) = Share(j, a) + total(jobs) /\ Share(j, a) \in Int
      BY <1>8
    <3>2. ExpectedAt(jobs \cup {j}, rows \cup mine, a)
            = (Share(j, a) + total(jobs)) + Balance(ByHands(rows), a)
      BY <2>2, <3>1
    <3> QED BY <1>4, <1>6, <2>3, <2>5, <3>1, <3>2
  <2> QED BY <2>4, <2>5
<1> QED BY <1>9, <1>10

-----------------------------------------------------------------------------
(* What Post writes. *)

PostedRows(j) == UNION {EntriesOf(j, n) : n \in DOMAIN Txns(j)}

LEMMA PostWrites ==
    ASSUME SeededStay, NEW j \in Jobs, WorksWith(j, pending[j])
    PROVE  /\ AllBuild(j)
           /\ \A mine : mine.entries = PostedRows(j) /\ mine.headers = Headers(j)
                => RowsOfJob(j, pending[j], mine)
<1> DEFINE c == CurrencyOf(j)
           sides(n) == Txns(j)[n].sides
           rows(n) == Rows(<<j, n>>, sides(n), c)
           all == PostedRows(j)
<1>1. /\ DOMAIN Txns(j) \in {1..1, 1..2}
      /\ \A n \in DOMAIN Txns(j) : Fair(sides(n))
  BY TxnsAreFair
<1>2. c \in Currencies
  BY JobsAre
<1>3. AllBuild(j)
  BY <1>1, <1>2, FairBuilds DEF AllBuild
<1>4. ASSUME NEW n \in DOMAIN Txns(j) PROVE EntriesOf(j, n) = rows(n)
  BY DEF EntriesOf, Rows, Entry, Lines
<1>5. ASSUME NEW n \in DOMAIN Txns(j)
      PROVE  /\ IsFiniteSet(rows(n)) /\ Cardinality(rows(n)) >= 2
             /\ \A e \in rows(n) : e.amount \in Int /\ e.id[1] = j /\ e.txn = <<j, n>>
             /\ \A d : TotalIn(rows(n), d) = 0
             /\ \A a : Balance(rows(n), a) = Given(Txns(j)[n], a)
  <2>1. \A e \in rows(n) : e.id[1] = j /\ e.txn = <<j, n>>
    BY DEF Rows, Entry
  <2>2. Fair(sides(n))
    BY <1>1
  <2> QED BY <2>1, <2>2, FairRows DEF Given
<1>6. \A n \in DOMAIN Txns(j) : n \in {1, 2}
  BY <1>1
<1>7. /\ 1 \in DOMAIN Txns(j)
      /\ ~(2 \in DOMAIN Txns(j)) => all = rows(1)
      /\ 2 \in DOMAIN Txns(j) => all = rows(1) \cup rows(2)
  <2>1. 1 \in DOMAIN Txns(j)
    BY <1>1
  <2> HIDE DEF rows
  <2> QED BY <1>4, <1>6, <2>1 DEF PostedRows
<1> HIDE DEF rows, sides, all
<1>8. \A n \in DOMAIN Txns(j) : {e \in all : e.txn = <<j, n>>} = rows(n)
  <2>1. <<j, 1>> # <<j, 2>>
    OBVIOUS
  <2> QED BY <1>5, <1>6, <1>7, <2>1
<1>9. \A e \in all : \E n \in DOMAIN Txns(j) : e \in rows(n)
  BY <1>7
<1>10. /\ IsFiniteSet(all)
       /\ \A e \in all : e.amount \in Int /\ e.id[1] = j /\ e.txn \in {j} \X Nat
                         /\ BalancedIn(all, e.txn)
  <2>1. IsFiniteSet(all)
    <3>1. IsFiniteSet(rows(1)) /\ (2 \in DOMAIN Txns(j) => IsFiniteSet(rows(1) \cup rows(2)))
      <4>1. IsFiniteSet(rows(1)) /\ (2 \in DOMAIN Txns(j) => IsFiniteSet(rows(2)))
        BY <1>5, <1>7
      <4> QED BY <4>1, FS_Union
    <3> QED BY <1>7, <3>1
  <2>2. ASSUME NEW e \in all
        PROVE  e.amount \in Int /\ e.id[1] = j /\ e.txn \in {j} \X Nat /\ BalancedIn(all, e.txn)
    <3>1. PICK n \in DOMAIN Txns(j) : e \in rows(n)
      BY <1>9
    <3>2. e.amount \in Int /\ e.id[1] = j /\ e.txn = <<j, n>> /\ n \in Nat
      BY <1>5, <1>6, <3>1
    <3>3. {f \in all : f.txn = e.txn} = rows(n)
      BY <1>8, <3>2
    <3>4. BalancedIn(all, e.txn)
      BY <1>5, <3>3 DEF BalancedIn
    <3> QED BY <3>2, <3>4
  <2> QED BY <2>1, <2>2
<1>11. \A h \in Headers(j) : h.id \in {j} \X Nat
  BY <1>6 DEF Headers
<1>12. ASSUME NEW a \in Chart, SameKey(a, pending[j]) => a = pending[j]
       PROVE  Balance(all, a) = IF a.currency = c THEN Share(j, a) ELSE 0
  <2>1. GivenBy(j, a) = IF a.currency = c THEN Share(j, a) ELSE 0
    BY <1>12, TxnsGive
  <2>2. Balance(rows(1), a) = Given(Txns(j)[1], a) /\ Balance(rows(1), a) \in Int
    BY <1>5, <1>7, BalanceIsInt
  <2>3. CASE 2 \in DOMAIN Txns(j)
    <3>1. Balance(rows(2), a) = Given(Txns(j)[2], a)
      BY <1>5, <2>3
    <3>2. rows(1) \cap rows(2) = {}
      <4>1. <<j, 1>> # <<j, 2>>
        OBVIOUS
      <4> QED BY <1>5, <1>7, <2>3, <4>1
    <3>3. Balance(rows(1) \cup rows(2), a) = Balance(rows(1), a) + Balance(rows(2), a)
      <4>1. \A e \in rows(1) \cup rows(2) : e.amount \in Int
        BY <1>5, <1>7, <2>3
      <4> QED BY <1>5, <1>7, <2>3, <3>2, <4>1, BalanceOfBoth
    <3> QED BY <1>7, <2>1, <2>2, <2>3, <3>1, <3>3 DEF GivenBy
  <2>4. CASE ~(2 \in DOMAIN Txns(j))
    <3>1. GivenBy(j, a) = Balance(all, a)
      BY <1>7, <2>2, <2>4 DEF GivenBy
    <3> QED BY <2>1, <3>1
  <2> QED BY <2>3, <2>4
<1>13. ASSUME NEW mine, mine.entries = all, mine.headers = Headers(j)
       PROVE  RowsOfJob(j, pending[j], mine)
  BY <1>10, <1>11, <1>12, <1>13 DEF RowsOfJob
<1> QED BY <1>3, <1>13 DEF all

-----------------------------------------------------------------------------
(* What can be read in the open transactions. *)

LEMMA SeesTheChart ==
    ASSUME BooksInv, NEW s \in Sessions
    PROVE  /\ own[s].accounts \subseteq Chart /\ Sees(s).accounts \subseteq Chart
           /\ accounts \subseteq Chart
BY DEF BooksInv, AccountsInv, InsertsItsOwn, Inserting, SumsInv, SeededStay, Sees, Chart

LEMMA FoundWorks ==
    ASSUME BooksInv, NEW j \in Jobs, NEW a \in Found(j)
    PROVE  WorksWith(j, a) /\ a \in accounts \cup own[j].accounts
<1>1. /\ a \in Sees(j).accounts /\ a.merchant = Owner[Payment(j)]
      /\ a.type = "merchant_pending" /\ a.currency = CurrencyOf(j)
  BY DEF Found, Find
<1>2. a \in Chart
  BY <1>1, SeesTheChart, JobsAreSessions
<1> QED BY <1>1, <1>2, AccountsAre DEF WorksWith, SameKey, Sees

-----------------------------------------------------------------------------
(* The steps. *)

LEMMA DoneStays ==
    ASSUME NEW txn, IsDone(txn), \A s \in Sessions : step[s] = "done" => step'[s] = "done"
    PROVE  IsDone(txn)'
<1>1. ASSUME txn \in Jobs \X Nat PROVE step'[txn[1]] = "done"
  <2>1. txn[1] \in Sessions /\ step[txn[1]] = "done"
    BY <1>1, JobsAreSessions DEF IsDone
  <2> QED BY <2>1
<1> QED BY <1>1 DEF IsDone

\* A hand that does not move still fits.
LEMMA HandStays ==
    ASSUME NEW x \in Hands, HandFits(x), own'[x] = own[x], step'[x] = step[x],
           \A s \in Sessions : step[s] = "done" => step'[s] = "done"
    PROVE  HandFits(x)'
BY DoneStays DEF HandFits

\* A step that commits nothing leaves the books as they are.
LEMMA NothingPublished ==
    ASSUME BooksInv, AccountsInv', NEW s \in Sessions, NEW to \in Statements \ {"done"},
           GoTo(s, to), step[s] # "done", UNCHANGED tables, refused' = {},
           \A t \in Sessions \ {s} : own'[t] = own[t],
           \A j \in Jobs \ {s} : pending'[j] = pending[j],
           s \in Jobs => JobFits(s)', s \in Hands => HandFits(s)'
    PROVE  BooksInv'
<1>1. /\ accounts' = accounts /\ headers' = headers /\ entries' = entries
      /\ step'[s] = to /\ \A t \in Sessions \ {s} : step'[t] = step[t]
  BY GoToStep DEF tables, BooksInv, AccountsInv
<1>2. \A t \in Sessions : step'[t] = "done" <=> step[t] = "done"
  BY <1>1
<1>3. SeededStay'
  BY <1>1 DEF BooksInv, SumsInv, SeededStay
<1>4. ASSUME NEW j \in Jobs PROVE JobFits(j)'
  <2>1. CASE j = s
    BY <2>1
  <2>2. CASE j # s
    <3>1. JobFits(j) /\ own'[j] = own[j] /\ step'[j] = step[j] /\ pending'[j] = pending[j]
      BY <1>1, <2>2, JobsAreSessions DEF BooksInv, SumsInv
    <3> QED BY <1>1, <3>1 DEF JobFits
  <2> QED BY <2>1, <2>2
<1>5. ASSUME NEW x \in Hands PROVE HandFits(x)'
  <2>1. CASE x = s
    BY <2>1
  <2>2. CASE x # s
    <3>1. HandFits(x) /\ own'[x] = own[x] /\ step'[x] = step[x]
      BY <1>1, <2>2, JobsAreSessions DEF BooksInv, SumsInv
    <3> QED BY <1>2, <3>1, HandStays
  <2> QED BY <2>1, <2>2
<1>6. RowsAreDone'
  <2>1. RowsAreDone
    BY DEF BooksInv, SumsInv
  <2> QED BY <1>1, <1>2, <2>1, DoneStays DEF RowsAreDone
<1>7. BalancesFit'
  <2>1. \A c : Posted(c)' = Posted(c)
    BY <1>2, JobsAreSessions DEF Posted
  <2>2. BalancesFit
    BY DEF BooksInv, SumsInv
  <2> QED BY <1>1, <2>1, <2>2 DEF BalancesFit, Free
<1> QED BY <1>3, <1>4, <1>5, <1>6, <1>7 DEF BooksInv, SumsInv

\* A job that goes on with an account, or to look for one.
LEMMA JobMoves ==
    ASSUME BooksInv, NEW j \in Jobs, NEW to \in {"insert", "reread", "post"},
           step'[j] = to, step[j] # "commit",
           own'[j].entries = own[j].entries, own'[j].headers = own[j].headers,
           to = "post" => WorksWith(j, pending'[j]) /\ pending'[j] \in (accounts \cup own[j].accounts)'
    PROVE  JobFits(j)'
<1>1. HasNoRows(own[j])
  BY DEF BooksInv, SumsInv, JobFits
<1>2. HasNoRows(own[j])'
  BY <1>1 DEF HasNoRows
<1> QED BY <1>2 DEF JobFits, WorksWith

LEMMA RolledBack ==
    ASSUME BooksInv, AccountsInv', NEW s \in Sessions, NEW to \in {"find", "gone"},
           step[s] # "done", Rollback(s, to), UNCHANGED tables, refused' = {}
    PROVE  BooksInv'
<1>1. /\ own'[s] = Nothing /\ \A t \in Sessions \ {s} : own'[t] = own[t]
      /\ \A j \in Jobs \ {s} : pending'[j] = pending[j]
      /\ GoTo(s, to)
  BY DEF Rollback, BooksInv, AccountsInv, TypeOK
<1>2. step'[s] = to /\ to \in Statements \ {"done"}
  BY <1>1, GoToStep DEF BooksInv, AccountsInv, Statements
<1>3. HasNoRows(own'[s]) /\ own'[s].entries = {} /\ own'[s].headers = {}
  BY <1>1 DEF HasNoRows, Nothing
<1>4. s \in Jobs => JobFits(s)'
  BY <1>2, <1>3 DEF JobFits
<1>5. s \in Hands => HandFits(s)'
  BY <1>2, <1>3, FS_EmptySet DEF HandFits
<1> QED BY <1>1, <1>2, <1>4, <1>5, NothingPublished

LEMMA FindFits ==
    ASSUME BooksInv, AccountsInv', NEW j \in Jobs, FindAccount(j)
    PROVE  BooksInv'
<1>1. /\ j \in Sessions /\ step[j] = "find" /\ UNCHANGED <<tables, own>> /\ refused' = {}
      /\ UNCHANGED accounts
  BY JobsAreSessions DEF FindAccount, BooksInv, SumsInv, tables
<1>2. ASSUME NEW a \in Found(j), Use(j, a) PROVE BooksInv'
  <2>1. /\ pending'[j] = a /\ GoTo(j, "post")
        /\ \A i \in Jobs \ {j} : pending'[i] = pending[i]
    BY <1>2 DEF Use, BooksInv, AccountsInv, TypeOK
  <2>2. step'[j] = "post" /\ "post" \in Statements \ {"done"}
    BY <1>1, <2>1, GoToStep DEF BooksInv, AccountsInv, Statements
  <2>3. JobFits(j)'
    BY <1>1, <2>1, <2>2, FoundWorks, JobMoves
  <2> QED BY <1>1, <2>1, <2>2, <2>3, NothingPublished, JobsAreSessions
<1>3. CASE GoTo(j, "insert") /\ UNCHANGED pending
  <2>1. step'[j] = "insert" /\ "insert" \in Statements \ {"done"}
    BY <1>1, <1>3, GoToStep DEF BooksInv, AccountsInv, Statements
  <2>2. JobFits(j)'
    BY <1>1, <2>1, JobMoves
  <2> QED BY <1>1, <1>3, <2>1, <2>2, NothingPublished, JobsAreSessions
<1> QED BY <1>2, <1>3 DEF FindAccount

LEMMA RereadFits ==
    ASSUME BooksInv, AccountsInv', NEW j \in Jobs, RereadAccount(j)
    PROVE  BooksInv'
<1>1. /\ j \in Sessions /\ step[j] = "reread" /\ UNCHANGED <<tables, own>> /\ refused' = {}
      /\ UNCHANGED accounts
  BY JobsAreSessions DEF RereadAccount, BooksInv, SumsInv, tables
<1>2. PICK a \in Found(j) : Use(j, a)
  BY DEF RereadAccount
<1>3. /\ pending'[j] = a /\ GoTo(j, "post")
      /\ \A i \in Jobs \ {j} : pending'[i] = pending[i]
  BY <1>2 DEF Use, BooksInv, AccountsInv, TypeOK
<1>4. step'[j] = "post" /\ "post" \in Statements \ {"done"}
  BY <1>1, <1>3, GoToStep DEF BooksInv, AccountsInv, Statements
<1>5. JobFits(j)'
  BY <1>1, <1>3, <1>4, FoundWorks, JobMoves
<1> QED BY <1>1, <1>3, <1>4, <1>5, NothingPublished, JobsAreSessions

LEMMA InsertFits ==
    ASSUME BooksInv, AccountsInv', NEW j \in Jobs, InsertAccount(j)
    PROVE  BooksInv'
<1>1. /\ j \in Sessions /\ step[j] = "insert" /\ UNCHANGED tables /\ refused' = {}
      /\ UNCHANGED accounts
  BY JobsAreSessions DEF InsertAccount, BooksInv, SumsInv, tables
<1>2. CASE GoTo(j, "reread") /\ UNCHANGED <<own, pending>>
  <2>1. step'[j] = "reread" /\ "reread" \in Statements \ {"done"}
    BY <1>1, <1>2, GoToStep DEF BooksInv, AccountsInv, Statements
  <2>2. JobFits(j)'
    BY <1>1, <1>2, <2>1, JobMoves
  <2>3. j \notin Hands
    BY JobsAreSessions
  <2> QED BY <1>1, <1>2, <2>1, <2>2, <2>3, NothingPublished
<1>3. CASE /\ Use(j, NewAccount(j))
           /\ own' = [own EXCEPT ![j].accounts = @ \cup {NewAccount(j)}]
  <2> DEFINE new == NewAccount(j)
  <2>1. /\ new \in own'[j].accounts /\ \A t \in Sessions \ {j} : own'[t] = own[t]
        /\ own'[j].entries = own[j].entries /\ own'[j].headers = own[j].headers
    BY <1>1, <1>3 DEF BooksInv, AccountsInv, TypeOK
  <2>2. /\ pending'[j] = new /\ GoTo(j, "post")
        /\ \A i \in Jobs \ {j} : pending'[i] = pending[i]
    BY <1>3 DEF Use, BooksInv, AccountsInv, TypeOK
  <2>3. step'[j] = "post" /\ "post" \in Statements \ {"done"}
    BY <1>1, <2>2, GoToStep DEF BooksInv, AccountsInv, Statements
  <2>4. WorksWith(j, new)
    BY DEF WorksWith, Chart, SameKey
  <2> HIDE DEF new
  <2>5. JobFits(j)'
    BY <1>1, <2>1, <2>2, <2>3, <2>4, JobMoves
  <2> QED BY <1>1, <2>1, <2>2, <2>3, <2>5, NothingPublished, JobsAreSessions
<1> QED BY <1>2, <1>3 DEF InsertAccount

LEMMA PostFits ==
    ASSUME BooksInv, AccountsInv', NEW j \in Jobs, Post(j)
    PROVE  BooksInv'
<1>1. /\ j \in Sessions /\ step[j] = "post" /\ UNCHANGED tables /\ UNCHANGED accounts
      /\ SeededStay /\ WorksWith(j, pending[j]) /\ pending[j] \in accounts \cup own[j].accounts
  BY JobsAreSessions DEF Post, BooksInv, SumsInv, JobFits, tables
<1>2. AllBuild(j)
  BY <1>1, PostWrites
<1>3. /\ own' = [own EXCEPT ![j].headers = Headers(j), ![j].entries = PostedRows(j)]
      /\ GoTo(j, "commit") /\ pending' = pending /\ refused' = {}
  BY <1>2 DEF Post, PostedRows, BooksInv, SumsInv
<1>4. /\ own'[j].headers = Headers(j) /\ own'[j].entries = PostedRows(j)
      /\ own'[j].accounts = own[j].accounts
      /\ \A t \in Sessions \ {j} : own'[t] = own[t]
  BY <1>1, <1>3 DEF BooksInv, AccountsInv, TypeOK
<1>5. step'[j] = "commit" /\ "commit" \in Statements \ {"done"}
  BY <1>1, <1>3, GoToStep DEF BooksInv, AccountsInv, Statements
<1>6. RowsOfJob(j, pending[j], own'[j])
  <2>1. PICK mine : mine = own'[j]
    OBVIOUS
  <2>2. RowsOfJob(j, pending[j], mine)
    BY <1>1, <1>4, <2>1, PostWrites
  <2> QED BY <2>1, <2>2
<1>7. JobFits(j)'
  <2>1. WorksWith(j, pending'[j]) /\ pending'[j] \in accounts' \cup own'[j].accounts
    BY <1>1, <1>3, <1>4
  <2>2. RowsOfJob(j, pending'[j], own'[j])
    BY <1>3, <1>6
  <2> QED BY <1>5, <2>1, <2>2 DEF JobFits, WorksWith
<1>8. j \notin Hands
  BY JobsAreSessions
<1> QED BY <1>1, <1>3, <1>4, <1>5, <1>7, <1>8, NothingPublished

LEMMA WriteFits ==
    ASSUME BooksInv, AccountsInv', NEW x \in Hands, NEW lines \in HandLines, Write(x, lines)
    PROVE  BooksInv'
<1>1. /\ x \in Sessions /\ x \notin Jobs /\ step[x] = "write" /\ UNCHANGED <<tables, pending>>
      /\ refused' = {} /\ GoTo(x, "commit")
  BY JobsAreSessions DEF Write, BooksInv, SumsInv
<1>2. PICK txn \in {h.id : h \in headers} \cup {x} :
          own' = [own EXCEPT
            ![x].headers = IF txn = x THEN {[id |-> x, kind |-> "funds_released"]} ELSE {},
            ![x].entries = {HandEntry(x, txn, line) : line \in lines}]
  BY DEF Write
<1>3. /\ own'[x].headers = IF txn = x THEN {[id |-> x, kind |-> "funds_released"]} ELSE {}
      /\ own'[x].entries = {HandEntry(x, txn, line) : line \in lines}
      /\ \A t \in Sessions \ {x} : own'[t] = own[t]
  BY <1>1, <1>2 DEF BooksInv, AccountsInv, TypeOK
<1>4. /\ step'[x] = "commit" /\ "commit" \in Statements \ {"done"}
      /\ \A t \in Sessions \ {x} : step'[t] = step[t]
  BY <1>1, GoToStep DEF BooksInv, AccountsInv, Statements
<1>5. x \notin Jobs \X Nat
  BY BooksAssumption
<1>6. IsDone(x)' /\ IsDone(txn)'
  <2>1. IsDone(x) /\ IsDone(txn)
    BY <1>5 DEF IsDone, BooksInv, SumsInv, RowsAreDone
  <2>2. \A s \in Sessions : step[s] = "done" => step'[s] = "done"
    BY <1>1, <1>4
  <2> QED BY <2>1, <2>2, DoneStays
<1>7. IsFiniteSet(own'[x].entries)
  <2>1. IsFiniteSet(lines)
    BY BooksAssumption
  <2> DEFINE row == [line \in lines |-> HandEntry(x, txn, line)]
  <2>2. row \in Surjection(lines, own'[x].entries)
    BY <1>3 DEF Surjection
  <2> HIDE DEF row
  <2> QED BY <2>1, <2>2, FS_Surjection
<1>8. \A e \in own'[x].entries : e.amount \in Int /\ e.id[1] = x /\ e.txn = txn
  BY <1>3, BooksAssumption DEF HandEntry
<1>9. \A h \in own'[x].headers : h.id = x
  BY <1>3
<1>10. HandFits(x)'
  BY <1>4, <1>6, <1>7, <1>8, <1>9 DEF HandFits
<1> QED BY <1>1, <1>3, <1>4, <1>10, NothingPublished

\* The second layer refuses no job: nobody has added to its transactions yet.
LEMMA JobsCheck ==
    ASSUME BooksInv, NEW j \in Jobs, step[j] = "commit", NEW e \in own[j].entries
    PROVE  MustBalance(e.txn, Sees(j).entries)
<1>1. RowsOfJob(j, pending[j], own[j]) /\ RowsAreDone
  BY DEF BooksInv, SumsInv, JobFits
<1>2. e.txn \in {j} \X Nat /\ BalancedIn(own[j].entries, e.txn)
  BY <1>1 DEF RowsOfJob
<1>3. \A f \in entries : f.txn # e.txn
  <2>1. ASSUME NEW f \in entries, f.txn = e.txn PROVE FALSE
    <3>1. IsDone(f.txn) /\ f.txn \in Jobs \X Nat /\ f.txn[1] = j
      BY <1>1, <1>2, <2>1 DEF RowsAreDone
    <3> QED BY <3>1 DEF IsDone
  <2> QED BY <2>1
<1>4. {f \in Sees(j).entries : f.txn = e.txn} = {f \in own[j].entries : f.txn = e.txn}
  BY <1>3 DEF Sees
<1> QED BY <1>2, <1>4 DEF MustBalance, BalancedIn

LEMMA CommitFits ==
    ASSUME BooksInv, AccountsInv', NEW s \in Sessions, Commit(s)
    PROVE  BooksInv'
<1>1. step[s] = "commit" /\ (s \in Jobs <=> s \notin Hands) /\ refused = {}
  BY JobsAreSessions DEF Commit, BooksInv, SumsInv, Sessions
<1>2. Publish(s) /\ GoTo(s, "done") /\ pending' = pending /\ refused' = {}
  BY <1>1 DEF Commit
<1>3. /\ accounts' = accounts \cup own[s].accounts /\ headers' = headers \cup own[s].headers
      /\ entries' = entries \cup own[s].entries
      /\ own'[s] = Nothing /\ \A t \in Sessions \ {s} : own'[t] = own[t]
  BY <1>2 DEF Publish, BooksInv, AccountsInv, TypeOK
<1>4. step'[s] = "done" /\ \A t \in Sessions \ {s} : step'[t] = step[t]
  BY <1>2, GoToStep DEF BooksInv, AccountsInv, Statements
<1>5. \A t \in Sessions : step[t] = "done" => step'[t] = "done"
  BY <1>4
<1>6. SeededStay'
  BY <1>3, SeesTheChart DEF BooksInv, SumsInv, SeededStay
<1>7. HasNoRows(own'[s]) /\ own'[s].entries = {} /\ own'[s].headers = {}
  BY <1>3 DEF HasNoRows, Nothing
<1>8. ASSUME NEW j \in Jobs PROVE JobFits(j)'
  <2>1. CASE j = s
    BY <1>4, <1>7, <2>1 DEF JobFits
  <2>2. CASE j # s
    <3>1. /\ JobFits(j) /\ own'[j] = own[j] /\ step'[j] = step[j] /\ pending'[j] = pending[j]
          /\ accounts \subseteq accounts'
      BY <1>2, <1>3, <1>4, <2>2, JobsAreSessions DEF BooksInv, SumsInv
    <3> QED BY <3>1 DEF JobFits
  <2> QED BY <2>1, <2>2
<1>9. ASSUME NEW x \in Hands PROVE HandFits(x)'
  <2>1. CASE x = s
    BY <1>4, <1>7, <2>1, FS_EmptySet DEF HandFits
  <2>2. CASE x # s
    <3>1. HandFits(x) /\ own'[x] = own[x] /\ step'[x] = step[x]
      BY <1>3, <1>4, <2>2, JobsAreSessions DEF BooksInv, SumsInv
    <3> QED BY <1>5, <3>1, HandStays
  <2> QED BY <2>1, <2>2
\* what is published
<1>10. RowsAreDone
  BY DEF BooksInv, SumsInv
<1>11. ASSUME s \in Jobs
       PROVE  RowsOfJob(s, pending[s], own[s]) /\ pending[s] \in accounts'
  BY <1>1, <1>3, <1>11 DEF BooksInv, SumsInv, JobFits
<1>12. ASSUME s \in Hands PROVE HandFits(s)
  BY <1>12 DEF BooksInv, SumsInv
<1>13. /\ IsFiniteSet(own[s].entries)
       /\ \A e \in own[s].entries : e.amount \in Int /\ e.id[1] = s
  BY <1>1, <1>11, <1>12 DEF RowsOfJob, HandFits
<1>14. /\ \A e \in own[s].entries : IsDone(e.txn)'
       /\ \A h \in own[s].headers : IsDone(h.id)'
  <2>1. CASE s \in Jobs
    <3>1. \A txn \in {s} \X Nat : IsDone(txn)'
      BY <1>4 DEF IsDone
    <3>2. /\ \A e \in own[s].entries : e.txn \in {s} \X Nat
          /\ \A h \in own[s].headers : h.id \in {s} \X Nat
      BY <1>11, <2>1 DEF RowsOfJob
    <3> QED BY <3>1, <3>2
  <2>2. CASE s \in Hands
    <3>1. /\ \A e \in own[s].entries : IsDone(e.txn)
          /\ \A h \in own[s].headers : IsDone(h.id)
      BY <1>12, <2>2 DEF HandFits
    <3> QED BY <1>5, <3>1, DoneStays
  <2> QED BY <1>1, <2>1, <2>2
<1>15. RowsAreDone'
  <2>1. IsFiniteSet(entries')
    BY <1>3, <1>10, <1>13, FS_Union DEF RowsAreDone
  <2>2. ASSUME NEW e \in entries'
        PROVE  e.amount \in Int /\ e.id[1] \in Sessions /\ step'[e.id[1]] = "done" /\ IsDone(e.txn)'
    <3>1. CASE e \in entries
      BY <1>5, <1>10, <3>1, DoneStays DEF RowsAreDone
    <3>2. CASE e \in own[s].entries
      BY <1>4, <1>13, <1>14, <3>2
    <3> QED BY <1>3, <3>1, <3>2
  <2>3. ASSUME NEW h \in headers' PROVE IsDone(h.id)'
    BY <1>3, <1>5, <1>10, <1>14, DoneStays DEF RowsAreDone
  <2> QED BY <2>1, <2>2, <2>3 DEF RowsAreDone
<1>16. ASSUME NEW a \in Chart, \A b \in accounts' : SameKey(a, b) => a = b
       PROVE  Balance(entries', a) = ExpectedAt(Posted(a.currency)', entries', a)
  <2>1. PICK rows, mine, jobs : rows = entries /\ mine = own[s].entries /\ jobs = Posted(a.currency)
    OBVIOUS
  <2>2. Balance(rows, a) = ExpectedAt(jobs, rows, a)
    BY <1>3, <1>16, <2>1 DEF BooksInv, SumsInv, BalancesFit, Free
  <2>3. /\ IsFiniteSet(rows) /\ IsFiniteSet(mine) /\ rows \cap mine = {}
        /\ \A e \in rows \cup mine : e.amount \in Int
        /\ \A e \in mine : e.id[1] = s
    BY <1>1, <1>10, <1>13, <2>1 DEF RowsAreDone
  <2>4. jobs \in SUBSET Jobs /\ Adds(rows, mine) /\ s \notin jobs /\ entries' = rows \cup mine
    BY <1>1, <1>3, <2>1, <2>3 DEF Posted, Adds
  <2>5. Posted(a.currency)' = IF s \in Jobs /\ CurrencyOf(s) = a.currency
                              THEN jobs \cup {s} ELSE jobs
    BY <1>1, <1>4, <2>1, JobsAreSessions DEF Posted
  <2>6. CASE s \in Hands
    <3>1. Balance(rows \cup mine, a) = ExpectedAt(jobs, rows \cup mine, a)
      <4>1. \A e \in mine : e.id[1] \in Hands
        BY <2>3, <2>6
      <4> QED BY <2>2, <2>4, <4>1, RowsAdd
    <3> QED BY <1>1, <2>4, <2>5, <2>6, <3>1
  <2>7. CASE s \in Jobs
    <3>1. Balance(mine, a) = IF a.currency = CurrencyOf(s) THEN Share(s, a) ELSE 0
      BY <1>11, <1>16, <2>1, <2>7 DEF RowsOfJob
    <3>2. /\ Balance(mine, a) = 0 =>
                Balance(rows \cup mine, a) = ExpectedAt(jobs, rows \cup mine, a)
          /\ Balance(mine, a) = Share(s, a) =>
                Balance(rows \cup mine, a) = ExpectedAt(jobs \cup {s}, rows \cup mine, a)
      <4>1. (\A e \in mine : e.id[1] \notin Hands) /\ s \in Jobs \ jobs
        BY <1>1, <2>3, <2>4, <2>7
      <4>2. /\ Balance(mine, a) = 0 =>
                 Balance(rows \cup mine, a) = ExpectedAt(jobs, rows \cup mine, a)
            /\ \A j \in Jobs \ jobs : Balance(mine, a) = Share(j, a) =>
                 Balance(rows \cup mine, a) = ExpectedAt(jobs \cup {j}, rows \cup mine, a)
        BY <2>2, <2>4, <4>1, RowsAdd
      <4> QED BY <4>1, <4>2
    <3> QED BY <2>4, <2>5, <2>7, <3>1, <3>2
  <2> QED BY <1>1, <2>6, <2>7
<1>17. BalancesFit'
  BY <1>16 DEF BalancesFit, Free
<1> QED BY <1>2, <1>6, <1>8, <1>9, <1>15, <1>17 DEF BooksInv, SumsInv

LEMMA CheckFits ==
    ASSUME BooksInv, AccountsInv', NEW s \in Sessions, NEW txn \in due[s], Check(s, txn),
           due[s] \subseteq TxnsOf(own[s].entries)
    PROVE  BooksInv'
<1>1. /\ step[s] = "commit" /\ UNCHANGED tables /\ refused = {}
      /\ accounts' = accounts /\ headers' = headers /\ entries' = entries
  BY DEF Check, BooksInv, SumsInv, tables
<1>2. CASE Rollback(s, "gone") /\ refused' = refused \cup ({s} \cap Jobs)
           /\ ~MustBalance(txn, Sees(s).entries)
  <2>1. s \notin Jobs
    BY <1>1, <1>2, JobsCheck DEF TxnsOf
  <2> QED BY <1>1, <1>2, <2>1, RolledBack
<1>3. CASE UNCHANGED <<step, own, pending, refused>>
  BY <1>1, <1>3 DEF BooksInv, SumsInv, SeededStay, JobFits, HandFits, IsDone, RowsAreDone,
                    BalancesFit, Free, Posted
<1> QED BY <1>2, <1>3 DEF Check

-----------------------------------------------------------------------------
(* The theorems about the sums. *)

LEMMA BooksInit == Init => BooksInv
<1> SUFFICES ASSUME Init PROVE BooksInv
  OBVIOUS
<1>1. AccountsInv /\ SeededStay /\ refused = {}
  BY AccountsInit DEF Init, SeededStay, Chart
<1>2. \A s \in Sessions : /\ HasNoRows(own[s]) /\ own[s].entries = {} /\ own[s].headers = {}
                          /\ step[s] \in {"find", "write"}
  BY DEF Init, Nothing, HasNoRows
<1>3. \A j \in Jobs : JobFits(j)
  BY <1>2, JobsAreSessions DEF JobFits
<1>4. \A x \in Hands : HandFits(x)
  BY <1>2, JobsAreSessions, FS_EmptySet DEF HandFits
<1>5. RowsAreDone
  BY FS_EmptySet DEF Init, RowsAreDone
<1>6. ASSUME NEW a \in Chart PROVE Balance(entries, a) = ExpectedAt(Posted(a.currency), entries, a)
  <2>1. entries = {} /\ Posted(a.currency) = {} /\ {e \in entries : e.id[1] \in Hands} = {}
    BY <1>2, JobsAreSessions DEF Init, Posted
  <2>2. Balance({}, a) = 0
    <3>1. Balance({}, a) = Sum([e \in {} |-> Gives(e, a)], {})
      BY FS_EmptySet, BalanceIsSum
    <3> QED BY <3>1, SumOfNothing
  <2>3. ASSUME NEW none, none = {} PROVE ExpectedAt(none, none, a) = 0
    <3> DEFINE total == Sum([j \in none |-> Share(j, a)], none)
               hands == {e \in none : e.id[1] \in Hands}
    <3>1. none \in SUBSET Jobs
      BY <2>3
    <3>2. ExpectedAt(none, none, a) = total + Balance(hands, a)
      BY <3>1, ExpectedIsSum
    <3>3. total = 0
      BY <2>3, SumOfNothing
    <3>4. hands = {}
      BY <2>3
    <3> HIDE DEF total, hands
    <3> QED BY <2>2, <3>2, <3>3, <3>4
  <2> QED BY <2>1, <2>2, <2>3
<1>7. BalancesFit
  BY <1>6 DEF BalancesFit
<1> QED BY <1>1, <1>3, <1>4, <1>5, <1>7 DEF BooksInv, SumsInv

LEMMA BooksStep == BooksInv /\ DueFits /\ [Next]_vars => BooksInv'
<1> SUFFICES ASSUME BooksInv, DueFits, [Next]_vars PROVE BooksInv'
  OBVIOUS
<1>1. AccountsInv'
  BY AccountsStep DEF BooksInv
<1>2. ASSUME NEW j \in Jobs, Advance(j) PROVE BooksInv'
  BY <1>1, <1>2, FindFits, InsertFits, RereadFits, PostFits DEF Advance
<1>3. ASSUME NEW j \in Jobs, Abort(j) PROVE BooksInv'
  <2>1. /\ j \in Sessions /\ step[j] # "done" /\ Rollback(j, "find") /\ UNCHANGED tables
        /\ refused' = {}
    BY <1>3, JobsAreSessions DEF Abort, BooksInv, SumsInv
  <2> QED BY <1>1, <2>1, RolledBack
<1>4. ASSUME NEW s \in Sessions, Commit(s) PROVE BooksInv'
  BY <1>1, <1>4, CommitFits
<1>5. ASSUME NEW x \in Hands, NEW e \in entries, Mutate(x, e) PROVE BooksInv'
  <2>1. /\ x \in Sessions /\ step[x] # "done" /\ Rollback(x, "gone") /\ UNCHANGED tables
        /\ refused' = {}
    BY <1>5, JobsAreSessions DEF Mutate, BooksInv, SumsInv
  <2> QED BY <1>1, <2>1, RolledBack
<1>6. ASSUME NEW x \in Hands, NEW lines \in HandLines, Write(x, lines) PROVE BooksInv'
  BY <1>1, <1>6, WriteFits
<1>7. ASSUME NEW s \in Sessions, NEW txn \in due[s], Check(s, txn) PROVE BooksInv'
  BY <1>1, <1>7, CheckFits DEF DueFits
<1>8. CASE UNCHANGED vars
  <2>1. /\ accounts' = accounts /\ headers' = headers /\ entries' = entries /\ step' = step
        /\ own' = own /\ pending' = pending /\ refused' = refused
    BY <1>8 DEF vars, tables
  <2>2. SumsInv
    BY DEF BooksInv
  <2>3. (\A j \in Jobs : JobFits(j)') /\ (\A x \in Hands : HandFits(x)')
    BY <2>1, <2>2 DEF SumsInv, JobFits, HandFits, IsDone
  <2>4. SeededStay' /\ refused' = {} /\ RowsAreDone'
    BY <2>1, <2>2 DEF SumsInv, SeededStay, RowsAreDone, IsDone
  <2>5. BalancesFit'
    BY <2>1, <2>2 DEF SumsInv, BalancesFit, Free, Posted
  <2> QED BY <1>1, <2>3, <2>4, <2>5 DEF BooksInv, SumsInv
<1> QED BY <1>2, <1>3, <1>4, <1>5, <1>6, <1>7, <1>8 DEF Next

\* What holds of the rows between the statements.
THEOREM BooksInvariance == Spec => []BooksInv
<1> QED BY BooksInit, BooksStep, DueInvariance, PTL DEF Spec

\* Neither BalancedTransaction::new nor the triggers of ledger_constraints ever
\* refuse what post_capture and post_refund build, whatever else is written.
THEOREM PostingsAreAccepted == Spec => []PostingsSucceed
<1>1. BooksInv => PostingsSucceed
  BY DEF BooksInv, SumsInv, PostingsSucceed
<1> QED BY <1>1, BooksInvariance, PTL

\* The balances that store::ledger::balance and balances_for_merchant add up are
\* the sums of what the committed jobs posted, in each account's own currency,
\* and of what was written by hand: the sums that PaymentEngine keeps.
THEOREM BalancesAreSums == Spec => []BooksMatchPostings
<1>1. BooksInv => BooksMatchPostings
  <2> SUFFICES ASSUME BooksInv PROVE BooksMatchPostings
    OBVIOUS
  <2>1. ASSUME NEW a \in accounts PROVE Balance(entries, a) = Expected(a)
    <3>1. a \in Chart /\ Free(a)
      BY <2>1 DEF BooksInv, SumsInv, SeededStay, AccountsInv, KeysDiffer, Free
    <3>2. Balance(entries, a) = ExpectedAt(Posted(a.currency), entries, a)
      BY <3>1 DEF BooksInv, SumsInv, BalancesFit
    <3> QED BY <3>2 DEF ExpectedAt, Expected, ByHand
  <2> QED BY <2>1 DEF BooksMatchPostings
<1> QED BY <1>1, BooksInvariance, PTL

-----------------------------------------------------------------------------
(* The balance of the whole, with sessions that check and commit as they like. *)

Its(rows, txn) == {e \in rows : e.txn = txn}
SumsToZero(rows, txn) == \A c \in Currencies : TotalIn(Its(rows, txn), c) = 0
HasTwo(rows, txn) == Cardinality(Its(rows, txn)) >= 2

\* What a session has checked would balance by itself: nobody else is needed, and
\* nobody else can spoil it.
ChecksStand ==
    \A s \in Sessions : step[s] = "commit" =>
        \A txn \in TxnsOf(own[s].entries) \ due[s] :
            SumsToZero(own[s].entries, txn) /\ HasTwo(Sees(s).entries, txn)

\* The rows of an open transaction are none of the committed ones.
LEMMA OwnRows ==
    ASSUME BooksInv, NEW s \in Sessions
    PROVE  /\ IsFiniteSet(entries) /\ IsFiniteSet(own[s].entries)
           /\ \A e \in entries \cup own[s].entries : e.amount \in Int
           /\ entries \cap own[s].entries = {}
<1>1. /\ IsFiniteSet(entries)
      /\ \A e \in entries : e.amount \in Int /\ step[e.id[1]] = "done"
  BY DEF BooksInv, SumsInv, RowsAreDone
<1>2. CASE own[s].entries = {}
  BY <1>1, <1>2, FS_EmptySet
<1>3. CASE own[s].entries # {}
  <2>1. CASE s \in Jobs
    <3>1. JobFits(s) /\ ~HasNoRows(own[s])
      BY <1>3, <2>1 DEF BooksInv, SumsInv, HasNoRows
    <3>2. step[s] = "commit" /\ RowsOfJob(s, pending[s], own[s])
      BY <3>1 DEF JobFits
    <3>3. /\ IsFiniteSet(own[s].entries)
          /\ \A e \in own[s].entries : e.amount \in Int /\ e.id[1] = s
      BY <3>2 DEF RowsOfJob
    <3> QED BY <1>1, <3>2, <3>3
  <2>2. CASE s \in Hands
    <3>1. HandFits(s) /\ ~HasNoRows(own[s])
      BY <1>3, <2>2 DEF BooksInv, SumsInv, HasNoRows
    <3>2. /\ step[s] = "commit" /\ IsFiniteSet(own[s].entries)
          /\ \A e \in own[s].entries : e.amount \in Int /\ e.id[1] = s
      BY <3>1 DEF HandFits
    <3> QED BY <1>1, <3>2
  <2> QED BY <2>1, <2>2 DEF Sessions
<1> QED BY <1>2, <1>3

LEMMA TotalIsSum ==
    ASSUME NEW rows, NEW txn, NEW c, IsFiniteSet(rows), \A e \in rows : e.amount \in Int
    PROVE  LET its == {e \in Its(rows, txn) : e.currency = c}
           IN  /\ IsFiniteSet(its)
               /\ TotalIn(Its(rows, txn), c) = Sum([e \in its |-> e.amount], its)
<1> DEFINE its == {e \in Its(rows, txn) : e.currency = c}
<1>1. IsFiniteSet(its) /\ its \subseteq rows
  BY FS_Subset DEF Its
<1> QED BY <1>1, SumOfAmounts DEF TotalIn

\* What is added to a transaction adds up.
LEMMA TotalOfBoth ==
    ASSUME NEW R, NEW E, IsFiniteSet(R), IsFiniteSet(E), R \cap E = {},
           \A e \in R \cup E : e.amount \in Int, NEW txn, NEW c
    PROVE  /\ TotalIn(Its(R \cup E, txn), c) = TotalIn(Its(R, txn), c) + TotalIn(Its(E, txn), c)
           /\ TotalIn(Its(R, txn), c) \in Int /\ TotalIn(Its(E, txn), c) \in Int
<1> DEFINE its(S) == {e \in Its(S, txn) : e.currency = c}
           amounts(S) == [e \in S |-> e.amount]
           w == amounts(its(R \cup E))
           v == amounts(its(R))
           u == amounts(its(E))
<1>1. IsFiniteSet(R \cup E)
  BY FS_Union
<1>2. /\ IsFiniteSet(its(R \cup E)) /\ IsFiniteSet(its(R)) /\ IsFiniteSet(its(E))
      /\ TotalIn(Its(R \cup E, txn), c) = Sum(w, its(R \cup E))
      /\ TotalIn(Its(R, txn), c) = Sum(v, its(R)) /\ TotalIn(Its(E, txn), c) = Sum(u, its(E))
  <2>1. ASSUME NEW S, IsFiniteSet(S), S \subseteq R \cup E
        PROVE  IsFiniteSet(its(S)) /\ TotalIn(Its(S, txn), c) = Sum(amounts(its(S)), its(S))
    <3>1. \A e \in S : e.amount \in Int
      BY <2>1
    <3> QED BY <2>1, <3>1, TotalIsSum
  <2> HIDE DEF its, amounts
  <2> QED BY <1>1, <2>1
<1>3. its(R \cup E) = its(R) \cup its(E) /\ its(R) \cap its(E) = {}
  BY DEF Its
<1>4. /\ \A e \in its(R) \cup its(E) : w[e] \in Int
      /\ \A e \in its(R) : w[e] = v[e] /\ v[e] \in Int
      /\ \A e \in its(E) : w[e] = u[e] /\ u[e] \in Int
  BY <1>3 DEF Its
<1> HIDE DEF its, w, v, u
<1>5. Sum(w, its(R)) = Sum(v, its(R)) /\ Sum(w, its(E)) = Sum(u, its(E))
  BY <1>2, <1>4, SumsTheSame
<1>6. Sum(w, its(R) \cup its(E)) = Sum(w, its(R)) + Sum(w, its(E))
  BY <1>2, <1>3, <1>4, SumOfBoth
<1>7. Sum(v, its(R)) \in Int /\ Sum(u, its(E)) \in Int
  BY <1>2, <1>4, SumIsInt
<1> QED BY <1>2, <1>3, <1>5, <1>6, <1>7

LEMMA TotalOfNothing ==
    ASSUME NEW rows, NEW txn, Its(rows, txn) = {} PROVE SumsToZero(rows, txn)
<1>1. ASSUME NEW c \in Currencies PROVE TotalIn({}, c) = 0
  <2>1. {e \in {} : e.currency = c} = {}
    OBVIOUS
  <2>2. MapThenSumSet(LAMBDA e : e.amount, {}) = Sum([e \in {} |-> e.amount], {})
    BY FS_EmptySet, SumOfAmounts
  <2> QED BY <2>1, <2>2, SumOfNothing DEF TotalIn
<1> QED BY <1>1 DEF SumsToZero

\* In balanced books every transaction sums to zero, the ones without rows too.
LEMMA BooksSumToZero ==
    ASSUME TrialBalance, NEW txn PROVE SumsToZero(entries, txn)
<1>1. CASE Its(entries, txn) = {}
  BY <1>1, TotalOfNothing
<1>2. CASE Its(entries, txn) # {}
  <2>1. txn \in {e.txn : e \in entries}
    BY <1>2 DEF Its
  <2> QED BY <2>1 DEF TrialBalance, SumsToZero, Its
<1> QED BY <1>1, <1>2

\* More rows are no fewer.
LEMMA TwoStay ==
    ASSUME NEW R, NEW E, IsFiniteSet(E), R \subseteq E, NEW txn, HasTwo(R, txn)
    PROVE  HasTwo(E, txn)
<1>1. IsFiniteSet(Its(E, txn)) /\ Its(R, txn) \subseteq Its(E, txn)
  BY FS_Subset DEF Its
<1>2. /\ IsFiniteSet(Its(R, txn)) /\ Cardinality(Its(R, txn)) <= Cardinality(Its(E, txn))
      /\ Cardinality(Its(R, txn)) \in Nat /\ Cardinality(Its(E, txn)) \in Nat
  BY <1>1, FS_Subset, FS_CardinalityType
<1> QED BY <1>2 DEF HasTwo

\* A step that publishes nothing leaves the checks of the other sessions as they are.
LEMMA ChecksStay ==
    ASSUME BooksInv, DueFits, TrialBalance, ChecksStand, NEW s \in Sessions, UNCHANGED entries,
           \A t \in Sessions \ {s} : step'[t] = step[t] /\ own'[t] = own[t] /\ due'[t] = due[t],
           step'[s] = "commit" => TxnsOf(own'[s].entries) \subseteq due'[s]
    PROVE  (TrialBalance /\ ChecksStand)'
<1>1. TrialBalance'
  BY DEF TrialBalance
<1>2. ASSUME NEW t \in Sessions, step'[t] = "commit", NEW txn \in TxnsOf(own'[t].entries) \ due'[t]
      PROVE  SumsToZero(own'[t].entries, txn) /\ HasTwo(entries' \cup own'[t].entries, txn)
  <2>1. t # s
    BY <1>2
  <2>2. SumsToZero(own[t].entries, txn) /\ HasTwo(Sees(t).entries, txn)
    BY <1>2, <2>1 DEF ChecksStand
  <2> QED BY <2>1, <2>2 DEF Sees
<1>3. ChecksStand'
  BY <1>2 DEF ChecksStand, Sees
<1> QED BY <1>1, <1>3

\* A check finds the committed rows balanced, so that its own are.
LEMMA CheckStands ==
    ASSUME BooksInv, DueFits, TrialBalance, ChecksStand, NEW s \in Sessions, NEW txn \in due[s],
           MustBalance(txn, Sees(s).entries), UNCHANGED <<tables, step, own>>,
           due' = [due EXCEPT ![s] = @ \ {txn}]
    PROVE  (TrialBalance /\ ChecksStand)'
<1>1. entries' = entries /\ step' = step /\ own' = own
  BY DEF tables
<1>2. TrialBalance'
  BY <1>1 DEF TrialBalance
<1>3. Sees(s).entries = entries \cup own[s].entries
  BY DEF Sees
<1>4. HasTwo(Sees(s).entries, txn) /\ SumsToZero(Sees(s).entries, txn)
  BY DEF MustBalance, HasTwo, SumsToZero, Its
<1>5. SumsToZero(own[s].entries, txn)
  <2>1. ASSUME NEW c \in Currencies PROVE TotalIn(Its(own[s].entries, txn), c) = 0
    <3>1. TotalIn(Its(entries, txn), c) = 0
      BY BooksSumToZero DEF SumsToZero
    <3>2. TotalIn(Its(entries \cup own[s].entries, txn), c) = 0
      BY <1>3, <1>4 DEF SumsToZero
    <3>3. /\ TotalIn(Its(entries \cup own[s].entries, txn), c)
               = TotalIn(Its(entries, txn), c) + TotalIn(Its(own[s].entries, txn), c)
          /\ TotalIn(Its(own[s].entries, txn), c) \in Int
      BY OwnRows, TotalOfBoth
    <3> QED BY <3>1, <3>2, <3>3
  <2> QED BY <2>1 DEF SumsToZero
<1>6. ASSUME NEW t \in Sessions, step[t] = "commit", NEW u \in TxnsOf(own[t].entries) \ due'[t]
      PROVE  SumsToZero(own[t].entries, u) /\ HasTwo(Sees(t).entries, u)
  <2>1. CASE t = s /\ u = txn
    BY <1>4, <1>5, <2>1
  <2>2. CASE ~(t = s /\ u = txn)
    <3>1. u \notin due[t]
      BY <1>6, <2>2 DEF DueFits
    <3> QED BY <1>6, <3>1 DEF ChecksStand
  <2> QED BY <2>1, <2>2
<1>7. ChecksStand'
  BY <1>1, <1>6 DEF ChecksStand, Sees
<1> QED BY <1>2, <1>7

\* What is published was checked, whatever was committed since.
LEMMA CommitBalances ==
    ASSUME BooksInv, DueFits, TrialBalance, ChecksStand, NEW s \in Sessions, Commit(s)
    PROVE  (TrialBalance /\ ChecksStand)'
<1>1. /\ entries' = entries \cup own[s].entries /\ due' = due /\ due[s] = {}
      /\ step[s] = "commit" /\ step'[s] = "done"
      /\ \A t \in Sessions \ {s} : step'[t] = step[t] /\ own'[t] = own[t]
  <2>1. \A t \in Sessions \ {s} : own'[t] = own[t]
    BY DEF Commit, Publish, BooksInv, AccountsInv, TypeOK
  <2>2. step'[s] = "done" /\ \A t \in Sessions \ {s} : step'[t] = step[t]
    BY GoToStep DEF Commit, BooksInv, AccountsInv, Statements
  <2> QED BY <2>1, <2>2 DEF Commit, Publish
<1>2. ASSUME NEW txn \in TxnsOf(own[s].entries)
      PROVE  SumsToZero(own[s].entries, txn) /\ HasTwo(entries', txn)
  BY <1>1, <1>2 DEF ChecksStand, Sees
<1>3. ASSUME NEW e \in entries' PROVE HasTwo(entries', e.txn) /\ SumsToZero(entries', e.txn)
  <2>1. CASE e.txn \in TxnsOf(own[s].entries)
    <3>1. ASSUME NEW c \in Currencies PROVE TotalIn(Its(entries', e.txn), c) = 0
      <4>1. /\ TotalIn(Its(entries, e.txn), c) = 0
            /\ TotalIn(Its(own[s].entries, e.txn), c) = 0
        BY <1>2, <2>1, BooksSumToZero DEF SumsToZero
      <4>2. TotalIn(Its(entries \cup own[s].entries, e.txn), c)
               = TotalIn(Its(entries, e.txn), c) + TotalIn(Its(own[s].entries, e.txn), c)
        BY OwnRows, TotalOfBoth
      <4> QED BY <1>1, <4>1, <4>2
    <3> QED BY <1>2, <2>1, <3>1 DEF SumsToZero
  <2>2. CASE e.txn \notin TxnsOf(own[s].entries)
    <3>1. Its(entries', e.txn) = Its(entries, e.txn) /\ e \in entries
      BY <1>1, <2>2 DEF Its, TxnsOf
    <3>2. HasTwo(entries, e.txn) /\ SumsToZero(entries, e.txn)
      BY <3>1 DEF TrialBalance, HasTwo, SumsToZero, Its
    <3> QED BY <3>1, <3>2 DEF HasTwo, SumsToZero
  <2> QED BY <2>1, <2>2
<1>4. TrialBalance'
  BY <1>3 DEF TrialBalance, HasTwo, SumsToZero, Its
<1>5. ASSUME NEW t \in Sessions, step'[t] = "commit", NEW txn \in TxnsOf(own'[t].entries) \ due'[t]
      PROVE  SumsToZero(own'[t].entries, txn) /\ HasTwo(entries' \cup own'[t].entries, txn)
  <2>1. t # s /\ own'[t] = own[t] /\ step[t] = "commit" /\ due'[t] = due[t]
    BY <1>1, <1>5
  <2>2. SumsToZero(own[t].entries, txn) /\ HasTwo(entries \cup own[t].entries, txn)
    BY <1>5, <2>1 DEF ChecksStand, Sees
  <2>3. IsFiniteSet(entries' \cup own[t].entries)
    BY <1>1, OwnRows, FS_Union
  <2>4. HasTwo(entries' \cup own[t].entries, txn)
    BY <1>1, <2>2, <2>3, TwoStay
  <2> QED BY <2>1, <2>2, <2>4
<1>6. ChecksStand'
  BY <1>5 DEF ChecksStand, Sees
<1> QED BY <1>4, <1>6

LEMMA BalanceStep ==
    BooksInv /\ DueFits /\ TrialBalance /\ ChecksStand /\ [Next]_vars
        => (TrialBalance /\ ChecksStand)'
<1> SUFFICES ASSUME BooksInv, DueFits, TrialBalance, ChecksStand, [Next]_vars
             PROVE  (TrialBalance /\ ChecksStand)'
  OBVIOUS
<1>1. /\ DOMAIN own = Sessions /\ DOMAIN due = Sessions
      /\ \A s \in Sessions : DOMAIN own[s] = {"accounts", "headers", "entries"}
  BY DEF BooksInv, AccountsInv, TypeOK, DueFits
<1>2. ASSUME NEW s \in Sessions, NEW to \in Statements, GoTo(s, to)
      PROVE  step'[s] = to /\ \A t \in Sessions \ {s} : step'[t] = step[t]
  BY <1>2, GoToStep DEF BooksInv, AccountsInv
<1>3. ASSUME NEW s \in Sessions, NEW to \in {"gone", "find"}, Rollback(s, to), UNCHANGED tables
      PROVE  (TrialBalance /\ ChecksStand)'
  <2>1. step'[s] = to /\ \A t \in Sessions \ {s} : step'[t] = step[t]
    BY <1>2, <1>3 DEF Rollback, Statements
  <2>2. \A t \in Sessions \ {s} : own'[t] = own[t] /\ due'[t] = due[t]
    BY <1>1, <1>3 DEF Rollback
  <2> QED BY <1>3, <2>1, <2>2, ChecksStay DEF tables
<1>4. ASSUME NEW s \in Sessions, NEW h, NEW rows, due' = [due EXCEPT ![s] = TxnsOf(rows)],
             own' = [own EXCEPT ![s].headers = h, ![s].entries = rows],
             GoTo(s, "commit"), UNCHANGED tables
      PROVE  (TrialBalance /\ ChecksStand)'
  <2>1. \A t \in Sessions \ {s} : step'[t] = step[t]
    BY <1>2, <1>4 DEF Statements
  <2>2. /\ own'[s].entries = rows /\ due'[s] = TxnsOf(rows)
        /\ \A t \in Sessions \ {s} : own'[t] = own[t] /\ due'[t] = due[t]
    BY <1>1, <1>4
  <2> QED BY <1>4, <2>1, <2>2, ChecksStay DEF tables
<1>5. ASSUME NEW s \in Sessions, NEW to \in {"insert", "reread", "post"}, GoTo(s, to),
             \A t \in Sessions \ {s} : own'[t] = own[t], UNCHANGED <<tables, due>>
      PROVE  (TrialBalance /\ ChecksStand)'
  <2>1. step'[s] = to /\ \A t \in Sessions \ {s} : step'[t] = step[t]
    BY <1>2, <1>5 DEF Statements
  <2> QED BY <1>5, <2>1, ChecksStay DEF tables
<1>6. ASSUME NEW j \in Jobs, Advance(j) PROVE (TrialBalance /\ ChecksStand)'
  <2>1. j \in Sessions
    BY JobsAreSessions
  <2>2. CASE FindAccount(j) \/ RereadAccount(j) \/ InsertAccount(j)
    <3>1. /\ UNCHANGED <<tables, due>> /\ \A t \in Sessions \ {j} : own'[t] = own[t]
          /\ \E to \in {"insert", "reread", "post"} : GoTo(j, to)
      BY <1>1, <2>1, <2>2 DEF FindAccount, RereadAccount, InsertAccount, Use
    <3> QED BY <1>5, <2>1, <3>1
  <2>3. CASE Post(j)
    BY <1>3, <1>4, <2>1, <2>3 DEF Post
  <2> QED BY <1>6, <2>2, <2>3 DEF Advance
<1>7. ASSUME NEW j \in Jobs, Abort(j) PROVE (TrialBalance /\ ChecksStand)'
  BY <1>3, <1>7, JobsAreSessions DEF Abort
<1>8. ASSUME NEW s \in Sessions, Commit(s) PROVE (TrialBalance /\ ChecksStand)'
  BY <1>8, CommitBalances
<1>9. ASSUME NEW s \in Sessions, NEW txn \in due[s], Check(s, txn)
      PROVE  (TrialBalance /\ ChecksStand)'
  <2>1. UNCHANGED tables
    BY <1>9 DEF Check
  <2>2. CASE Rollback(s, "gone")
    BY <1>3, <2>1, <2>2
  <2>3. CASE /\ MustBalance(txn, Sees(s).entries) /\ due' = [due EXCEPT ![s] = @ \ {txn}]
             /\ UNCHANGED <<step, own>>
    BY <2>1, <2>3, CheckStands
  <2> QED BY <1>9, <2>2, <2>3 DEF Check
<1>10. ASSUME NEW x \in Hands, NEW lines, Write(x, lines) PROVE (TrialBalance /\ ChecksStand)'
  BY <1>4, <1>10, JobsAreSessions DEF Write
<1>11. ASSUME NEW x \in Hands, NEW e, Mutate(x, e) PROVE (TrialBalance /\ ChecksStand)'
  BY <1>3, <1>11, JobsAreSessions DEF Mutate
<1>12. CASE UNCHANGED vars
  BY <1>12 DEF vars, tables, TrialBalance, ChecksStand, Sees
<1> QED BY <1>6, <1>7, <1>8, <1>9, <1>10, <1>11, <1>12 DEF Next

\* Every committed transaction sums to zero in each currency over at least two
\* entries, whoever wrote them and in whatever order sessions that add to the same
\* one run their deferred checks and commit (the ledger_constraints migration).
THEOREM LedgerBalances == Spec => []TrialBalance
<1>1. Init => TrialBalance /\ ChecksStand
  BY DEF Init, TrialBalance, ChecksStand
<1> QED BY <1>1, BalanceStep, BooksInvariance, DueInvariance, PTL DEF Spec
=============================================================================
