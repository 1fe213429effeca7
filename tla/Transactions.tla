---------------------------- MODULE Transactions ----------------------------
(***************************************************************************)
(* database/transaction.ts, and how the transactions it runs meet: at the  *)
(* row locks of the wallets, at the rows that number the references, and   *)
(* at the connection pool.  The other modules take a handler as one step;  *)
(* here it is a sequence of statements, with an await between any two of   *)
(* them, so that this module shows what the others assume.                 *)
(*                                                                         *)
(* A row is a number: for a wallet the balance that the statement changes, *)
(* for a row of reference_sequences its "seq".  PostgreSQL (READ           *)
(* COMMITTED, which nothing changes) and the pool of the pg driver (no     *)
(* timeout is set in data-source.ts) are modelled from how the code uses   *)
(* them.                                                                   *)
(***************************************************************************)
EXTENDS Integers, Sequences, FiniteSets

CONSTANTS
  Requests,        \* the handlers and jobs that run at a time
  Accounts,        \* wallet rows
  Counters,        \* rows (year, scope) of reference_sequences
  Opening,         \* the balances at the start
  ProgramsOf,      \* the functions a request may give to withTransaction
  MaxSeq,          \* the last number of a sequence: 999999
  MaxConnections,  \* connections in the pool
  Nobody           \* the owner of a row that nobody has locked

Rows == Accounts \cup Counters

\* What a SELECT of a row that is not there returns.
Absent == -1

\* by is what an UPDATE adds, the amount of its ledger row; an "open" is a
\* withTransaction within another and "close" the end of the inner one.
Statement ==
  [op : {"select", "insert", "update", "open", "close"},
   row : Rows \cup {Nobody},
   by : Int]

ASSUME TransactionsAssumption ==
  /\ Nobody \notin Requests
  /\ Accounts \cap Counters = {}
  /\ Nobody \notin Rows
  /\ Opening \in [Accounts -> Nat]
  /\ ProgramsOf \in [Requests -> SUBSET Seq(Statement)]
  /\ MaxSeq \in Nat
  /\ MaxConnections \in Nat \ {0}
  /\ IsFiniteSet(Requests)

\* An inner transaction ends, and opens no other one.
ASSUME OneLevelAssumption ==
  \A t \in Requests : \A p \in ProgramsOf[t] : \A i \in DOMAIN p :
    p[i].op = "open" =>
      \E k \in DOMAIN p :
        /\ i < k /\ p[k].op = "close"
        /\ \A j \in DOMAIN p : i < j /\ j < k => p[j].op # "open"

\* What reads or writes names its row.
ASSUME RowsAssumption ==
  \A t \in Requests : \A p \in ProgramsOf[t] : \A i \in DOMAIN p :
    p[i].op \in {"select", "insert", "update"} => p[i].row \in Rows

-----------------------------------------------------------------------------
(* The functions given to withTransaction, as sequences of statements.     *)

Select(r) == [op |-> "select", row |-> r, by |-> 0]

InsertIfAbsent(r) == [op |-> "insert", row |-> r, by |-> 0]

Update(r, by) == [op |-> "update", row |-> r, by |-> by]

\* As NextReference, in a transaction of its own.
NextReferenceOnItsOwn(c) ==
  << [op |-> "open", row |-> Nobody, by |-> 0] >>
    \o << Select(c), InsertIfAbsent(c), Update(c, 1) >>
    \o << [op |-> "close", row |-> Nobody, by |-> 0] >>

NextReference(c) == << Select(c), InsertIfAbsent(c), Update(c, 1) >>

\* credit and debit (by negative) that draw a reference, or are given one.
ChangeBalance(w, by, c) == << Select(w), Update(w, by) >> \o NextReference(c)

ChangeBalanceFor(w, by) == << Select(w), Update(w, by) >>

TransferFromLocked(from, to, a) ==
  << Select(from), Select(to), Update(from, -a), Update(to, a) >>

\* sellerConfirmTrade: the naira first, then the foreign currency.
SettleTrade(buyerNgn, sellerNgn, sellerFc, buyerFc, ngn, fc) ==
  TransferFromLocked(buyerNgn, sellerNgn, ngn)
    \o TransferFromLocked(sellerFc, buyerFc, fc)

\* executeQuote.
Convert(from, to, a, b, c) == ChangeBalance(from, -a, c) \o ChangeBalance(to, b, c)

\* listReliabilityEvents, and the checks of the anomaly detector: a
\* withTransaction (listIncidents, createReliabilityEvent) inside another.
TransactionWithin ==
  << [op |-> "open", row |-> Nobody, by |-> 0],
     [op |-> "close", row |-> Nobody, by |-> 0] >>

-----------------------------------------------------------------------------
VARIABLES
  table,    \* the committed rows
  posted,   \* what the committed ledger rows and references of a row add up to
  holder,   \* who has locked a row
  view,     \* view[t][r]: the row as t has read or written it
  gain,     \* gain[t][r]: what t has added to it so far
  phase,    \* where withTransaction is
  program,  \* the function it was given
  at,       \* the statement that comes next
  pool      \* <<t, 1>>: the connection of t, <<t, 2>>: of its inner transaction

vars == << table, posted, holder, view, gain, phase, program, at, pool >>

Phases == {"idle", "connecting", "running", "ending", "done"}

TypeOK ==
  /\ table \in [Rows -> Int]
  /\ \A w \in Accounts : table[w] >= 0
  /\ \A c \in Counters : table[c] \in Absent .. MaxSeq
  /\ posted \in [Rows -> Int]
  /\ holder \in [Rows -> Requests \cup {Nobody}]
  /\ view \in [Requests -> [Rows -> Int]]
  /\ gain \in [Requests -> [Rows -> Int]]
  /\ phase \in [Requests -> Phases]
  /\ program \in [Requests -> Seq(Statement)]
  /\ at \in [Requests -> Nat \ {0}]
  /\ pool \in SUBSET (Requests \X {1, 2})

Init ==
  /\ table = [r \in Rows |-> IF r \in Accounts THEN Opening[r] ELSE Absent]
  /\ posted = [r \in Rows |-> 0]
  /\ holder = [r \in Rows |-> Nobody]
  /\ view = [t \in Requests |-> [r \in Rows |-> Absent]]
  /\ gain = [t \in Requests |-> [r \in Rows |-> 0]]
  /\ phase = [t \in Requests |-> "idle"]
  /\ program = [t \in Requests |-> << >>]
  /\ at = [t \in Requests |-> 1]
  /\ pool = {}

-----------------------------------------------------------------------------
PoolIsFull == Cardinality(pool) = MaxConnections

\* The requests that open a transaction within another.
Nesting ==
  {t \in Requests : \E p \in ProgramsOf[t] : \E i \in DOMAIN p : p[i].op = "open"}

\* The statement t has come to is an o.
AtOp(t, o) ==
  /\ phase[t] = "running"
  /\ at[t] \in DOMAIN program[t]
  /\ program[t][at[t]].op = o

RowOf(t) == program[t][at[t]].row

ByOf(t) == program[t][at[t]].by

HeldByOther(t, r) == holder[r] \notin {Nobody, t}

\* As Accepted, without the check of the available balance.
AcceptedUnchecked(t, r, by) ==
  view[t][r] # Absent /\ (r \in Counters => view[t][r] + by <= MaxSeq)

\* The new contents are checked before the UPDATE is sent: a balance does not
\* go below zero, a sequence does not go past its last number, and a row that
\* was not found is an error.
Accepted(t, r, by) ==
  /\ view[t][r] # Absent
  /\ IF r \in Counters
     THEN by >= 0 /\ view[t][r] + by <= MaxSeq
     ELSE view[t][r] + by >= 0

\* SELECT ... FOR UPDATE sees no row that is not committed, and waits for one
\* that another transaction has locked.
AwaitsRow(t) ==
  \/ AtOp(t, "select") /\ table[RowOf(t)] # Absent /\ HeldByOther(t, RowOf(t))
  \/ /\ AtOp(t, "insert")
     /\ view[t][RowOf(t)] = Absent
     /\ HeldByOther(t, RowOf(t))
  \/ /\ AtOp(t, "update")
     /\ Accepted(t, RowOf(t), ByOf(t))
     /\ HeldByOther(t, RowOf(t))

AwaitsConnection(t) == AtOp(t, "open") /\ PoolIsFull

\* Each of the waiting transactions of W waits for one of them and keeps one
\* of them waiting: what PostgreSQL looks for after deadlock_timeout.
WaitInCircle(W) ==
  /\ \A t \in W : AwaitsRow(t) /\ holder[RowOf(t)] \in W
  /\ \A t \in W : \E u \in W : holder[RowOf(u)] = t

Deadlocked(t) == \E W \in SUBSET Requests : t \in W /\ WaitInCircle(W)

\* The next statement cannot but throw.
MustThrow(t) ==
  \/ AtOp(t, "update") /\ ~Accepted(t, RowOf(t), ByOf(t))
  \/ /\ AtOp(t, "insert")                     \* unique_violation
     /\ view[t][RowOf(t)] = Absent
     /\ holder[RowOf(t)] = Nobody
     /\ table[RowOf(t)] # Absent
  \/ Deadlocked(t)

-----------------------------------------------------------------------------
Begin(t) ==
  /\ phase[t] = "idle"
  /\ \E p \in ProgramsOf[t] : program' = [program EXCEPT ![t] = p]
  /\ phase' = [phase EXCEPT ![t] = "connecting"]
  /\ UNCHANGED << table, posted, holder, view, gain, at, pool >>

\* createQueryRunner, connect, startTransaction.
Connect(t) ==
  /\ phase[t] = "connecting"
  /\ ~PoolIsFull
  /\ pool' = pool \cup {<<t, 1>>}
  /\ phase' = [phase EXCEPT ![t] = "running"]
  /\ UNCHANGED << table, posted, holder, view, gain, program, at >>

NextStatement(t) ==
  /\ at' = [at EXCEPT ![t] = @ + 1]
  /\ UNCHANGED << table, posted, phase, program >>

\* As Reads, without FOR UPDATE.
ReadsUnlocked(t, r) ==
  /\ view' = [view EXCEPT ![t][r] = IF holder[r] = t THEN @ ELSE table[r]]
  /\ UNCHANGED holder

\* A row that is there is locked for t.  What t has written itself it sees.
Reads(t, r) ==
  IF holder[r] # t /\ table[r] = Absent
  THEN UNCHANGED << view, holder >>
  ELSE /\ ~HeldByOther(t, r)
       /\ view' = [view EXCEPT ![t][r] = IF holder[r] = t THEN @ ELSE table[r]]
       /\ holder' = [holder EXCEPT ![r] = t]

DoSelect(t) ==
  /\ AtOp(t, "select")
  /\ Reads(t, RowOf(t))
  /\ NextStatement(t)
  /\ UNCHANGED << gain, pool >>

\* As Inserts, with ON CONFLICT DO NOTHING.
InsertsOrIgnores(t, r) ==
  IF view[t][r] # Absent
  THEN UNCHANGED << view, holder >>
  ELSE /\ ~HeldByOther(t, r)
       /\ view' = [view EXCEPT ![t][r] = 0]
       /\ holder' = [holder EXCEPT ![r] = t]

\* The INSERT of nextReference runs when its SELECT found nothing; it waits
\* for another one of the same key that is not committed.
Inserts(t, r) ==
  IF view[t][r] # Absent
  THEN UNCHANGED << view, holder >>
  ELSE /\ holder[r] = Nobody
       /\ table[r] = Absent
       /\ view' = [view EXCEPT ![t][r] = 0]
       /\ holder' = [holder EXCEPT ![r] = t]

DoInsert(t) ==
  /\ AtOp(t, "insert")
  /\ Inserts(t, RowOf(t))
  /\ NextStatement(t)
  /\ UNCHANGED << gain, pool >>

\* The new value is computed from what t has read.
DoUpdate(t) ==
  /\ AtOp(t, "update")
  /\ Accepted(t, RowOf(t), ByOf(t))
  /\ ~HeldByOther(t, RowOf(t))
  /\ holder' = [holder EXCEPT ![RowOf(t)] = t]
  /\ view' = [view EXCEPT ![t][RowOf(t)] = @ + ByOf(t)]
  /\ gain' = [gain EXCEPT ![t][RowOf(t)] = @ + ByOf(t)]
  /\ NextStatement(t)
  /\ UNCHANGED pool

\* The inner withTransaction has a connection of its own.
DoOpen(t) ==
  /\ AtOp(t, "open")
  /\ ~PoolIsFull
  /\ pool' = pool \cup {<<t, 2>>}
  /\ NextStatement(t)
  /\ UNCHANGED << holder, view, gain >>

DoClose(t) ==
  /\ AtOp(t, "close")
  /\ pool' = pool \ {<<t, 2>>}
  /\ NextStatement(t)
  /\ UNCHANGED << holder, view, gain >>

Unlock(t) ==
  /\ holder' = [r \in Rows |-> IF holder[r] = t THEN Nobody ELSE holder[r]]
  /\ view' = [view EXCEPT ![t] = [r \in Rows |-> Absent]]
  /\ gain' = [gain EXCEPT ![t] = [r \in Rows |-> 0]]

Commit(t) ==
  /\ phase[t] = "running"
  /\ at[t] \notin DOMAIN program[t]
  /\ table' = [r \in Rows |-> IF holder[r] = t THEN view[t][r] ELSE table[r]]
  /\ posted' = [r \in Rows |-> posted[r] + gain[t][r]]
  /\ Unlock(t)
  /\ phase' = [phase EXCEPT ![t] = "ending"]
  /\ UNCHANGED << program, at, pool >>

\* As Rollback, but the handler catches the error and the work done so far is
\* committed.
RollbackOfTheRest(t) ==
  /\ phase[t] = "running"
  /\ table' = [r \in Rows |-> IF holder[r] = t THEN view[t][r] ELSE table[r]]
  /\ posted' = [r \in Rows |-> posted[r] + gain[t][r]]
  /\ Unlock(t)
  /\ pool' = pool \ {<<t, 2>>}
  /\ phase' = [phase EXCEPT ![t] = "ending"]
  /\ UNCHANGED << program, at >>

\* As Rollback, without the finally: the connection is not given back.
RollbackKeepingConnection(t) ==
  /\ phase[t] = "running"
  /\ Unlock(t)
  /\ pool' = pool \ {<<t, 2>>}
  /\ phase' = [phase EXCEPT ![t] = "done"]
  /\ UNCHANGED << table, posted, program, at >>

\* Whatever throws, an error of the code, of the database or of a call in
\* between: an inner transaction ends first, then the outer one.
Rollback(t) ==
  /\ phase[t] = "running"
  /\ Unlock(t)
  /\ pool' = pool \ {<<t, 2>>}
  /\ phase' = [phase EXCEPT ![t] = "ending"]
  /\ UNCHANGED << table, posted, program, at >>

\* finally: release.
Release(t) ==
  /\ phase[t] = "ending"
  /\ pool' = pool \ {<<t, 1>>}
  /\ phase' = [phase EXCEPT ![t] = "done"]
  /\ UNCHANGED << table, posted, holder, view, gain, program, at >>

\* All requests are answered.
AllDone ==
  /\ \A t \in Requests : phase[t] = "done"
  /\ UNCHANGED vars

Advance(t) ==
  \/ Connect(t) \/ DoSelect(t) \/ DoInsert(t) \/ DoUpdate(t)
  \/ DoOpen(t) \/ DoClose(t) \/ Commit(t) \/ Release(t)

Next == (\E t \in Requests : Begin(t) \/ Advance(t) \/ Rollback(t)) \/ AllDone

Spec == Init /\ [][Next]_vars

\* The event loop goes on with a statement that the database answers and with
\* a connection that is free; what must throw does, a deadlock included.  That
\* anything else throws is never owed.
Fairness ==
  \A t \in Requests :
    WF_vars(Advance(t)) /\ WF_vars(MustThrow(t) /\ Rollback(t))

FairSpec == Spec /\ Fairness

-----------------------------------------------------------------------------
\* What a row amounts to.
Amount(v) == IF v = Absent THEN 0 ELSE v

\* No lost update: a balance is what it was at the start and everything that
\* the committed ledger rows say was added since, although every new balance is
\* computed in JavaScript from one read before (walletService.ts).
NothingLost ==
  \A w \in Accounts : table[w] = Opening[w] + posted[w]

\* As many references as were handed out by transactions that committed, so
\* no two of them got the same number, not even the first two of a year, and
\* never one past the end of the sequence (referenceService.ts).
ReferencesUnique ==
  \A c \in Counters : Amount(table[c]) = posted[c] /\ posted[c] <= MaxSeq

\* The pool is never used up by transactions that all wait for a second
\* connection: nobody would ever give one back (database/transaction.ts called
\* within a function given to database/transaction.ts).
PoolNeverStuck ==
  PoolIsFull =>
    \E t \in Requests : <<t, 1>> \in pool /\ ~AwaitsConnection(t)

\* Every request that has asked for a transaction gets one, and it ends, by
\* commit or by rollback, with its connection given back: no circle of locks
\* and no empty pool keeps it waiting for ever.
EveryTransactionEnds ==
  \A t \in Requests : phase[t] = "connecting" ~> phase[t] = "done"

\* Contents the checks before an UPDATE let pass.
AlwaysFits(r, v) == IF r \in Counters THEN v <= MaxSeq ELSE v >= 0

Alone == INSTANCE Serial WITH
           Programs <- UNION {ProgramsOf[t] : t \in Requests},
           Fits <- AlwaysFits

\* Refinement: however the statements of several transactions interleave and
\* whichever of them fail, the committed rows change as if one function given
\* to withTransaction had run after the other (database/transaction.ts).
RunsSerially == Alone!SerialSpec
=============================================================================
