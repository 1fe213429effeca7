------------------------ MODULE TransactionsTheorems ------------------------
(***************************************************************************)
(* Proofs about Transactions.  The invariant: a row is locked exactly by   *)
(* the running transaction that has it in view, what it sees is what is    *)
(* committed and what it has added itself, and what is committed is        *)
(* accounted for.  A lock that SELECT did not take would break the second  *)
(* part as soon as another transaction commits.  The last part shows that  *)
(* the module implements Serial.                                           *)
(***************************************************************************)
EXTENDS Transactions, TableTheorems

\* What a row amounts to at the start.
Start(r) == IF r \in Accounts THEN Opening[r] ELSE 0

\* Contents a row may have.
InRange(r, v) == IF r \in Counters THEN 0 <= v /\ v <= MaxSeq ELSE 0 <= v

LockedByRunning ==
  \A t \in Requests, r \in Rows : holder[r] = t => phase[t] = "running"

InViewIffLocked ==
  \A t \in Requests, r \in Rows :
    IF holder[r] = t THEN InRange(r, view[t][r]) ELSE view[t][r] = Absent

ViewIsCurrent ==
  \A t \in Requests, r \in Rows :
    IF holder[r] = t
    THEN view[t][r] = Amount(table[r]) + gain[t][r]
    ELSE gain[t][r] = 0

Accounted == \A r \in Rows : Amount(table[r]) = Start(r) + posted[r]

IInv == TypeOK /\ LockedByRunning /\ InViewIffLocked /\ ViewIsCurrent /\ Accounted

\* Rows and statements have the types the module assumes.
LEMMA StatementHere ==
  ASSUME TypeOK, NEW t \in Requests, NEW o, AtOp(t, o)
  PROVE  /\ program[t][at[t]] \in Statement
         /\ at[t] \in Nat /\ at[t] + 1 \in Nat \ {0}
         /\ RowOf(t) \in Rows \cup {Nobody} /\ ByOf(t) \in Int
  <1>1. program[t] \in Seq(Statement) /\ at[t] \in DOMAIN program[t]
        /\ at[t] \in Nat \ {0}
    BY DEF TypeOK, AtOp
  <1>2. program[t][at[t]] \in Statement
    BY <1>1
  <1> QED
    BY <1>1, <1>2 DEF Statement, RowOf, ByOf

LEMMA ConstantFacts ==
  /\ Nobody \notin Requests /\ Nobody \notin Rows /\ Accounts \cap Counters = {}
  /\ Accounts \subseteq Rows /\ Counters \subseteq Rows
  /\ \A r \in Rows : r \in Accounts \/ r \in Counters
  /\ \A r \in Rows : Start(r) \in Nat
  /\ MaxSeq \in Nat
  BY TransactionsAssumption DEF Rows, Start

LEMMA InitIInv == Init => IInv
  <1> SUFFICES ASSUME Init PROVE IInv
    OBVIOUS
  <1> USE ConstantFacts
  <1>1. TypeOK
    <2>1. table \in [Rows -> Int] /\ (\A w \in Accounts : table[w] >= 0)
          /\ \A c \in Counters : table[c] \in Absent .. MaxSeq
      BY TransactionsAssumption DEF Init, Absent
    <2>2. program \in [Requests -> Seq(Statement)]
      BY DEF Init
    <2>3. /\ view \in [Requests -> [Rows -> Int]]
          /\ gain \in [Requests -> [Rows -> Int]]
      BY DEF Init, Absent
    <2>4. /\ posted \in [Rows -> Int] /\ holder \in [Rows -> Requests \cup {Nobody}]
          /\ phase \in [Requests -> Phases] /\ at \in [Requests -> Nat \ {0}]
          /\ pool \in SUBSET (Requests \X {1, 2})
      BY DEF Init, Phases
    <2> QED
      BY <2>1, <2>2, <2>3, <2>4 DEF TypeOK
  <1>2. LockedByRunning /\ InViewIffLocked /\ ViewIsCurrent
    BY DEF Init, LockedByRunning, InViewIffLocked, ViewIsCurrent
  <1>3. Accounted
    BY TransactionsAssumption DEF Init, Accounted, Amount, Start, Absent
  <1> QED
    BY <1>1, <1>2, <1>3 DEF IInv

-----------------------------------------------------------------------------
\* A statement leaves what is committed alone.
LEMMA StatementKeepsTables ==
  ASSUME IInv, NEW t \in Requests, NEW o, AtOp(t, o), NextStatement(t),
         holder' \in [Rows -> Requests \cup {Nobody}],
         view' \in [Requests -> [Rows -> Int]],
         gain' \in [Requests -> [Rows -> Int]],
         pool' \in SUBSET (Requests \X {1, 2}),
         \A u \in Requests, r \in Rows :
           IF holder'[r] = u
           THEN /\ InRange(r, view'[u][r])
                /\ view'[u][r] = Amount(table[r]) + gain'[u][r]
                /\ phase[u] = "running"
           ELSE view'[u][r] = Absent /\ gain'[u][r] = 0
  PROVE  IInv'
  <1>1. at' \in [Requests -> Nat \ {0}]
    BY StatementHere DEF IInv, TypeOK, NextStatement
  <1>2. TypeOK'
    BY <1>1 DEF IInv, TypeOK, NextStatement
  <1>3. /\ LockedByRunning' /\ InViewIffLocked' /\ ViewIsCurrent' /\ Accounted'
    BY DEF IInv, NextStatement, LockedByRunning, InViewIffLocked, ViewIsCurrent,
           Accounted, Amount, InRange
  <1> QED
    BY <1>2, <1>3 DEF IInv

\* The end of a transaction leaves nothing locked.
LEMMA UnlockedAfter ==
  ASSUME IInv, NEW t \in Requests, Unlock(t)
  PROVE  /\ holder' \in [Rows -> Requests \cup {Nobody}]
         /\ view' \in [Requests -> [Rows -> Int]]
         /\ gain' \in [Requests -> [Rows -> Int]]
         /\ \A r \in Rows : /\ holder'[r] # t
                            /\ view'[t][r] = Absent /\ gain'[t][r] = 0
         /\ \A u \in Requests \ {t}, r \in Rows :
              /\ view'[u][r] = view[u][r] /\ gain'[u][r] = gain[u][r]
              /\ holder'[r] = u <=> holder[r] = u
  BY ConstantFacts DEF IInv, TypeOK, Unlock, Absent

LEMMA OthersUnmoved ==
  ASSUME IInv, NEW t \in Requests, Unlock(t), phase' = [phase EXCEPT ![t] = "ending"]
  PROVE  /\ LockedByRunning' /\ InViewIffLocked'
         /\ table' = table => ViewIsCurrent'
  <1>1. ASSUME NEW u \in Requests, NEW r \in Rows
        PROVE  /\ holder'[r] = u => phase'[u] = "running"
               /\ IF holder'[r] = u THEN InRange(r, view'[u][r])
                                    ELSE view'[u][r] = Absent
               /\ table' = table =>
                    IF holder'[r] = u
                    THEN view'[u][r] = Amount(table'[r]) + gain'[u][r]
                    ELSE gain'[u][r] = 0
    <2>1. CASE u = t
      BY <2>1, UnlockedAfter
    <2>2. CASE u # t
      <3>1. /\ holder[r] = u => phase[u] = "running"
            /\ IF holder[r] = u THEN InRange(r, view[u][r]) ELSE view[u][r] = Absent
            /\ IF holder[r] = u
               THEN view[u][r] = Amount(table[r]) + gain[u][r] ELSE gain[u][r] = 0
        BY DEF IInv, LockedByRunning, InViewIffLocked, ViewIsCurrent
      <3>2. phase'[u] = phase[u]
        BY <2>2 DEF IInv, TypeOK
      <3> QED
        BY <2>2, <3>1, <3>2, UnlockedAfter
    <2> QED
      BY <2>1, <2>2
  <1> QED
    BY <1>1 DEF LockedByRunning, InViewIffLocked, ViewIsCurrent, Amount, InRange

\* ... and nothing of it in what the others see.
LEMMA RollbackKeeps ==
  ASSUME IInv, NEW t \in Requests, Rollback(t)
  PROVE  IInv'
  <1>1. TypeOK'
    BY UnlockedAfter DEF IInv, TypeOK, Rollback, Phases
  <1>2. LockedByRunning' /\ InViewIffLocked' /\ ViewIsCurrent'
    BY OthersUnmoved DEF Rollback, Amount, ViewIsCurrent, IInv, LockedByRunning
  <1>3. Accounted'
    BY DEF IInv, Rollback, Accounted, Amount
  <1> QED
    BY <1>1, <1>2, <1>3 DEF IInv

LEMMA CommitKeeps ==
  ASSUME IInv, NEW t \in Requests, Commit(t)
  PROVE  IInv'
  <1> USE ConstantFacts
  <1>1. \A r \in Rows : holder[r] = t =>
          /\ InRange(r, view[t][r]) /\ table'[r] = view[t][r]
          /\ view[t][r] = Amount(table[r]) + gain[t][r]
          /\ posted'[r] = posted[r] + gain[t][r]
    BY DEF IInv, Commit, InViewIffLocked, ViewIsCurrent
  <1>2. \A r \in Rows : holder[r] # t =>
          table'[r] = table[r] /\ posted'[r] = posted[r]
    <2>1. \A r \in Rows : holder[r] # t => gain[t][r] = 0
      BY DEF IInv, ViewIsCurrent
    <2> QED
      BY <2>1 DEF IInv, TypeOK, Commit
  <1>3. \A r \in Rows : view[t][r] \in Int /\ table[r] \in Int /\ gain[t][r] \in Int
                        /\ posted[r] \in Int
    BY DEF IInv, TypeOK
  <1>4. TypeOK'
    <2>1. table' \in [Rows -> Int] /\ posted' \in [Rows -> Int]
      BY <1>3 DEF Commit
    <2>2. \A w \in Accounts : table'[w] >= 0
      BY <1>1, <1>2 DEF IInv, TypeOK, InRange
    <2>3. \A c \in Counters : table'[c] \in Absent .. MaxSeq
      <3> SUFFICES ASSUME NEW c \in Counters PROVE table'[c] \in Absent .. MaxSeq
        OBVIOUS
      <3>1. CASE holder[c] = t
        BY <3>1, <1>1, <1>3 DEF InRange, Absent
      <3>2. CASE holder[c] # t
        BY <3>2, <1>2 DEF IInv, TypeOK
      <3> QED
        BY <3>1, <3>2
    <2> QED
      BY <2>1, <2>2, <2>3, UnlockedAfter DEF IInv, TypeOK, Commit, Phases
  <1>5. LockedByRunning' /\ InViewIffLocked'
    BY OthersUnmoved DEF Commit
  <1>6. ViewIsCurrent'
    <2> SUFFICES ASSUME NEW u \in Requests, NEW r \in Rows
                 PROVE  IF holder'[r] = u
                        THEN view'[u][r] = Amount(table'[r]) + gain'[u][r]
                        ELSE gain'[u][r] = 0
      BY DEF ViewIsCurrent, Amount
    <2>1. CASE u = t
      BY <2>1, UnlockedAfter DEF Commit
    <2>2. CASE u # t
      BY <2>2, <1>2, UnlockedAfter DEF Commit, IInv, ViewIsCurrent
    <2> QED
      BY <2>1, <2>2
  <1>7. Accounted'
    <2> SUFFICES ASSUME NEW r \in Rows
                 PROVE  Amount(table'[r]) = Start(r) + posted'[r]
      BY DEF Accounted, Amount, Start
    <2>1. Amount(table[r]) = Start(r) + posted[r]
      BY DEF IInv, Accounted
    <2>2. CASE holder[r] = t
      <3>1. Amount(table'[r]) = view[t][r]
        BY <2>2, <1>1, <1>3 DEF Amount, InRange, Absent
      <3>2. Amount(table[r]) \in Int /\ Start(r) \in Int
        BY <1>3 DEF Amount
      <3> QED
        BY <2>1, <2>2, <3>1, <3>2, <1>1, <1>3
    <2>3. CASE holder[r] # t
      BY <2>1, <2>3, <1>2
    <2> QED
      BY <2>2, <2>3
  <1> QED
    BY <1>4, <1>5, <1>6, <1>7 DEF IInv

LEMMA SameLocksKeep ==
  ASSUME IInv, NEW t \in Requests, NEW o, AtOp(t, o), NextStatement(t),
         UNCHANGED << holder, view, gain >>, pool' \in SUBSET (Requests \X {1, 2})
  PROVE  IInv'
  <1>1. ASSUME NEW u \in Requests, NEW r \in Rows
        PROVE  IF holder'[r] = u
               THEN /\ InRange(r, view'[u][r]) /\ phase[u] = "running"
                    /\ view'[u][r] = Amount(table[r]) + gain'[u][r]
               ELSE view'[u][r] = Absent /\ gain'[u][r] = 0
    BY DEF IInv, LockedByRunning, InViewIffLocked, ViewIsCurrent
  <1>2. /\ holder' \in [Rows -> Requests \cup {Nobody}]
        /\ view' \in [Requests -> [Rows -> Int]]
        /\ gain' \in [Requests -> [Rows -> Int]]
    BY DEF IInv, TypeOK
  <1> QED
    BY <1>1, <1>2, StatementKeepsTables

LEMMA SelectKeeps ==
  ASSUME IInv, NEW t \in Requests, DoSelect(t)
  PROVE  IInv'
  <1> DEFINE r == RowOf(t)
  <1> USE ConstantFacts
  <1>1. /\ AtOp(t, "select") /\ NextStatement(t) /\ gain' = gain /\ pool' = pool
        /\ Reads(t, r) /\ phase[t] = "running"
    BY DEF DoSelect, AtOp
  <1>2. r \in Rows \cup {Nobody}
    BY <1>1, StatementHere DEF IInv
  <1>3. CASE UNCHANGED << view, holder >>
    BY <1>1, <1>3, SameLocksKeep DEF IInv, TypeOK
  <1>4. CASE /\ ~HeldByOther(t, r)
             /\ view' = [view EXCEPT ![t][r] = IF holder[r] = t THEN @ ELSE table[r]]
             /\ holder' = [holder EXCEPT ![r] = t]
             /\ holder[r] = t \/ table[r] # Absent
    <2> HIDE DEF r
    <2>1. CASE r = Nobody
      <3>1. UNCHANGED << view, holder >>
        BY <1>4, <2>1 DEF IInv, TypeOK
      <3> QED
        BY <1>3, <3>1
    <2>2. CASE r \in Rows
      <3>1. /\ holder' \in [Rows -> Requests \cup {Nobody}]
            /\ view' \in [Requests -> [Rows -> Int]]
        BY <1>4, <2>2 DEF IInv, TypeOK
      <3>2. holder[r] # t => holder[r] = Nobody
        BY <1>4 DEF HeldByOther
      <3>3. ASSUME NEW u \in Requests, NEW q \in Rows
            PROVE  IF holder'[q] = u
                   THEN /\ InRange(q, view'[u][q])
                        /\ view'[u][q] = Amount(table[q]) + gain'[u][q]
                        /\ phase[u] = "running"
                   ELSE view'[u][q] = Absent /\ gain'[u][q] = 0
        <4>1. IF holder[q] = u
              THEN /\ InRange(q, view[u][q]) /\ phase[u] = "running"
                   /\ view[u][q] = Amount(table[q]) + gain[u][q]
              ELSE view[u][q] = Absent /\ gain[u][q] = 0
          BY DEF IInv, LockedByRunning, InViewIffLocked, ViewIsCurrent
        <4>2. CASE q = r /\ holder[r] # t
          <5>1. InRange(r, table[r]) /\ table[r] = Amount(table[r]) + 0
            BY <1>4, <4>2, <2>2 DEF IInv, TypeOK, InRange, Amount, Absent
          <5>2. u = t => view'[u][q] = table[r] /\ gain'[u][q] = 0 /\ holder'[q] = t
            BY <1>1, <1>4, <4>1, <4>2 DEF IInv, TypeOK
          <5>3. u # t => view'[u][q] = view[u][q] /\ gain'[u][q] = gain[u][q]
                         /\ holder'[q] = t /\ holder[q] # u
            BY <1>1, <1>4, <4>2, <3>2 DEF IInv, TypeOK
          <5> QED
            BY <4>1, <4>2, <5>1, <5>2, <5>3, <1>1
        <4>3. CASE q # r \/ holder[r] = t
          <5>1. view'[u][q] = view[u][q] /\ gain'[u][q] = gain[u][q]
                /\ holder'[q] = holder[q]
            BY <1>1, <1>4, <4>3 DEF IInv, TypeOK
          <5> QED
            BY <4>1, <5>1
        <4> QED
          BY <4>2, <4>3
      <3> QED
        BY <1>1, <3>1, <3>3, StatementKeepsTables DEF IInv, TypeOK
    <2> QED
      BY <1>2, <2>1, <2>2
  <1> QED
    BY <1>1, <1>3, <1>4 DEF Reads

LEMMA InsertKeeps ==
  ASSUME IInv, NEW t \in Requests, DoInsert(t)
  PROVE  IInv'
  <1> DEFINE r == RowOf(t)
  <1> USE ConstantFacts
  <1>1. /\ AtOp(t, "insert") /\ NextStatement(t) /\ gain' = gain /\ pool' = pool
        /\ Inserts(t, r) /\ phase[t] = "running" /\ r \in Rows \cup {Nobody}
    BY StatementHere DEF DoInsert, AtOp, IInv
  <1>2. CASE UNCHANGED << view, holder >>
    BY <1>1, <1>2, SameLocksKeep DEF IInv, TypeOK
  <1>3. CASE /\ holder[r] = Nobody /\ table[r] = Absent
             /\ view' = [view EXCEPT ![t][r] = 0]
             /\ holder' = [holder EXCEPT ![r] = t]
    <2> HIDE DEF r
    <2>1. CASE r = Nobody
      <3>1. UNCHANGED << view, holder >>
        BY <1>3, <2>1 DEF IInv, TypeOK
      <3> QED
        BY <1>2, <3>1
    <2>2. CASE r \in Rows
      <3>1. /\ holder' \in [Rows -> Requests \cup {Nobody}]
            /\ view' \in [Requests -> [Rows -> Int]]
        BY <1>3, <2>2 DEF IInv, TypeOK
      <3>2. ASSUME NEW u \in Requests, NEW q \in Rows
            PROVE  IF holder'[q] = u
                   THEN /\ InRange(q, view'[u][q])
                        /\ view'[u][q] = Amount(table[q]) + gain'[u][q]
                        /\ phase[u] = "running"
                   ELSE view'[u][q] = Absent /\ gain'[u][q] = 0
        <4>1. IF holder[q] = u
              THEN /\ InRange(q, view[u][q]) /\ phase[u] = "running"
                   /\ view[u][q] = Amount(table[q]) + gain[u][q]
              ELSE view[u][q] = Absent /\ gain[u][q] = 0
          BY DEF IInv, LockedByRunning, InViewIffLocked, ViewIsCurrent
        <4>2. CASE q = r
          <5>1. InRange(r, 0) /\ 0 = Amount(table[r]) + 0
            BY <1>3 DEF InRange, Amount
          <5>2. u = t => view'[u][q] = 0 /\ gain'[u][q] = 0 /\ holder'[q] = t
            BY <1>1, <1>3, <4>1, <4>2 DEF IInv, TypeOK
          <5>3. u # t => view'[u][q] = view[u][q] /\ gain'[u][q] = gain[u][q]
                         /\ holder'[q] = t /\ holder[q] # u
            BY <1>1, <1>3, <4>2 DEF IInv, TypeOK
          <5> QED
            BY <4>1, <4>2, <5>1, <5>2, <5>3, <1>1
        <4>3. CASE q # r
          <5>1. view'[u][q] = view[u][q] /\ gain'[u][q] = gain[u][q]
                /\ holder'[q] = holder[q]
            BY <1>1, <1>3, <4>3 DEF IInv, TypeOK
          <5> QED
            BY <4>1, <5>1
        <4> QED
          BY <4>2, <4>3
      <3> QED
        BY <1>1, <3>1, <3>2, StatementKeepsTables DEF IInv, TypeOK
    <2> QED
      BY <1>1, <2>1, <2>2
  <1> QED
    BY <1>1, <1>2, <1>3 DEF Inserts

LEMMA UpdateKeeps ==
  ASSUME IInv, NEW t \in Requests, DoUpdate(t)
  PROVE  IInv'
  <1> DEFINE r == RowOf(t)
             by == ByOf(t)
  <1> USE ConstantFacts
  <1>1. /\ AtOp(t, "update") /\ NextStatement(t) /\ pool' = pool
        /\ Accepted(t, r, by) /\ ~HeldByOther(t, r)
        /\ holder' = [holder EXCEPT ![r] = t]
        /\ view' = [view EXCEPT ![t][r] = @ + by]
        /\ gain' = [gain EXCEPT ![t][r] = @ + by]
        /\ phase[t] = "running" /\ r \in Rows \cup {Nobody} /\ by \in Int
    BY StatementHere DEF DoUpdate, AtOp, IInv
  <1> HIDE DEF r, by
  <1>2. CASE r = Nobody
    <2>1. UNCHANGED << holder, view, gain >>
      BY <1>1, <1>2 DEF IInv, TypeOK
    <2> QED
      BY <1>1, <2>1, SameLocksKeep DEF IInv, TypeOK
  <1>3. CASE r \in Rows
    <2>1. /\ holder' \in [Rows -> Requests \cup {Nobody}]
          /\ view' \in [Requests -> [Rows -> Int]]
          /\ gain' \in [Requests -> [Rows -> Int]]
      BY <1>1, <1>3 DEF IInv, TypeOK
    <2>2. /\ holder[r] = t /\ InRange(r, view[t][r]) /\ InRange(r, view[t][r] + by)
          /\ view[t][r] = Amount(table[r]) + gain[t][r]
      BY <1>1, <1>3 DEF IInv, TypeOK, InViewIffLocked, ViewIsCurrent, Accepted,
           InRange, Absent
    <2>3. ASSUME NEW u \in Requests, NEW q \in Rows
          PROVE  IF holder'[q] = u
                 THEN /\ InRange(q, view'[u][q])
                      /\ view'[u][q] = Amount(table[q]) + gain'[u][q]
                      /\ phase[u] = "running"
                 ELSE view'[u][q] = Absent /\ gain'[u][q] = 0
      <3>1. IF holder[q] = u
            THEN /\ InRange(q, view[u][q]) /\ phase[u] = "running"
                 /\ view[u][q] = Amount(table[q]) + gain[u][q]
            ELSE view[u][q] = Absent /\ gain[u][q] = 0
        BY DEF IInv, LockedByRunning, InViewIffLocked, ViewIsCurrent
      <3>2. holder'[q] = holder[q]
        BY <1>1, <1>3, <2>2 DEF IInv, TypeOK
      <3>3. CASE q = r /\ u = t
        <4>1. view'[u][q] = view[t][r] + by /\ gain'[u][q] = gain[t][r] + by
          BY <1>1, <1>3, <3>3 DEF IInv, TypeOK
        <4>2. /\ Amount(table[r]) \in Int /\ gain[t][r] \in Int
          BY <1>3 DEF IInv, TypeOK, Amount
        <4> QED
          BY <1>1, <2>2, <3>2, <3>3, <4>1, <4>2
      <3>4. CASE q # r \/ u # t
        <4>1. view'[u][q] = view[u][q] /\ gain'[u][q] = gain[u][q]
          BY <1>1, <3>4 DEF IInv, TypeOK
        <4> QED
          BY <3>1, <3>2, <4>1
      <3> QED
        BY <3>3, <3>4
    <2> QED
      BY <1>1, <2>1, <2>3, StatementKeepsTables DEF IInv, TypeOK
  <1> QED
    BY <1>1, <1>2, <1>3

\* Steps that lock and commit nothing.
LEMMA QuietKeeps ==
  ASSUME IInv, NEW t \in Requests,
         UNCHANGED << table, posted, holder, view, gain >>,
         program' \in [Requests -> Seq(Statement)], at' = at,
         pool' \in SUBSET (Requests \X {1, 2}),
         NEW p \in Phases, phase' = [phase EXCEPT ![t] = p],
         phase[t] # "running"
  PROVE  IInv'
  <1>1. TypeOK'
    BY DEF IInv, TypeOK
  <1>2. LockedByRunning'
    BY DEF IInv, TypeOK, LockedByRunning
  <1>3. InViewIffLocked' /\ ViewIsCurrent' /\ Accounted'
    BY DEF IInv, InViewIffLocked, ViewIsCurrent, Accounted, Amount, InRange
  <1> QED
    BY <1>1, <1>2, <1>3 DEF IInv

LEMMA NextIInv == IInv /\ [Next]_vars => IInv'
  <1> SUFFICES ASSUME IInv, [Next]_vars PROVE IInv'
    OBVIOUS
  <1>1. ASSUME NEW t \in Requests, Begin(t) PROVE IInv'
    <2>1. program' \in [Requests -> Seq(Statement)]
      BY <1>1, TransactionsAssumption DEF Begin, IInv, TypeOK
    <2> QED
      BY <1>1, <2>1, QuietKeeps DEF Begin, Phases, IInv, TypeOK
  <1>2. ASSUME NEW t \in Requests, Advance(t) PROVE IInv'
    <2>1. CASE Connect(t)
      <3>1. pool' \in SUBSET (Requests \X {1, 2})
        BY <2>1 DEF Connect, IInv, TypeOK
      <3> QED
        BY <2>1, <3>1, QuietKeeps DEF Connect, Phases, IInv, TypeOK
    <2>2. CASE Release(t)
      BY <2>2, QuietKeeps DEF Release, Phases, IInv, TypeOK
    <2>3. CASE DoOpen(t)
      <3>1. pool' \in SUBSET (Requests \X {1, 2})
        BY <2>3 DEF DoOpen, IInv, TypeOK
      <3> QED
        BY <2>3, <3>1, SameLocksKeep DEF DoOpen
    <2>4. CASE DoClose(t)
      <3>1. pool' \in SUBSET (Requests \X {1, 2})
        BY <2>4 DEF DoClose, IInv, TypeOK
      <3> QED
        BY <2>4, <3>1, SameLocksKeep DEF DoClose
    <2> QED
      BY <1>2, <2>1, <2>2, <2>3, <2>4, SelectKeeps, InsertKeeps, UpdateKeeps,
         CommitKeeps DEF Advance
  <1>3. ASSUME UNCHANGED vars PROVE IInv'
    BY <1>3 DEF IInv, vars, TypeOK, LockedByRunning, InViewIffLocked, ViewIsCurrent,
         Accounted, Amount, InRange
  <1> QED
    BY <1>1, <1>2, <1>3, RollbackKeeps DEF Next, AllDone

\* What the statements of database/transaction.ts and of WalletService keep.
THEOREM LocksAreSound == Spec => []IInv
  BY InitIInv, NextIInv, PTL DEF Spec

\* Values stay in their ranges: no balance below zero, no reference past the
\* end of its sequence.
THEOREM TransactionsTypeCorrect == Spec => []TypeOK
  BY LocksAreSound, PTL DEF IInv

\* For any number of transactions that use any statements in any order, no
\* update of a balance is lost.
THEOREM NoLostUpdate == Spec => []NothingLost
  <1>1. IInv => NothingLost
    <2> SUFFICES ASSUME IInv, NEW w \in Accounts PROVE table[w] = Opening[w] + posted[w]
      BY DEF NothingLost
    <2>1. w \in Rows /\ Start(w) = Opening[w] /\ table[w] >= 0
      BY ConstantFacts DEF Start, IInv, TypeOK
    <2>2. Amount(table[w]) = table[w]
      BY <2>1 DEF Amount, Absent
    <2> QED
      BY <2>1, <2>2 DEF IInv, Accounted
  <1> QED
    BY <1>1, LocksAreSound, PTL

\* No reference is handed out twice.
THEOREM NoSharedReference == Spec => []ReferencesUnique
  <1>1. IInv => ReferencesUnique
    <2> SUFFICES ASSUME IInv, NEW c \in Counters
                 PROVE  Amount(table[c]) = posted[c] /\ posted[c] <= MaxSeq
      BY DEF ReferencesUnique
    <2>1. c \in Rows /\ Start(c) = 0 /\ table[c] \in Absent .. MaxSeq /\ MaxSeq \in Nat
          /\ posted[c] \in Int
      BY ConstantFacts DEF Start, IInv, TypeOK
    <2>2. Amount(table[c]) = posted[c]
      BY <2>1 DEF IInv, Accounted
    <2>3. Amount(table[c]) <= MaxSeq
      BY <2>1 DEF Amount, Absent
    <2> QED
      BY <2>2, <2>3
  <1> QED
    BY <1>1, LocksAreSound, PTL

-----------------------------------------------------------------------------
(* The pool: whoever has a second connection is between the statements     *)
(* that open and close its inner transaction.                              *)

Inside(t) ==
  \E i \in DOMAIN program[t] :
    /\ i < at[t] /\ program[t][i].op = "open"
    /\ \A k \in DOMAIN program[t] : i < k /\ k < at[t] => program[t][k].op # "close"

PoolInv ==
  /\ TypeOK
  /\ \A t \in Requests :
       /\ phase[t] \in {"connecting", "running"} => program[t] \in ProgramsOf[t]
       /\ phase[t] = "running" => <<t, 1>> \in pool
       /\ <<t, 2>> \in pool => phase[t] = "running" /\ Inside(t)

\* What a step of t leaves of the others.
LEMMA OthersInPool ==
  ASSUME PoolInv, TypeOK', NEW t \in Requests,
         \A u \in Requests \ {t} :
           /\ phase'[u] = phase[u] /\ program'[u] = program[u] /\ at'[u] = at[u]
           /\ \A n \in {1, 2} : <<u, n>> \in pool' <=> <<u, n>> \in pool,
         phase'[t] \in {"connecting", "running"} => program'[t] \in ProgramsOf[t],
         phase'[t] = "running" => <<t, 1>> \in pool',
         <<t, 2>> \in pool' => phase'[t] = "running" /\ Inside(t)'
  PROVE  PoolInv'
  <1>1. ASSUME NEW u \in Requests
        PROVE  /\ phase'[u] \in {"connecting", "running"} => program'[u] \in ProgramsOf[u]
               /\ phase'[u] = "running" => <<u, 1>> \in pool'
               /\ <<u, 2>> \in pool' => phase'[u] = "running" /\ Inside(u)'
    <2>1. CASE u = t
      BY <2>1
    <2>2. CASE u # t
      BY <2>2 DEF PoolInv, Inside
    <2> QED
      BY <2>1, <2>2
  <1> QED
    BY <1>1 DEF PoolInv

\* A statement that is no close leaves t inside.
LEMMA StatementInPool ==
  ASSUME PoolInv, TypeOK', NEW t \in Requests, NEW o, AtOp(t, o), o # "close",
         NextStatement(t), pool' = pool
  PROVE  PoolInv'
  <1>1. /\ phase' = phase /\ program' = program /\ at[t] \in Nat
        /\ at' = [at EXCEPT ![t] = @ + 1] /\ at'[t] = at[t] + 1
        /\ program[t][at[t]].op # "close"
    BY DEF NextStatement, PoolInv, TypeOK, AtOp
  <1>2. \A u \in Requests \ {t} : at'[u] = at[u]
    BY <1>1 DEF PoolInv, TypeOK
  <1>3. ASSUME Inside(t) PROVE Inside(t)'
    <2>1. PICK i \in DOMAIN program[t] :
            /\ i < at[t] /\ program[t][i].op = "open"
            /\ \A k \in DOMAIN program[t] :
                 i < k /\ k < at[t] => program[t][k].op # "close"
      BY <1>3 DEF Inside
    <2>2. DOMAIN program[t] \subseteq Nat
      BY DEF PoolInv, TypeOK
    <2>3. ASSUME NEW k \in DOMAIN program[t], i < k, k < at[t] + 1
          PROVE  program[t][k].op # "close"
      <3>1. k < at[t] \/ k = at[t]
        BY <1>1, <2>2, <2>3
      <3> QED
        BY <1>1, <2>1, <2>3, <3>1
    <2>4. i < at[t] + 1
      BY <1>1, <2>1, <2>2
    <2> QED
      BY <1>1, <2>1, <2>3, <2>4 DEF Inside
  <1> QED
    BY <1>1, <1>2, <1>3, OthersInPool DEF PoolInv

LEMMA NextPoolInv == PoolInv /\ IInv /\ [Next]_vars => PoolInv'
  <1> SUFFICES ASSUME PoolInv, IInv, [Next]_vars PROVE PoolInv'
    OBVIOUS
  <1>0. TypeOK'
    BY NextIInv DEF IInv
  <1>1. ASSUME NEW t \in Requests, Begin(t) PROVE PoolInv'
    <2>1. /\ phase[t] = "idle" /\ phase' = [phase EXCEPT ![t] = "connecting"]
          /\ at' = at /\ pool' = pool
      BY <1>1 DEF Begin
    <2>2. PICK p \in ProgramsOf[t] : program' = [program EXCEPT ![t] = p]
      BY <1>1 DEF Begin
    <2>3. /\ program'[t] \in ProgramsOf[t] /\ phase'[t] = "connecting"
          /\ <<t, 2>> \notin pool
          /\ \A u \in Requests \ {t} : phase'[u] = phase[u] /\ program'[u] = program[u]
      BY <2>1, <2>2 DEF PoolInv, TypeOK
    <2> QED
      BY <1>0, <2>1, <2>3, OthersInPool
  <1>2. ASSUME NEW t \in Requests, Connect(t) PROVE PoolInv'
    <2>1. /\ phase[t] = "connecting" /\ phase' = [phase EXCEPT ![t] = "running"]
          /\ at' = at /\ program' = program /\ pool' = pool \cup {<<t, 1>>}
      BY <1>2 DEF Connect
    <2>2. /\ phase'[t] = "running" /\ <<t, 2>> \notin pool
          /\ program[t] \in ProgramsOf[t]
          /\ \A u \in Requests \ {t} : phase'[u] = phase[u]
      BY <2>1 DEF PoolInv, TypeOK
    <2>3. /\ <<t, 1>> \in pool' /\ <<t, 2>> \notin pool'
          /\ \A u \in Requests \ {t}, n \in {1, 2} :
               <<u, n>> \in pool' <=> <<u, n>> \in pool
      BY <2>1, <2>2
    <2> QED
      BY <1>0, <2>1, <2>2, <2>3, OthersInPool
  <1>3. ASSUME NEW t \in Requests, Release(t) PROVE PoolInv'
    BY <1>0, <1>3, OthersInPool DEF Release, PoolInv, TypeOK
  <1>4. ASSUME NEW t \in Requests, Rollback(t) PROVE PoolInv'
    BY <1>0, <1>4, OthersInPool DEF Rollback, PoolInv, TypeOK
  <1>5. ASSUME NEW t \in Requests, Commit(t) PROVE PoolInv'
    <2>1. <<t, 2>> \notin pool
      <3> SUFFICES ASSUME <<t, 2>> \in pool PROVE FALSE
        OBVIOUS
      <3>1. PICK i \in DOMAIN program[t] :
              /\ i < at[t] /\ program[t][i].op = "open"
              /\ \A k \in DOMAIN program[t] :
                   i < k /\ k < at[t] => program[t][k].op # "close"
        BY DEF PoolInv, Inside
      <3>2. PICK k \in DOMAIN program[t] : i < k /\ program[t][k].op = "close"
        BY <1>5, <3>1, OneLevelAssumption DEF PoolInv, Commit
      <3>3. DOMAIN program[t] = 1 .. Len(program[t]) /\ at[t] \in Nat \ {0}
            /\ Len(program[t]) \in Nat /\ at[t] \notin DOMAIN program[t]
        BY <1>5 DEF PoolInv, TypeOK, Commit
      <3>4. k < at[t]
        BY <3>3
      <3> QED
        BY <3>1, <3>2, <3>4
    <2> QED
      BY <1>0, <1>5, <2>1, OthersInPool DEF Commit, PoolInv, TypeOK
  <1>6. ASSUME NEW t \in Requests, DoSelect(t) \/ DoInsert(t) \/ DoUpdate(t) PROVE PoolInv'
    BY <1>0, <1>6, StatementInPool DEF DoSelect, DoInsert, DoUpdate
  <1>7. ASSUME NEW t \in Requests, DoOpen(t) PROVE PoolInv'
    <2>1. /\ phase' = phase /\ program' = program /\ at[t] \in DOMAIN program[t]
          /\ at' = [at EXCEPT ![t] = @ + 1] /\ at'[t] = at[t] + 1
          /\ program[t][at[t]].op = "open" /\ at[t] \in Nat /\ phase[t] = "running"
      BY <1>7 DEF DoOpen, NextStatement, AtOp, PoolInv, TypeOK
    <2>2. DOMAIN program[t] \subseteq Nat
      BY DEF PoolInv, TypeOK
    <2>3. Inside(t)'
      <3>1. at[t] < at[t] + 1
            /\ \A k \in DOMAIN program[t] : ~(at[t] < k /\ k < at[t] + 1)
        BY <2>1, <2>2
      <3> QED
        BY <2>1, <3>1 DEF Inside
    <2>4. \A u \in Requests \ {t} : at'[u] = at[u]
      BY <2>1 DEF PoolInv, TypeOK
    <2> QED
      BY <1>0, <1>7, <2>1, <2>3, <2>4, OthersInPool DEF DoOpen, PoolInv
  <1>8. ASSUME NEW t \in Requests, DoClose(t) PROVE PoolInv'
    <2>1. /\ phase[t] = "running" /\ phase' = phase /\ program' = program
          /\ at' = [at EXCEPT ![t] = @ + 1] /\ pool' = pool \ {<<t, 2>>}
      BY <1>8 DEF DoClose, NextStatement, AtOp
    <2>2. /\ program[t] \in ProgramsOf[t] /\ <<t, 1>> \in pool
          /\ \A u \in Requests \ {t} : at'[u] = at[u]
      BY <2>1 DEF PoolInv, TypeOK
    <2>3. /\ <<t, 1>> \in pool' /\ <<t, 2>> \notin pool'
          /\ \A u \in Requests \ {t}, n \in {1, 2} :
               <<u, n>> \in pool' <=> <<u, n>> \in pool
      BY <2>1, <2>2
    <2> QED
      BY <1>0, <2>1, <2>2, <2>3, OthersInPool
  <1>9. ASSUME UNCHANGED vars PROVE PoolInv'
    BY <1>0, <1>9 DEF vars, PoolInv, Inside
  <1> QED
    BY <1>1, <1>2, <1>3, <1>4, <1>5, <1>6, <1>7, <1>8, <1>9
    DEF Next, Advance, AllDone

\* While fewer requests than there are connections open a transaction within
\* another one, somebody always has all the connections it needs.
THEOREM NestingLeavesRoom ==
  ASSUME Cardinality(Nesting) < MaxConnections
  PROVE  Spec => []PoolNeverStuck
  <1>1. Init => PoolInv
    BY InitIInv DEF Init, PoolInv, IInv
  <1>2. PoolInv => PoolNeverStuck
    <2> SUFFICES ASSUME PoolInv, PoolIsFull,
                        \A t \in Requests : <<t, 1>> \in pool => AwaitsConnection(t)
                 PROVE  FALSE
      BY DEF PoolNeverStuck
    <2>1. ASSUME NEW t \in Requests, <<t, 1>> \in pool
          PROVE  t \in Nesting /\ <<t, 2>> \notin pool
      <3>1. /\ phase[t] = "running" /\ at[t] \in DOMAIN program[t]
            /\ program[t][at[t]].op = "open" /\ program[t] \in ProgramsOf[t]
        BY <2>1 DEF AwaitsConnection, AtOp, PoolInv
      <3>2. ASSUME <<t, 2>> \in pool PROVE FALSE
        <4>1. PICK i \in DOMAIN program[t] :
                /\ i < at[t] /\ program[t][i].op = "open"
                /\ \A k \in DOMAIN program[t] :
                     i < k /\ k < at[t] => program[t][k].op # "close"
          BY <3>2 DEF PoolInv, Inside
        <4>2. PICK k \in DOMAIN program[t] :
                /\ i < k /\ program[t][k].op = "close"
                /\ \A j \in DOMAIN program[t] :
                     i < j /\ j < k => program[t][j].op # "open"
          BY <3>1, <4>1, OneLevelAssumption
        <4>3. DOMAIN program[t] \subseteq Nat
          BY DEF PoolInv, TypeOK
        <4>4. ~(at[t] < k) /\ k # at[t]
          BY <3>1, <4>1, <4>2
        <4>5. k < at[t]
          BY <3>1, <4>3, <4>4
        <4> QED
          BY <4>1, <4>2, <4>5
      <3> QED
        BY <3>1, <3>2 DEF Nesting
    <2>2. pool \subseteq Nesting \X {1}
      <3> SUFFICES ASSUME NEW x \in pool PROVE x \in Nesting \X {1}
        OBVIOUS
      <3>1. PICK t \in Requests, n \in {1, 2} : x = <<t, n>>
        BY DEF PoolInv, TypeOK
      <3>2. <<t, 1>> \in pool
        BY <3>1 DEF PoolInv
      <3> QED
        BY <3>1, <3>2, <2>1
    <2>3. IsFiniteSet(Nesting)
      BY TransactionsAssumption, FS_Subset DEF Nesting
    <2>4. IsFiniteSet({1}) /\ Cardinality({1}) = 1
      BY FS_Singleton
    <2>5. /\ IsFiniteSet(Nesting \X {1})
          /\ Cardinality(Nesting \X {1}) = Cardinality(Nesting) * 1
      BY <2>3, <2>4, FS_Product
    <2>6. Cardinality(pool) <= Cardinality(Nesting \X {1})
      BY <2>2, <2>5, FS_Subset
    <2>7. Cardinality(Nesting) \in Nat /\ Cardinality(pool) \in Nat
      BY <2>2, <2>3, <2>5, FS_CardinalityType, FS_Subset
    <2> QED
      BY <2>5, <2>6, <2>7, TransactionsAssumption DEF PoolIsFull
  <1> QED
    BY <1>1, <1>2, NextPoolInv, LocksAreSound, PTL DEF Spec

-----------------------------------------------------------------------------
(* Serializability.  Run alone, a program takes the tables through its     *)
(* course.  The invariant: a running transaction is where that course,     *)
(* begun from what is committed NOW, would have taken it, although others  *)
(* committed in between: they only wrote rows that it had not touched yet. *)

\* The course of a program exists.
LEMMA CourseExists ==
  ASSUME NEW p, Len(p) \in Nat, NEW tbl
  PROVE  \E f : f = [i \in 0 .. Len(p) |->
                       IF i = 0 THEN tbl ELSE Alone!Effect(p[i], f[i - 1])]
  <1> DEFINE G == {n \in Nat : \E f : f = [i \in 0 .. n |->
                       IF i = 0 THEN tbl ELSE Alone!Effect(p[i], f[i - 1])]}
  <1>1. 0 \in G
    <2> DEFINE f == [i \in 0 .. 0 |-> tbl]
    <2>1. f = [i \in 0 .. 0 |-> IF i = 0 THEN tbl ELSE Alone!Effect(p[i], f[i - 1])]
      OBVIOUS
    <2> QED
      BY <2>1
  <1>2. ASSUME NEW n \in Nat, n \in G PROVE n + 1 \in G
    <2>1. PICK f : f = [i \in 0 .. n |->
                          IF i = 0 THEN tbl ELSE Alone!Effect(p[i], f[i - 1])]
      BY <1>2
    <2> DEFINE g == [i \in 0 .. n + 1 |->
                       IF i = n + 1 THEN Alone!Effect(p[n + 1], f[n]) ELSE f[i]]
    <2>2. ASSUME NEW i \in 0 .. n + 1
          PROVE  g[i] = IF i = 0 THEN tbl ELSE Alone!Effect(p[i], g[i - 1])
      <3>1. CASE i = n + 1
        <4>1. g[i] = Alone!Effect(p[n + 1], f[n]) /\ i # 0 /\ i - 1 = n
          BY <3>1
        <4>2. g[n] = f[n]
          OBVIOUS
        <4> QED
          BY <3>1, <4>1, <4>2
      <3>2. CASE i = 0
        <4>1. g[i] = f[0]
          BY <3>2
        <4>2. f[0] = tbl
          BY <2>1
        <4> QED
          BY <3>2, <4>1, <4>2
      <3>3. CASE i # n + 1 /\ i # 0
        <4>1. /\ i \in 0 .. n /\ i - 1 \in 0 .. n + 1 /\ i - 1 # n + 1
          BY <3>3
        <4>2. g[i] = f[i] /\ g[i - 1] = f[i - 1]
          BY <3>3, <4>1
        <4>3. f[i] = Alone!Effect(p[i], f[i - 1])
          BY <2>1, <3>3, <4>1
        <4> QED
          BY <3>3, <4>2, <4>3
      <3> QED
        BY <3>1, <3>2, <3>3
    <2>3. g = [i \in 0 .. n + 1 |-> IF i = 0 THEN tbl ELSE Alone!Effect(p[i], g[i - 1])]
      <3>1. g = [i \in 0 .. n + 1 |-> g[i]]
        OBVIOUS
      <3> HIDE DEF g
      <3> QED
        BY <2>2, <3>1
    <2> HIDE DEF g
    <2> QED
      BY <2>3
  <1> HIDE DEF G
  <1>3. Len(p) \in G
    BY <1>1, <1>2, CountUp
  <1> QED
    BY <1>3 DEF G

\* Alone!Course, from any contents of the tables.
CourseFrom(p, tbl) ==
  CHOOSE f : f = [i \in 0 .. Len(p) |->
                    IF i = 0 THEN tbl ELSE Alone!Effect(p[i], f[i - 1])]

\* The course of a program, statement by statement; from the tables as they are
\* it is the one of the abstract specification.
LEMMA CourseIs ==
  ASSUME NEW p, Len(p) \in Nat, NEW tbl
  PROVE  /\ CourseFrom(p, tbl)[0] = tbl
         /\ \A i \in 1 .. Len(p) :
              CourseFrom(p, tbl)[i] = Alone!Effect(p[i], CourseFrom(p, tbl)[i - 1])
         /\ Alone!Course(p) = CourseFrom(p, table)
  <1> DEFINE c == CourseFrom(p, tbl)
  <1>1. c = [i \in 0 .. Len(p) |-> IF i = 0 THEN tbl ELSE Alone!Effect(p[i], c[i - 1])]
    BY CourseExists DEF CourseFrom
  <1>2. Alone!Course(p) = CourseFrom(p, table)
    BY DEF CourseFrom, Alone!Course
  <1> HIDE DEF c
  <1>3. c[0] = tbl /\ \A i \in 1 .. Len(p) : c[i] = Alone!Effect(p[i], c[i - 1])
    <2>1. 0 \in 0 .. Len(p) /\ 1 .. Len(p) \subseteq 0 .. Len(p) /\ \A i \in 1 .. Len(p) : i # 0
      OBVIOUS
    <2> QED
      BY <1>1, <2>1
  <1> QED
    BY <1>2, <1>3 DEF c

\* A program whose statements name the rows they touch.
Proper(p) ==
  /\ p \in Seq(Statement)
  /\ \A i \in DOMAIN p :
       p[i].op \in {"select", "insert", "update"} => p[i].row \in Rows

\* What the statement s makes of v in row r.
Changed(s, r, v) ==
  IF s.op = "update" /\ s.row = r THEN v + s.by
  ELSE IF s.op = "insert" /\ s.row = r /\ v = Absent THEN 0
  ELSE v

\* A statement run alone changes each row by itself.
LEMMA EffectIs ==
  ASSUME NEW p, Proper(p), NEW i \in 1 .. Len(p), NEW tbl \in [Rows -> Int]
  PROVE  /\ Alone!Effect(p[i], tbl) \in [Rows -> Int]
         /\ \A r \in Rows : Alone!Effect(p[i], tbl)[r] = Changed(p[i], r, tbl[r])
  <1> DEFINE s == p[i]
  <1>1. /\ s \in Statement
        /\ s.op \in {"select", "insert", "update"} => s.row \in Rows
    <2>1. i \in DOMAIN p /\ p \in Seq(Statement)
      BY DEF Proper
    <2> QED
      BY <2>1 DEF Proper
  <1> HIDE DEF s
  <1>2. s.by \in Int
    BY <1>1 DEF Statement
  <1>3. CASE s.op = "update"
    <2>1. Alone!Effect(s, tbl) = [tbl EXCEPT ![s.row] = @ + s.by]
      BY <1>3 DEF Alone!Effect
    <2> QED
      BY <1>1, <1>2, <1>3, <2>1 DEF s, Changed
  <1>4. CASE s.op = "insert"
    <2>1. Alone!Effect(s, tbl) = IF tbl[s.row] = Absent
                                 THEN [tbl EXCEPT ![s.row] = 0] ELSE tbl
      BY <1>4 DEF Alone!Effect
    <2> QED
      BY <1>1, <1>4, <2>1 DEF s, Changed
  <1>5. CASE s.op # "update" /\ s.op # "insert"
    <2>1. Alone!Effect(s, tbl) = tbl
      BY <1>5 DEF Alone!Effect
    <2> QED
      BY <1>5, <2>1 DEF s, Changed
  <1> QED
    BY <1>3, <1>4, <1>5

\* How long a program is.
LEMMA ProperLength ==
  ASSUME NEW p, Proper(p)
  PROVE  Len(p) \in Nat /\ DOMAIN p = 1 .. Len(p)
  BY DEF Proper

\* Along its course the tables keep their type, and each row changes as its
\* statements say.
LEMMA CourseRows ==
  ASSUME NEW p, Proper(p), NEW tbl \in [Rows -> Int]
  PROVE  /\ \A i \in 0 .. Len(p) : CourseFrom(p, tbl)[i] \in [Rows -> Int]
         /\ \A i \in 1 .. Len(p), r \in Rows :
              CourseFrom(p, tbl)[i][r] = Changed(p[i], r, CourseFrom(p, tbl)[i - 1][r])
  <1> DEFINE c == CourseFrom(p, tbl)
             G == {n \in Nat : n <= Len(p) => c[n] \in [Rows -> Int]}
  <1>0. Len(p) \in Nat
    BY ProperLength
  <1>1. c[0] = tbl /\ \A i \in 1 .. Len(p) : c[i] = Alone!Effect(p[i], c[i - 1])
    BY <1>0, CourseIs
  <1> HIDE DEF c
  <1>2. 0 \in G
    BY <1>1
  <1>3. ASSUME NEW n \in Nat, n \in G PROVE n + 1 \in G
    <2>1. CASE n + 1 <= Len(p)
      <3>1. n <= Len(p) /\ n + 1 \in 1 .. Len(p) /\ (n + 1) - 1 = n
        BY <1>0, <2>1
      <3>2. c[n] \in [Rows -> Int]
        BY <1>3, <3>1
      <3>3. c[n + 1] = Alone!Effect(p[n + 1], c[n])
        BY <1>1, <3>1
      <3>4. c[n + 1] \in [Rows -> Int]
        BY <3>1, <3>2, <3>3, EffectIs
      <3> QED
        BY <3>4
    <2>2. CASE ~(n + 1 <= Len(p))
      BY <2>2
    <2> QED
      BY <2>1, <2>2
  <1> HIDE DEF G
  <1>4. Nat \subseteq G
    BY <1>2, <1>3, CountUp
  <1>5. \A i \in 0 .. Len(p) : c[i] \in [Rows -> Int]
    <2> SUFFICES ASSUME NEW i \in 0 .. Len(p) PROVE c[i] \in [Rows -> Int]
      OBVIOUS
    <2>1. i \in Nat /\ i <= Len(p)
      BY <1>0
    <2>2. i \in G
      BY <1>4, <2>1
    <2> QED
      BY <2>1, <2>2 DEF G
  <1>6. ASSUME NEW i \in 1 .. Len(p), NEW r \in Rows
        PROVE  c[i][r] = Changed(p[i], r, c[i - 1][r])
    <2>1. i - 1 \in 0 .. Len(p)
      BY <1>0
    <2>2. c[i - 1] \in [Rows -> Int] /\ c[i] = Alone!Effect(p[i], c[i - 1])
      BY <1>1, <1>5, <2>1
    <2> QED
      BY <2>2, EffectIs
  <1> QED
    BY <1>5, <1>6 DEF c

\* A row takes its course by itself.
LEMMA CourseLocal ==
  ASSUME NEW p, Proper(p), NEW tbl \in [Rows -> Int], NEW tbl2 \in [Rows -> Int],
         NEW r \in Rows, tbl[r] = tbl2[r]
  PROVE  \A i \in 0 .. Len(p) : CourseFrom(p, tbl)[i][r] = CourseFrom(p, tbl2)[i][r]
  <1> DEFINE c == CourseFrom(p, tbl)
             d == CourseFrom(p, tbl2)
             G == {n \in Nat : n <= Len(p) => c[n][r] = d[n][r]}
  <1>0. Len(p) \in Nat
    BY ProperLength
  <1>1. c[0] = tbl /\ d[0] = tbl2
    BY <1>0, CourseIs
  <1>2. \A i \in 1 .. Len(p) : /\ c[i][r] = Changed(p[i], r, c[i - 1][r])
                               /\ d[i][r] = Changed(p[i], r, d[i - 1][r])
    BY CourseRows
  <1> HIDE DEF c, d
  <1>3. 0 \in G
    BY <1>1
  <1>4. ASSUME NEW n \in Nat, n \in G PROVE n + 1 \in G
    <2>1. CASE n + 1 <= Len(p)
      <3>1. n <= Len(p) /\ n + 1 \in 1 .. Len(p) /\ (n + 1) - 1 = n
        BY <1>0, <2>1
      <3>2. c[n][r] = d[n][r]
        BY <1>4, <3>1
      <3>3. c[n + 1][r] = d[n + 1][r]
        BY <1>2, <3>1, <3>2
      <3> QED
        BY <3>3
    <2>2. CASE ~(n + 1 <= Len(p))
      BY <2>2
    <2> QED
      BY <2>1, <2>2
  <1> HIDE DEF G
  <1>5. Nat \subseteq G
    BY <1>3, <1>4, CountUp
  <1>6. ASSUME NEW i \in 0 .. Len(p) PROVE c[i][r] = d[i][r]
    <2>1. i \in Nat /\ i <= Len(p)
      BY <1>0
    <2>2. i \in G
      BY <1>5, <2>1
    <2> QED
      BY <2>1, <2>2 DEF G
  <1> QED
    BY <1>6 DEF c, d

\* A row that no statement has written yet is as it was.
LEMMA CourseUntouched ==
  ASSUME NEW p, Proper(p), NEW tbl \in [Rows -> Int], NEW r \in Rows,
         NEW m \in 0 .. Len(p),
         \A i \in 1 .. m : p[i].op \in {"insert", "update"} => p[i].row # r
  PROVE  CourseFrom(p, tbl)[m][r] = tbl[r]
  <1> DEFINE c == CourseFrom(p, tbl)
             G == {n \in Nat : n <= m => c[n][r] = tbl[r]}
  <1>0. Len(p) \in Nat /\ m \in Nat /\ m <= Len(p)
    BY ProperLength
  <1>1. c[0] = tbl
    BY <1>0, CourseIs
  <1>2. \A i \in 1 .. Len(p) : c[i][r] = Changed(p[i], r, c[i - 1][r])
    BY CourseRows
  <1> HIDE DEF c
  <1>3. 0 \in G
    BY <1>1
  <1>4. ASSUME NEW n \in Nat, n \in G PROVE n + 1 \in G
    <2>1. CASE n + 1 <= m
      <3>1. n <= m /\ n + 1 \in 1 .. m /\ n + 1 \in 1 .. Len(p) /\ (n + 1) - 1 = n
        BY <1>0, <2>1
      <3>2. c[n][r] = tbl[r]
        BY <1>4, <3>1
      <3>3. c[n + 1][r] = Changed(p[n + 1], r, c[n][r])
        BY <1>2, <3>1
      <3>4. p[n + 1].op \in {"insert", "update"} => p[n + 1].row # r
        BY <3>1
      <3>5. c[n + 1][r] = tbl[r]
        BY <3>2, <3>3, <3>4 DEF Changed
      <3> QED
        BY <3>5
    <2>2. CASE ~(n + 1 <= m)
      BY <2>2
    <2> QED
      BY <2>1, <2>2
  <1> HIDE DEF G
  <1>5. m \in G
    BY <1>0, <1>3, <1>4, CountUp
  <1>6. c[m][r] = tbl[r]
    BY <1>0, <1>5 DEF G
  <1> QED
    BY <1>6 DEF c

\* A transaction that has run n statements of p, with the rows H locked and
\* seen as in v: run alone from tbl it would have come as far.
Along(p, n, tbl, H, v) ==
  /\ n \in 0 .. Len(p)
  /\ \A r \in Rows : CourseFrom(p, tbl)[n][r] = IF r \in H THEN v[r] ELSE tbl[r]
  /\ \A i \in 1 .. n : p[i].op \in {"insert", "update"} => p[i].row \in H
  /\ \A i \in 1 .. n : p[i].op = "update" =>
       AlwaysFits(p[i].row, CourseFrom(p, tbl)[i][p[i].row])

\* A transaction that has run nothing.
LEMMA AlongStart ==
  ASSUME NEW p, Proper(p), NEW tbl \in [Rows -> Int], NEW v
  PROVE  Along(p, 0, tbl, {}, v)
  <1>1. Len(p) \in Nat
    BY ProperLength
  <1>2. CourseFrom(p, tbl)[0] = tbl
    BY <1>1, CourseIs
  <1> QED
    BY <1>1, <1>2 DEF Along

\* One more statement, which may lock rows and changes what is seen of the rows
\* as it would change the tables alone.
LEMMA AlongStep ==
  ASSUME NEW p, Proper(p), NEW tbl \in [Rows -> Int], NEW n \in Nat, n + 1 \in DOMAIN p,
         NEW H, NEW v, NEW K, NEW w, Along(p, n, tbl, H, v),
         H \subseteq K,
         \A r \in Rows :
           (IF r \in K THEN w[r] ELSE tbl[r]) =
             Changed(p[n + 1], r, IF r \in H THEN v[r] ELSE tbl[r]),
         p[n + 1].op \in {"insert", "update"} => p[n + 1].row \in K,
         p[n + 1].op = "update" => AlwaysFits(p[n + 1].row, w[p[n + 1].row])
  PROVE  Along(p, n + 1, tbl, K, w)
  <1> DEFINE c == CourseFrom(p, tbl)
  <1>1. /\ Len(p) \in Nat /\ n + 1 \in 1 .. Len(p) /\ n + 1 \in 0 .. Len(p)
        /\ (n + 1) - 1 = n
    BY ProperLength
  <1>2. \A i \in 1 .. n + 1 : i = n + 1 \/ i \in 1 .. n
    OBVIOUS
  <1>3. \A r \in Rows : c[n + 1][r] = Changed(p[n + 1], r, c[n][r])
    BY <1>1, CourseRows
  <1>4. \A r \in Rows : c[n][r] = IF r \in H THEN v[r] ELSE tbl[r]
    BY DEF Along
  <1> HIDE DEF c
  <1>5. \A r \in Rows : c[n + 1][r] = IF r \in K THEN w[r] ELSE tbl[r]
    BY <1>3, <1>4
  <1>6. p[n + 1].op \in {"insert", "update"} => p[n + 1].row \in Rows
    BY DEF Proper
  <1>7. \A i \in 1 .. n + 1 : p[i].op \in {"insert", "update"} => p[i].row \in K
    BY <1>2 DEF Along
  <1>8. p[n + 1].op = "update" => AlwaysFits(p[n + 1].row, c[n + 1][p[n + 1].row])
    <2> SUFFICES ASSUME p[n + 1].op = "update"
                 PROVE  AlwaysFits(p[n + 1].row, c[n + 1][p[n + 1].row])
      OBVIOUS
    <2>1. c[n + 1][p[n + 1].row] = w[p[n + 1].row]
      BY <1>5, <1>6
    <2> QED
      BY <2>1
  <1>9. \A i \in 1 .. n : p[i].op = "update" => AlwaysFits(p[i].row, c[i][p[i].row])
    BY DEF Along, c
  <1>10. \A i \in 1 .. n + 1 : p[i].op = "update" => AlwaysFits(p[i].row, c[i][p[i].row])
    BY <1>2, <1>8, <1>9
  <1> QED
    BY <1>1, <1>5, <1>7, <1>10 DEF Along, c

\* What others commit, to rows that this transaction has not locked.
LEMMA AlongOther ==
  ASSUME NEW p, Proper(p), NEW tbl \in [Rows -> Int], NEW tbl2 \in [Rows -> Int],
         NEW n, NEW H, NEW v, Along(p, n, tbl, H, v),
         \A r \in Rows : r \in H => tbl2[r] = tbl[r]
  PROVE  Along(p, n, tbl2, H, v)
  <1> DEFINE c == CourseFrom(p, tbl)
             d == CourseFrom(p, tbl2)
  <1>1. n \in 0 .. Len(p) /\ Len(p) \in Nat /\ n \in Nat
    BY ProperLength DEF Along
  <1>2. \A i \in 1 .. n : i \in 0 .. Len(p) /\ i \in DOMAIN p
    BY <1>1, ProperLength
  <1>3. ASSUME NEW r \in Rows PROVE d[n][r] = IF r \in H THEN v[r] ELSE tbl2[r]
    <2>1. CASE r \in H
      <3>1. c[n][r] = v[r]
        BY <2>1 DEF Along
      <3>2. c[n][r] = d[n][r]
        BY <1>1, <2>1, CourseLocal
      <3> QED
        BY <2>1, <3>1, <3>2
    <2>2. CASE r \notin H
      <3>1. \A i \in 1 .. n : p[i].op \in {"insert", "update"} => p[i].row # r
        BY <2>2 DEF Along
      <3>2. d[n][r] = tbl2[r]
        BY <1>1, <3>1, CourseUntouched
      <3> QED
        BY <2>2, <3>2
    <2> QED
      BY <2>1, <2>2
  <1>4. ASSUME NEW i \in 1 .. n, p[i].op = "update"
        PROVE  AlwaysFits(p[i].row, d[i][p[i].row])
    <2>1. p[i].row \in H /\ p[i].row \in Rows
      BY <1>2, <1>4 DEF Along, Proper
    <2>2. c[i][p[i].row] = d[i][p[i].row]
      BY <1>2, <2>1, CourseLocal
    <2>3. AlwaysFits(p[i].row, c[i][p[i].row])
      BY <1>4 DEF Along
    <2> QED
      BY <2>2, <2>3
  <1>5. \A i \in 1 .. n : p[i].op \in {"insert", "update"} => p[i].row \in H
    BY DEF Along
  <1> HIDE DEF c, d
  <1> QED
    BY <1>1, <1>3, <1>4, <1>5 DEF Along, d

\* The end: what is committed is what the program makes of the tables alone.
LEMMA AlongEnd ==
  ASSUME NEW p, Proper(p), table \in [Rows -> Int], NEW H, NEW v,
         Along(p, Len(p), table, H, v),
         table' = [r \in Rows |-> IF r \in H THEN v[r] ELSE table[r]]
  PROVE  Alone!RunAlone(p)
  <1> DEFINE c == CourseFrom(p, table)
  <1>1. Len(p) \in Nat /\ DOMAIN p = 1 .. Len(p) /\ Len(p) \in 0 .. Len(p)
    BY ProperLength
  <1>2. Alone!Course(p) = c
    BY <1>1, CourseIs
  <1>3. c[Len(p)] \in [Rows -> Int]
    BY <1>1, CourseRows
  <1>4. \A r \in Rows : c[Len(p)][r] = IF r \in H THEN v[r] ELSE table[r]
    BY DEF Along
  <1>5. \A i \in 1 .. Len(p) : p[i].op = "update" => AlwaysFits(p[i].row, c[i][p[i].row])
    BY DEF Along
  <1> HIDE DEF c
  <1>6. table' = c[Len(p)]
    BY <1>3, <1>4
  <1> QED
    BY <1>1, <1>2, <1>5, <1>6 DEF Alone!RunAlone, Alone!Completes

Held(t) == {r \in Rows : holder[r] = t}

\* Where a transaction is, it would have come alone.
Follows ==
  \A t \in Requests :
    /\ phase[t] \in {"idle", "connecting"} => at[t] = 1
    /\ phase[t] = "running" => Along(program[t], at[t] - 1, table, Held(t), view[t])

\* The program of a running transaction is one of those assumed.
LEMMA RunningIsProper ==
  ASSUME PoolInv, NEW t \in Requests, phase[t] \in {"connecting", "running"}
  PROVE  Proper(program[t]) /\ program[t] \in ProgramsOf[t]
  <1>1. program[t] \in ProgramsOf[t] /\ program[t] \in Seq(Statement)
    BY DEF PoolInv, TypeOK
  <1> QED
    BY <1>1, RowsAssumption DEF Proper

\* A statement of t concerns t alone.
LEMMA StatementFollows ==
  ASSUME IInv, PoolInv, Follows, NEW t \in Requests, NEW o, AtOp(t, o), NextStatement(t),
         \A u \in Requests \ {t} : Held(u)' = Held(u) /\ view'[u] = view[u],
         Held(t) \subseteq Held(t)',
         \A r \in Rows :
           (IF r \in Held(t)' THEN view'[t][r] ELSE table[r]) =
             Changed(program[t][at[t]], r, IF r \in Held(t) THEN view[t][r] ELSE table[r]),
         o \in {"insert", "update"} => RowOf(t) \in Held(t)',
         o = "update" => AlwaysFits(RowOf(t), view'[t][RowOf(t)])
  PROVE  Follows'
  <1> DEFINE p == program[t]
             n == at[t] - 1
  <1>1. /\ phase[t] = "running" /\ at[t] \in DOMAIN p /\ p[at[t]].op = o
        /\ table' = table /\ phase' = phase /\ program' = program
        /\ at' = [at EXCEPT ![t] = @ + 1]
    BY DEF AtOp, NextStatement
  <1>2. /\ at \in [Requests -> Nat \ {0}] /\ table \in [Rows -> Int]
    BY DEF IInv, TypeOK
  <1>3. Proper(p)
    BY <1>1, RunningIsProper
  <1>4. n \in Nat /\ n + 1 = at[t] /\ at'[t] - 1 = n + 1
    BY <1>1, <1>2
  <1>5. Along(p, n, table, Held(t), view[t])
    BY <1>1 DEF Follows
  <1>6. /\ p[n + 1].op \in {"insert", "update"} => p[n + 1].row \in Held(t)'
        /\ p[n + 1].op = "update" => AlwaysFits(p[n + 1].row, view'[t][p[n + 1].row])
    BY <1>1, <1>4 DEF RowOf
  <1>7. \A r \in Rows :
          (IF r \in Held(t)' THEN view'[t][r] ELSE table[r]) =
            Changed(p[n + 1], r, IF r \in Held(t) THEN view[t][r] ELSE table[r])
    BY <1>4
  <1>8. Along(p, n + 1, table, Held(t)', view'[t])
    <2> HIDE DEF p, n
    <2> DEFINE H == Held(t)
               v == view[t]
               K == Held(t)'
               w == view'[t]
    <2>1. /\ n + 1 \in DOMAIN p /\ Along(p, n, table, H, v) /\ H \subseteq K
          /\ p[n + 1].op \in {"insert", "update"} => p[n + 1].row \in K
          /\ p[n + 1].op = "update" => AlwaysFits(p[n + 1].row, w[p[n + 1].row])
          /\ \A r \in Rows :
              (IF r \in K THEN w[r] ELSE table[r]) =
                Changed(p[n + 1], r, IF r \in H THEN v[r] ELSE table[r])
      BY <1>1, <1>4, <1>5, <1>6, <1>7
    <2> HIDE DEF H, v, K, w
    <2>2. Along(p, n + 1, table, K, w)
      BY <1>2, <1>3, <1>4, <2>1, AlongStep
    <2> QED
      BY <2>2 DEF K, w
  <1>9. ASSUME NEW u \in Requests
        PROVE  /\ phase'[u] \in {"idle", "connecting"} => at'[u] = 1
               /\ phase'[u] = "running" =>
                    Along(program'[u], at'[u] - 1, table', Held(u)', view'[u])
    <2>1. CASE u = t
      BY <1>1, <1>4, <1>8, <2>1
    <2>2. CASE u # t
      <3>1. at'[u] = at[u] /\ Held(u)' = Held(u) /\ view'[u] = view[u]
        BY <1>1, <1>2, <2>2
      <3> QED
        BY <1>1, <3>1 DEF Follows
    <2> QED
      BY <2>1, <2>2
  <1> QED
    BY <1>9 DEF Follows

\* A statement that neither locks nor writes.
LEMMA SameLocksFollow ==
  ASSUME IInv, PoolInv, Follows, NEW t \in Requests, NEW o, AtOp(t, o), NextStatement(t),
         UNCHANGED << holder, view >>, o # "update",
         o = "insert" => RowOf(t) \in Rows /\ view[t][RowOf(t)] # Absent
  PROVE  Follows'
  <1>1. \A u \in Requests : Held(u)' = Held(u) /\ view'[u] = view[u]
    BY DEF Held
  <1>2. program[t][at[t]].op = o /\ program[t][at[t]].row = RowOf(t)
    BY DEF AtOp, RowOf
  <1>3. o = "insert" => RowOf(t) \in Held(t)
    BY DEF IInv, InViewIffLocked, Held
  <1>4. \A r \in Held(t) : view[t][r] # Absent
    BY ConstantFacts DEF IInv, InViewIffLocked, Held, InRange, Absent
  <1>5. \A r \in Rows :
           (IF r \in Held(t)' THEN view'[t][r] ELSE table[r]) =
             Changed(program[t][at[t]], r, IF r \in Held(t) THEN view[t][r] ELSE table[r])
    BY <1>1, <1>2, <1>3, <1>4 DEF Changed
  <1> QED
    BY <1>1, <1>3, <1>5, StatementFollows

\* What reads or writes names its row.
LEMMA RowNamed ==
  ASSUME PoolInv, NEW t \in Requests, NEW o, AtOp(t, o),
         o \in {"select", "insert", "update"}
  PROVE  RowOf(t) \in Rows
  <1>1. phase[t] = "running" /\ at[t] \in DOMAIN program[t] /\ program[t][at[t]].op = o
    BY DEF AtOp
  <1> QED
    BY <1>1, RunningIsProper DEF Proper, RowOf

\* A row read for update is locked as it is committed.
LEMMA SelectFollows ==
  ASSUME IInv, PoolInv, Follows, NEW t \in Requests, DoSelect(t)
  PROVE  Follows'
  <1> DEFINE r == RowOf(t)
  <1>1. /\ AtOp(t, "select") /\ NextStatement(t) /\ Reads(t, r)
    BY DEF DoSelect
  <1>2. r \in Rows
    BY <1>1, RowNamed
  <1>3. CASE UNCHANGED << view, holder >>
    BY <1>1, <1>3, SameLocksFollow
  <1>4. CASE /\ ~HeldByOther(t, r)
             /\ view' = [view EXCEPT ![t][r] = IF holder[r] = t THEN @ ELSE table[r]]
             /\ holder' = [holder EXCEPT ![r] = t]
    <2>1. program[t][at[t]].op = "select"
      BY <1>1 DEF AtOp
    <2> HIDE DEF r
    <2>2. \A u \in Requests \ {t} : Held(u)' = Held(u) /\ view'[u] = view[u]
      BY <1>2, <1>4, ConstantFacts DEF Held, HeldByOther, IInv, TypeOK
    <2>3. Held(t)' = Held(t) \cup {r}
      BY <1>2, <1>4 DEF Held, IInv, TypeOK
    <2>4. ASSUME NEW q \in Rows
          PROVE  (IF q \in Held(t)' THEN view'[t][q] ELSE table[q]) =
                   (IF q \in Held(t) THEN view[t][q] ELSE table[q])
      <3>1. CASE q = r
        <4>1. r \in Held(t)' /\ (r \in Held(t) <=> holder[r] = t)
              /\ view'[t][r] = IF holder[r] = t THEN view[t][r] ELSE table[r]
          BY <1>2, <1>4, <2>3 DEF IInv, TypeOK, Held
        <4> QED
          BY <3>1, <4>1
      <3>2. CASE q # r
        <4>1. view'[t][q] = view[t][q]
          BY <1>4, <3>2 DEF IInv, TypeOK
        <4> QED
          BY <2>3, <3>2, <4>1
      <3> QED
        BY <3>1, <3>2
    <2>5. \A q \in Rows :
           (IF q \in Held(t)' THEN view'[t][q] ELSE table[q]) =
             Changed(program[t][at[t]], q, IF q \in Held(t) THEN view[t][q] ELSE table[q])
      BY <2>1, <2>4 DEF Changed
    <2>6. Held(t) \subseteq Held(t)'
      BY <2>3
    <2> QED
      BY <1>1, <2>2, <2>5, <2>6, StatementFollows
  <1> QED
    BY <1>1, <1>3, <1>4 DEF Reads

\* A row that is inserted was not committed by anybody.
LEMMA InsertFollows ==
  ASSUME IInv, PoolInv, Follows, NEW t \in Requests, DoInsert(t)
  PROVE  Follows'
  <1> DEFINE r == RowOf(t)
  <1>1. /\ AtOp(t, "insert") /\ NextStatement(t) /\ Inserts(t, r)
    BY DEF DoInsert
  <1>2. r \in Rows
    BY <1>1, RowNamed
  <1>3. CASE view[t][r] # Absent /\ UNCHANGED << view, holder >>
    BY <1>1, <1>2, <1>3, SameLocksFollow
  <1>4. CASE /\ holder[r] = Nobody /\ table[r] = Absent
             /\ view' = [view EXCEPT ![t][r] = 0]
             /\ holder' = [holder EXCEPT ![r] = t]
    <2>1. program[t][at[t]].op = "insert" /\ program[t][at[t]].row = r
      BY <1>1 DEF AtOp, RowOf
    <2> HIDE DEF r
    <2>2. \A u \in Requests \ {t} : Held(u)' = Held(u) /\ view'[u] = view[u]
      BY <1>2, <1>4, ConstantFacts DEF Held, IInv, TypeOK
    <2>3. Held(t)' = Held(t) \cup {r} /\ r \notin Held(t)
      BY <1>2, <1>4, ConstantFacts DEF Held, IInv, TypeOK
    <2>4. ASSUME NEW q \in Rows
          PROVE  (IF q \in Held(t)' THEN view'[t][q] ELSE table[q]) =
             Changed(program[t][at[t]], q, IF q \in Held(t) THEN view[t][q] ELSE table[q])
      <3>1. CASE q = r
        <4>1. view'[t][r] = 0
          BY <1>2, <1>4 DEF IInv, TypeOK
        <4> QED
          BY <1>4, <2>1, <2>3, <3>1, <4>1 DEF Changed
      <3>2. CASE q # r
        <4>1. view'[t][q] = view[t][q]
          BY <1>4, <3>2 DEF IInv, TypeOK
        <4> QED
          BY <2>1, <2>3, <3>2, <4>1 DEF Changed
      <3> QED
        BY <3>1, <3>2
    <2>5. Held(t) \subseteq Held(t)' /\ r \in Held(t)'
      BY <2>3
    <2> QED
      BY <1>1, <2>2, <2>4, <2>5, StatementFollows DEF r
  <1> QED
    BY <1>1, <1>3, <1>4 DEF Inserts

\* Only a row that was read, hence locked, is written.
LEMMA UpdateFollows ==
  ASSUME IInv, PoolInv, Follows, NEW t \in Requests, DoUpdate(t)
  PROVE  Follows'
  <1> DEFINE r == RowOf(t)
             by == ByOf(t)
  <1>1. /\ AtOp(t, "update") /\ NextStatement(t) /\ Accepted(t, r, by)
        /\ holder' = [holder EXCEPT ![r] = t]
        /\ view' = [view EXCEPT ![t][r] = @ + by]
    BY DEF DoUpdate
  <1>2. r \in Rows
    BY <1>1, RowNamed
  <1>3. /\ program[t][at[t]].op = "update" /\ program[t][at[t]].row = r
        /\ program[t][at[t]].by = by
    BY <1>1 DEF AtOp, RowOf, ByOf
  <1> HIDE DEF r, by
  <1>4. holder[r] = t
    BY <1>1, <1>2 DEF Accepted, IInv, InViewIffLocked
  <1>5. \A u \in Requests : Held(u)' = Held(u)
    BY <1>1, <1>2, <1>4 DEF Held, IInv, TypeOK
  <1>6. \A u \in Requests \ {t} : view'[u] = view[u]
    BY <1>1 DEF IInv, TypeOK
  <1>7. r \in Held(t)
    BY <1>2, <1>4 DEF Held
  <1>8. view'[t][r] = view[t][r] + by
    BY <1>1, <1>2 DEF IInv, TypeOK
  <1>9. \A q \in Rows : q # r => view'[t][q] = view[t][q]
    BY <1>1 DEF IInv, TypeOK
  <1>10. \A q \in Rows :
           (IF q \in Held(t)' THEN view'[t][q] ELSE table[q]) =
             Changed(program[t][at[t]], q, IF q \in Held(t) THEN view[t][q] ELSE table[q])
    BY <1>3, <1>5, <1>7, <1>8, <1>9 DEF Changed
  <1>11. AlwaysFits(r, view'[t][r])
    BY <1>1, <1>8 DEF Accepted, AlwaysFits
  <1> QED
    BY <1>1, <1>5, <1>6, <1>7, <1>10, <1>11, StatementFollows DEF r

\* An inner transaction begins or ends.
LEMMA OtherStatementsFollow ==
  ASSUME IInv, PoolInv, Follows, NEW t \in Requests, DoOpen(t) \/ DoClose(t)
  PROVE  Follows'
  BY SameLocksFollow DEF DoOpen, DoClose

\* Beginning and release.
LEMMA QuietFollows ==
  ASSUME IInv, PoolInv, Follows, NEW t \in Requests,
         Begin(t) \/ Connect(t) \/ Release(t), PoolInv'
  PROVE  Follows'
  <1>1. UNCHANGED << table, holder, view, at >>
    BY DEF Begin, Connect, Release
  <1>2. \A u \in Requests \ {t} : phase'[u] = phase[u] /\ program'[u] = program[u]
    BY DEF Begin, Connect, Release, IInv, TypeOK
  <1>3. ASSUME NEW u \in Requests
        PROVE  /\ phase'[u] \in {"idle", "connecting"} => at'[u] = 1
               /\ phase'[u] = "running" =>
                    Along(program'[u], at'[u] - 1, table', Held(u)', view'[u])
    <2>1. CASE u # t
      BY <1>1, <1>2, <2>1 DEF Follows, Held
    <2>2. CASE Begin(t) /\ u = t
      BY <2>2 DEF Begin, Follows, IInv, TypeOK
    <2>3. CASE Connect(t) /\ u = t
      <3>1. /\ phase[t] = "connecting" /\ phase'[t] = "running" /\ program' = program
        BY <2>3 DEF Connect, IInv, TypeOK
      <3>2. at[t] = 1 /\ at'[t] - 1 = 0
        BY <1>1, <3>1 DEF Follows
      <3>3. Held(t) = {}
        BY <3>1 DEF IInv, LockedByRunning, Held
      <3>4. Held(t)' = {}
        BY <1>1, <3>3 DEF Held
      <3>5. Proper(program[t]) /\ table \in [Rows -> Int]
        BY <3>1, RunningIsProper DEF IInv, TypeOK
      <3>6. Along(program[t], 0, table, {}, view[t])
        BY <3>5, AlongStart
      <3> QED
        BY <1>1, <2>3, <3>1, <3>2, <3>4, <3>6
    <2>4. CASE Release(t) /\ u = t
      BY <2>4 DEF Release, IInv, TypeOK
    <2> QED
      BY <2>1, <2>2, <2>3, <2>4
  <1> QED
    BY <1>3 DEF Follows

\* The end of a transaction moves no other one.
LEMMA UnlockFollows ==
  ASSUME IInv, PoolInv, Follows, NEW t \in Requests, Unlock(t),
         phase' = [phase EXCEPT ![t] = "ending"], program' = program, at' = at,
         table' \in [Rows -> Int],
         \A r \in Rows : holder[r] # t => table'[r] = table[r]
  PROVE  Follows'
  <1>1. table \in [Rows -> Int] /\ phase \in [Requests -> Phases]
    BY DEF IInv, TypeOK
  <1>2. ASSUME NEW u \in Requests
        PROVE  /\ phase'[u] \in {"idle", "connecting"} => at'[u] = 1
               /\ phase'[u] = "running" =>
                    Along(program'[u], at'[u] - 1, table', Held(u)', view'[u])
    <2>1. CASE u = t
      BY <1>1, <2>1
    <2>2. CASE u # t
      <3>1. phase'[u] = phase[u]
        BY <1>1, <2>2
      <3>2. Held(u)' = Held(u)
        BY <2>2, UnlockedAfter DEF Held
      <3>3. view'[u] = view[u]
        BY <2>2 DEF Unlock, IInv, TypeOK
      <3>4. ASSUME phase[u] = "running"
            PROVE  Along(program[u], at[u] - 1, table', Held(u), view[u])
        <4>1. Proper(program[u])
          BY <3>4, RunningIsProper
        <4>2. Along(program[u], at[u] - 1, table, Held(u), view[u])
          BY <3>4 DEF Follows
        <4>3. \A r \in Rows : r \in Held(u) => table'[r] = table[r]
          BY <2>2 DEF Held
        <4> QED
          BY <1>1, <4>1, <4>2, <4>3, AlongOther
      <3> QED
        BY <3>1, <3>2, <3>3, <3>4 DEF Follows
    <2> QED
      BY <2>1, <2>2
  <1> QED
    BY <1>2 DEF Follows

\* A commit makes of the committed tables what the program alone would.
LEMMA CommitFollows ==
  ASSUME IInv, PoolInv, Follows, NEW t \in Requests, Commit(t)
  PROVE  Follows' /\ Alone!RunAlone(program[t]) /\ program[t] \in ProgramsOf[t]
  <1> DEFINE p == program[t]
  <1>1. /\ phase[t] = "running" /\ at[t] \notin DOMAIN p
        /\ Unlock(t) /\ program' = program /\ at' = at
        /\ phase' = [phase EXCEPT ![t] = "ending"]
        /\ table' = [r \in Rows |-> IF holder[r] = t THEN view[t][r] ELSE table[r]]
    BY DEF Commit
  <1>2. /\ table \in [Rows -> Int] /\ view[t] \in [Rows -> Int]
        /\ at[t] \in Nat \ {0}
    BY DEF IInv, TypeOK
  <1>3. table' \in [Rows -> Int] /\ \A r \in Rows : holder[r] # t => table'[r] = table[r]
    BY <1>1, <1>2
  <1>4. Follows'
    BY <1>1, <1>3, UnlockFollows
  <1>5. Proper(p) /\ p \in ProgramsOf[t]
    BY <1>1, RunningIsProper
  <1>6. Along(p, at[t] - 1, table, Held(t), view[t])
    BY <1>1 DEF Follows
  <1>7. at[t] - 1 = Len(p)
    <2>1. Len(p) \in Nat /\ DOMAIN p = 1 .. Len(p)
      BY <1>5, ProperLength
    <2>2. at[t] - 1 \in 0 .. Len(p)
      BY <1>6 DEF Along
    <2> HIDE DEF p
    <2> QED
      BY <1>1, <1>2, <2>1, <2>2
  <1>8. Along(p, Len(p), table, Held(t), view[t])
    BY <1>6, <1>7
  <1>9. table' = [r \in Rows |-> IF r \in Held(t) THEN view[t][r] ELSE table[r]]
    BY <1>1 DEF Held
  <1>10. Alone!RunAlone(p)
    <2> HIDE DEF p
    <2> QED
      BY <1>2, <1>5, <1>8, <1>9, AlongEnd
  <1> QED
    BY <1>4, <1>5, <1>10

\* A rollback commits nothing.
LEMMA RollbackFollows ==
  ASSUME IInv, PoolInv, Follows, NEW t \in Requests, Rollback(t)
  PROVE  Follows'
  BY UnlockFollows DEF Rollback, IInv, TypeOK

\* Nobody runs at the start.
LEMMA InitFollows == Init => Follows
  BY DEF Init, Follows

\* Every step keeps the invariant; a commit is the whole program run alone, and
\* no other step changes a table.
LEMMA NextFollows ==
  ASSUME IInv, PoolInv, Follows, [Next]_vars
  PROVE  /\ Follows'
         /\ \/ UNCHANGED table
            \/ \E p \in UNION {ProgramsOf[t] : t \in Requests} : Alone!RunAlone(p)
  <1>0. PoolInv'
    BY NextPoolInv
  <1>1. ASSUME NEW t \in Requests, Begin(t) \/ Connect(t) \/ Release(t)
        PROVE  Follows' /\ UNCHANGED table
    BY <1>0, <1>1, QuietFollows DEF Begin, Connect, Release
  <1>2. ASSUME NEW t \in Requests, DoSelect(t)
        PROVE  Follows' /\ UNCHANGED table
    BY <1>2, SelectFollows DEF DoSelect, NextStatement
  <1>3. ASSUME NEW t \in Requests, DoInsert(t)
        PROVE  Follows' /\ UNCHANGED table
    BY <1>3, InsertFollows DEF DoInsert, NextStatement
  <1>4. ASSUME NEW t \in Requests, DoUpdate(t)
        PROVE  Follows' /\ UNCHANGED table
    BY <1>4, UpdateFollows DEF DoUpdate, NextStatement
  <1>5. ASSUME NEW t \in Requests, DoOpen(t) \/ DoClose(t)
        PROVE  Follows' /\ UNCHANGED table
    BY <1>5, OtherStatementsFollow DEF DoOpen, DoClose, NextStatement
  <1>6. ASSUME NEW t \in Requests, Commit(t)
        PROVE  /\ Follows'
               /\ \E p \in UNION {ProgramsOf[u] : u \in Requests} : Alone!RunAlone(p)
    BY <1>6, CommitFollows
  <1>7. ASSUME NEW t \in Requests, Rollback(t)
        PROVE  Follows' /\ UNCHANGED table
    BY <1>7, RollbackFollows DEF Rollback
  <1>8. ASSUME UNCHANGED vars
        PROVE  Follows' /\ UNCHANGED table
    BY <1>8 DEF vars, Follows, Held
  <1> QED
    BY <1>1, <1>2, <1>3, <1>4, <1>5, <1>6, <1>7, <1>8 DEF Next, Advance, AllDone

\* However the statements interleave, the tables change as if one function
\* given to withTransaction had run after the other.
THEOREM OneAfterTheOther == Spec => RunsSerially
  <1>1. Init => IInv /\ PoolInv /\ Follows
    BY InitIInv, InitFollows DEF Init, PoolInv, IInv
  <1>2. IInv /\ PoolInv /\ Follows /\ [Next]_vars => (IInv /\ PoolInv /\ Follows)'
    BY NextIInv, NextPoolInv, NextFollows
  <1>3. IInv /\ PoolInv /\ Follows /\ [Next]_vars =>
          [\E p \in UNION {ProgramsOf[t] : t \in Requests} : Alone!RunAlone(p)]_table
    BY NextFollows
  <1> QED
    BY <1>1, <1>2, <1>3, PTL DEF Spec, RunsSerially, Alone!SerialSpec
=============================================================================
