-------------------------- MODULE MembersTheorems --------------------------
(***************************************************************************)
(* Proofs about Members: for any number of users, requests, submissions,   *)
(* beneficiaries and trades.                                               *)
(***************************************************************************)
EXTENDS Members, TLAPS

InDefault == {"find", "unset", "set", "commit"}

\* A request is at a statement of the handler it was admitted to.
WorkFits(r) ==
  /\ step[r] \in {"select"} \cup InDefault => work[r] \in Payee /\ work[r].op = "default"
  /\ step[r] \in {"trade", "existing", "insert"} => work[r] \in Rate
  /\ step[r] \in {"existing", "insert"} =>
       work[r].on \in completed /\ work[r].by \in Parties[work[r].on]

\* Two set-defaults of one user and currency that have read their targets
\* have overlapped, and neither is alone.
AloneIsAlone(r) ==
  step[r] \in InDefault /\ alone[r] =>
    \A q \in Requests \ {r} : step[q] \in InDefault => work[q].on \notin Peers(work[r].on)

\* What a lone set-default has found and unset is all there is.
LoneSeesAll(r) ==
  alone[r] =>
    /\ step[r] = "unset" => Peers(work[r].on) \cap default \subseteq found[r]
    /\ step[r] \in {"set", "commit"} => Peers(work[r].on) \cap default \subseteq cleared[r]

\* The inductive invariant.
IInv ==
  /\ TypeOK
  /\ \A r \in Requests : WorkFits(r)
  /\ \A r \in Requests : AloneIsAlone(r)
  /\ \A r \in Requests : LoneSeesAll(r)
  /\ VerifiedHaveRecords
  /\ OneRatingPerParty
-----------------------------------------------------------------------------
(* What a piece of work is.                                                *)

LEMMA WorkFields ==
  /\ \A w \in Upload : w.op = "upload" /\ w.by \in Users /\ w.on \in Submissions
  /\ \A w \in Decide : w.op \in Decisions /\ w.by \in Users /\ w.on \in Submissions
  /\ \A w \in Payee : w.op \in {"create", "delete", "default"}
                      /\ w.by \in Users /\ w.on \in Beneficiaries
  /\ \A w \in Rate : w.op = "rate" /\ w.by \in Users /\ w.on \in Trades
  BY DEF Upload, Decide, Payee, Rate

LEMMA PeersAreMutual ==
  /\ \A b \in Beneficiaries : b \in Peers(b) /\ Peers(b) \subseteq Beneficiaries
  /\ \A b, c \in Beneficiaries : c \in Peers(b) => Peers(c) = Peers(b)
  BY DEF Peers

\* Owners and parties are users.
LEMMA ConstantFacts ==
  /\ \A x \in Submissions \cup Beneficiaries : Owner[x] \in Users
  /\ Nobody \notin Requests
  BY MembersAssumption

-----------------------------------------------------------------------------
(* The parts of the type invariant.                                        *)

AccountsTyped ==
  /\ role \in [Users -> Roles] /\ status \in [Users -> Statuses]
  /\ blocked \subseteq Users /\ setUp \subseteq Users
  /\ kyc \in [Submissions -> Statuses \cup {"none"}]
RequestsTyped ==
  /\ work \in [Requests -> Upload \cup Decide \cup Payee \cup Rate \cup {NoWork}]
  /\ step \in [Requests -> {"idle", "run", "select", "find", "unset", "set", "commit",
                            "trade", "existing", "insert"}]
RowsTyped ==
  /\ fresh \subseteq Beneficiaries /\ exists \subseteq Beneficiaries \ fresh
  /\ default \subseteq exists
  /\ lock \in [Beneficiaries -> Requests \cup {Nobody}]
  /\ \A b \in Beneficiaries : lock[b] # Nobody => step[lock[b]] \in {"set", "commit"}
  /\ found \in [Requests -> SUBSET Beneficiaries] /\ cleared \in [Requests -> SUBSET Beneficiaries]
  /\ alone \in [Requests -> BOOLEAN]
RatingsTyped == completed \subseteq Trades /\ ratings \in [Trades -> [Users -> Nat]]

LEMMA TypeParts == TypeOK <=> AccountsTyped /\ RequestsTyped /\ RowsTyped /\ RatingsTyped
  BY DEF TypeOK, AccountsTyped, RequestsTyped, RowsTyped, RatingsTyped

LEMMA AccountsStep ==
  ASSUME TypeOK, [Next]_vars
  PROVE  AccountsTyped'
  <1> USE TypeParts DEF AccountsTyped
  <1>1. ASSUME NEW u \in Users, Registers(u) \/ CompleteAdminSetup(u) \/ RoleChanges(u) \/ Blocks(u)
        PROVE  AccountsTyped'
    BY <1>1 DEF Registers, CompleteAdminSetup, RoleChanges, Blocks, Roles, Statuses
  <1>2. ASSUME NEW r \in Requests, UploadKyc(r)
        PROVE  AccountsTyped'
    BY <1>2, WorkFields DEF UploadKyc, Statuses
  <1>3. ASSUME NEW r \in Requests, ApproveKyc(r) \/ RejectKyc(r)
        PROVE  AccountsTyped'
    BY <1>3, WorkFields, ConstantFacts DEF ApproveKyc, RejectKyc, Decides, Statuses, Decisions
  <1>4. CASE UNCHANGED <<account, kyc>>
    BY <1>4 DEF account
  <1>5. PayeeNext \/ RatingNext => UNCHANGED <<account, kyc>>
    BY DEF PayeeNext, CreateBeneficiary, DeleteBeneficiary, SelectsTarget, FindsDefaults,
           UnsetsDefaults, SetsTarget, CommitsDefault,
           RatingNext, TradeCompletes, ReadsTrade, ReadsExisting, InsertsRating
  <1>6. ASSUME NEW r \in Requests, Admitted(r) \/ Fails(r)
        PROVE  UNCHANGED <<account, kyc>>
    BY <1>6 DEF Admitted, Fails
  <1>7. CASE UNCHANGED vars
    BY <1>7, <1>4 DEF vars
  <1> QED
    BY <1>1, <1>2, <1>3, <1>4, <1>5, <1>6, <1>7 DEF Next, AccountNext, KycNext

LEMMA RequestsStep ==
  ASSUME TypeOK, [Next]_vars
  PROVE  RequestsTyped'
  <1> USE TypeParts DEF RequestsTyped
  <1>1. ASSUME NEW r \in Requests, Ends(r)
        PROVE  RequestsTyped'
    BY <1>1 DEF Ends
  <1>2. ASSUME NEW r \in Requests, NEW p, StepsTo(r, p),
               p \in {"find", "unset", "set", "commit", "existing", "insert"}
        PROVE  RequestsTyped'
    BY <1>2 DEF StepsTo
  <1>3. ASSUME NEW r \in Requests, Admitted(r)
        PROVE  RequestsTyped'
    BY <1>3 DEF Admitted, Starts
  <1>4. CASE UNCHANGED request
    BY <1>4 DEF request
  <1>5. AccountNext => UNCHANGED request
    BY DEF AccountNext, Registers, CompleteAdminSetup, RoleChanges, Blocks
  <1>6. KycNext => \E r \in Requests : Ends(r)
    BY DEF KycNext, UploadKyc, ApproveKyc, RejectKyc, Decides
  <1>7. PayeeNext => RequestsTyped'
    BY <1>1, <1>2 DEF PayeeNext, CreateBeneficiary, DeleteBeneficiary, SelectsTarget, FindsDefaults,
           UnsetsDefaults, SetsTarget, CommitsDefault
  <1>8. RatingNext => RequestsTyped'
    BY <1>1, <1>2, <1>4 DEF RatingNext, TradeCompletes, ReadsTrade, ReadsExisting, InsertsRating
  <1>9. ASSUME NEW r \in Requests, Fails(r)
        PROVE  RequestsTyped'
    BY <1>9, <1>1 DEF Fails
  <1>10. CASE UNCHANGED vars
    BY <1>10, <1>4 DEF vars
  <1> QED
    BY <1>1, <1>3, <1>4, <1>5, <1>6, <1>7, <1>8, <1>9, <1>10 DEF Next

\* A request that ends or moves on from a statement without locks keeps what
\* is known of the locks.
LEMMA RowsStep ==
  ASSUME TypeOK, [Next]_vars
  PROVE  RowsTyped'
  <1> USE TypeParts DEF RowsTyped, RequestsTyped
  <1>1. ASSUME NEW r \in Requests, CreateBeneficiary(r) \/ DeleteBeneficiary(r)
        PROVE  RowsTyped'
    BY <1>1, ConstantFacts DEF CreateBeneficiary, DeleteBeneficiary, Ends
  <1>2. ASSUME NEW r \in Requests, SelectsTarget(r) \/ FindsDefaults(r)
        PROVE  RowsTyped'
    <2>1. \A b \in Beneficiaries : lock'[b] # Nobody => step'[lock'[b]] \in {"set", "commit"}
      BY <1>2, ConstantFacts DEF SelectsTarget, FindsDefaults, StepsTo
    <2>2. found' \in [Requests -> SUBSET Beneficiaries]
      BY <1>2 DEF SelectsTarget, FindsDefaults
    <2>3. alone' \in [Requests -> BOOLEAN]
      BY <1>2 DEF SelectsTarget, FindsDefaults
    <2> QED
      BY <1>2, <2>1, <2>2, <2>3 DEF SelectsTarget, FindsDefaults
  <1>3. ASSUME NEW r \in Requests, UnsetsDefaults(r)
        PROVE  RowsTyped'
    BY <1>3, ConstantFacts DEF UnsetsDefaults, StepsTo
  <1>4. ASSUME NEW r \in Requests, SetsTarget(r)
        PROVE  RowsTyped'
    BY <1>4, ConstantFacts DEF SetsTarget, StepsTo
  <1>5. ASSUME NEW r \in Requests, CommitsDefault(r) \/ Fails(r)
        PROVE  RowsTyped'
    BY <1>5, ConstantFacts DEF CommitsDefault, Fails, Ends
  <1>6. ASSUME NEW r \in Requests, UNCHANGED payee, Ends(r), step[r] \notin {"set", "commit"}
        PROVE  RowsTyped'
    BY <1>6, ConstantFacts DEF payee, Ends
  <1>7. ASSUME NEW r \in Requests, NEW p, UNCHANGED payee, step' = [step EXCEPT ![r] = p],
               step[r] \notin {"set", "commit"}
        PROVE  RowsTyped'
    BY <1>7, ConstantFacts DEF payee
  <1>8. CASE UNCHANGED <<request, payee>>
    BY <1>8 DEF request, payee
  <1>9. AccountNext => UNCHANGED <<request, payee>>
    BY DEF AccountNext, Registers, CompleteAdminSetup, RoleChanges, Blocks
  <1>10. KycNext => RowsTyped'
    BY <1>6 DEF KycNext, UploadKyc, ApproveKyc, RejectKyc, Decides
  <1>11. RatingNext => RowsTyped'
    BY <1>6, <1>7, <1>8 DEF RatingNext, TradeCompletes, ReadsTrade, ReadsExisting, InsertsRating,
                            StepsTo
  <1>12. ASSUME NEW r \in Requests, Admitted(r)
         PROVE  RowsTyped'
    <2>1. UNCHANGED payee /\ step[r] = "idle" /\ \E p : step' = [step EXCEPT ![r] = p]
      BY <1>12 DEF Admitted, Starts
    <2> QED
      BY <2>1, <1>7
  <1>13. CASE UNCHANGED vars
    BY <1>13, <1>8 DEF vars
  <1> QED
    BY <1>1, <1>2, <1>3, <1>4, <1>5, <1>8, <1>9, <1>10, <1>11, <1>12, <1>13 DEF Next, PayeeNext

LEMMA RatingsStep ==
  ASSUME TypeOK, \A r \in Requests : WorkFits(r), [Next]_vars
  PROVE  RatingsTyped'
  <1> USE TypeParts DEF RatingsTyped
  <1>1. ASSUME NEW r \in Requests, InsertsRating(r)
        PROVE  RatingsTyped'
    <2> DEFINE t == work[r].on
               u == work[r].by
    <2>1. t \in Trades /\ u \in Users
      BY <1>1, WorkFields DEF InsertsRating, WorkFits
    <2>2. ratings[t] \in [Users -> Nat] /\ ratings[t][u] \in Nat
      BY <2>1
    <2>3. ratings' = [ratings EXCEPT ![t] = [ratings[t] EXCEPT ![u] = ratings[t][u] + 1]]
      BY <1>1, <2>1, <2>2 DEF InsertsRating
    <2>4. [ratings[t] EXCEPT ![u] = ratings[t][u] + 1] \in [Users -> Nat]
      BY <2>1, <2>2
    <2>5. completed' = completed
      BY <1>1 DEF InsertsRating
    <2> HIDE DEF t, u
    <2> QED
      BY <2>1, <2>3, <2>4, <2>5
  <1>2. ASSUME NEW t \in Trades, TradeCompletes(t)
        PROVE  RatingsTyped'
    BY <1>2 DEF TradeCompletes
  <1>3. CASE UNCHANGED trading
    BY <1>3 DEF trading
  <1>4. AccountNext \/ KycNext \/ PayeeNext => UNCHANGED trading
    BY DEF AccountNext, Registers, CompleteAdminSetup, RoleChanges, Blocks, KycNext, UploadKyc,
           ApproveKyc, RejectKyc, Decides,
           PayeeNext, CreateBeneficiary, DeleteBeneficiary, SelectsTarget, FindsDefaults,
           UnsetsDefaults, SetsTarget, CommitsDefault
  <1>5. ASSUME NEW r \in Requests, Admitted(r) \/ Fails(r) \/ ReadsTrade(r) \/ ReadsExisting(r)
        PROVE  UNCHANGED trading
    BY <1>5 DEF Admitted, Fails, ReadsTrade, ReadsExisting
  <1>6. CASE UNCHANGED vars
    BY <1>6, <1>3 DEF vars
  <1> QED
    BY <1>1, <1>2, <1>3, <1>4, <1>5, <1>6 DEF Next, RatingNext

LEMMA TypeStep ==
  ASSUME TypeOK, \A r \in Requests : WorkFits(r), [Next]_vars
  PROVE  TypeOK'
  BY AccountsStep, RequestsStep, RowsStep, RatingsStep
     DEF TypeOK, AccountsTyped, RequestsTyped, RowsTyped, RatingsTyped

-----------------------------------------------------------------------------
(* The identity check.                                                     *)

LEMMA RecordsStep ==
  ASSUME TypeOK, VerifiedHaveRecords, [Next]_vars
  PROVE  VerifiedHaveRecords'
  <1> USE TypeParts DEF VerifiedHaveRecords, AccountsTyped
  <1>1. ASSUME NEW u \in Users, Registers(u) \/ CompleteAdminSetup(u) \/ RoleChanges(u) \/ Blocks(u)
        PROVE  VerifiedHaveRecords'
    BY <1>1 DEF Registers, CompleteAdminSetup, RoleChanges, Blocks
  <1>2. ASSUME NEW r \in Requests, UploadKyc(r)
        PROVE  VerifiedHaveRecords'
    BY <1>2, WorkFields DEF UploadKyc
  <1>3. ASSUME NEW r \in Requests, ApproveKyc(r) \/ RejectKyc(r)
        PROVE  VerifiedHaveRecords'
    BY <1>3, WorkFields, ConstantFacts DEF ApproveKyc, RejectKyc, Decides, Decisions
  <1>4. CASE UNCHANGED <<account, kyc>>
    BY <1>4 DEF account
  <1>5. PayeeNext \/ RatingNext => UNCHANGED <<account, kyc>>
    BY DEF PayeeNext, CreateBeneficiary, DeleteBeneficiary, SelectsTarget, FindsDefaults,
           UnsetsDefaults, SetsTarget, CommitsDefault,
           RatingNext, TradeCompletes, ReadsTrade, ReadsExisting, InsertsRating
  <1>6. ASSUME NEW r \in Requests, Admitted(r) \/ Fails(r)
        PROVE  UNCHANGED <<account, kyc>>
    BY <1>6 DEF Admitted, Fails
  <1>7. CASE UNCHANGED vars
    BY <1>7, <1>4 DEF vars
  <1> QED
    BY <1>1, <1>2, <1>3, <1>4, <1>5, <1>6, <1>7 DEF Next, AccountNext, KycNext

-----------------------------------------------------------------------------
(* Requests and their work.                                                *)

LEMMA WorkStep ==
  ASSUME TypeOK, \A r \in Requests : WorkFits(r), [Next]_vars
  PROVE  \A r \in Requests : WorkFits(r)'
  <1> SUFFICES ASSUME NEW q \in Requests PROVE WorkFits(q)'
    OBVIOUS
  <1> USE TypeParts DEF RequestsTyped, WorkFits, InDefault
  <1>1. completed \subseteq completed'
    BY DEF Next, vars, account, request, payee, trading,
           AccountNext, Registers, CompleteAdminSetup, RoleChanges, Blocks, KycNext, UploadKyc,
           ApproveKyc, RejectKyc, Decides,
           PayeeNext, CreateBeneficiary, DeleteBeneficiary, SelectsTarget, FindsDefaults,
           UnsetsDefaults, SetsTarget, CommitsDefault,
           RatingNext, TradeCompletes, ReadsTrade, ReadsExisting, InsertsRating, Admitted, Fails
  <1>2. ASSUME NEW r \in Requests, Ends(r)
        PROVE  WorkFits(q)'
    BY <1>1, <1>2 DEF Ends
  <1>3. CASE UNCHANGED request
    BY <1>1, <1>3 DEF request
  <1>4. ASSUME NEW r \in Requests, Admitted(r)
        PROVE  WorkFits(q)'
    BY <1>1, <1>4, WorkFields DEF Admitted, Starts
  <1>5. AccountNext => UNCHANGED request
    BY DEF AccountNext, Registers, CompleteAdminSetup, RoleChanges, Blocks
  <1>6. KycNext => \E r \in Requests : Ends(r)
    BY DEF KycNext, UploadKyc, ApproveKyc, RejectKyc, Decides
  <1>7. ASSUME NEW r \in Requests,
               SelectsTarget(r) \/ FindsDefaults(r) \/ UnsetsDefaults(r) \/ SetsTarget(r)
        PROVE  WorkFits(q)'
    BY <1>1, <1>7 DEF SelectsTarget, FindsDefaults, UnsetsDefaults, SetsTarget, StepsTo
  <1>8. ASSUME NEW r \in Requests, ReadsTrade(r) \/ ReadsExisting(r)
        PROVE  WorkFits(q)'
    BY <1>1, <1>8 DEF ReadsTrade, ReadsExisting, StepsTo
  <1>9. ASSUME NEW r \in Requests,
               CreateBeneficiary(r) \/ DeleteBeneficiary(r) \/ CommitsDefault(r) \/ InsertsRating(r) \/ Fails(r)
        PROVE  Ends(r)
    BY <1>9 DEF CreateBeneficiary, DeleteBeneficiary, CommitsDefault, InsertsRating, Fails
  <1>10. ASSUME NEW t \in Trades, TradeCompletes(t)
         PROVE  UNCHANGED request
    BY <1>10 DEF TradeCompletes
  <1>11. CASE UNCHANGED vars
    BY <1>11, <1>3 DEF vars
  <1> QED
    BY <1>2, <1>3, <1>4, <1>5, <1>6, <1>7, <1>8, <1>9, <1>10, <1>11 DEF Next, PayeeNext, RatingNext

-----------------------------------------------------------------------------
(* Ratings.                                                                *)

LEMMA OneRatingStep ==
  ASSUME TypeOK, \A r \in Requests : WorkFits(r), OneRatingPerParty, [Next]_vars
  PROVE  OneRatingPerParty'
  <1> USE TypeParts DEF OneRatingPerParty, RatingsTyped
  <1>1. ASSUME NEW r \in Requests, InsertsRating(r)
        PROVE  OneRatingPerParty'
    <2>1. work[r].on \in completed /\ work[r].by \in Parties[work[r].on]
      BY <1>1 DEF InsertsRating, WorkFits
    <2> QED
      BY <1>1, <2>1 DEF InsertsRating
  <1>2. ASSUME NEW t \in Trades, TradeCompletes(t)
        PROVE  OneRatingPerParty'
    <2>1. ASSUME NEW s \in Trades, NEW u \in Users
          PROVE  /\ ratings'[s][u] = ratings[s][u] /\ ratings[s][u] \in Nat
                 /\ s \in completed => s \in completed'
      BY <1>2 DEF TradeCompletes
    <2>2. ASSUME NEW s \in Trades, NEW u \in Users
          PROVE  ratings'[s][u] <= (IF s \in completed' /\ u \in Parties[s] THEN 1 ELSE 0)
      BY <2>1
    <2> QED
      BY <2>2
  <1>3. CASE UNCHANGED trading
    BY <1>3 DEF trading
  <1>4. AccountNext \/ KycNext \/ PayeeNext => UNCHANGED trading
    BY DEF AccountNext, Registers, CompleteAdminSetup, RoleChanges, Blocks, KycNext, UploadKyc,
           ApproveKyc, RejectKyc, Decides,
           PayeeNext, CreateBeneficiary, DeleteBeneficiary, SelectsTarget, FindsDefaults,
           UnsetsDefaults, SetsTarget, CommitsDefault
  <1>5. ASSUME NEW r \in Requests, Admitted(r) \/ Fails(r) \/ ReadsTrade(r) \/ ReadsExisting(r)
        PROVE  UNCHANGED trading
    BY <1>5 DEF Admitted, Fails, ReadsTrade, ReadsExisting
  <1>6. CASE UNCHANGED vars
    BY <1>6, <1>3 DEF vars
  <1> QED
    BY <1>1, <1>2, <1>3, <1>4, <1>5, <1>6 DEF Next, RatingNext

-----------------------------------------------------------------------------
(* The default beneficiary.                                                *)

\* Where a request is does not change but by a step of its own.
OthersStay(r) == \A q \in Requests \ {r} : work'[q] = work[q] /\ step'[q] = step[q]

LEMMA OwnSteps ==
  ASSUME TypeOK, NEW r \in Requests,
         \/ Admitted(r) \/ Fails(r) \/ UploadKyc(r) \/ ApproveKyc(r) \/ RejectKyc(r)
         \/ CreateBeneficiary(r) \/ DeleteBeneficiary(r) \/ CommitsDefault(r)
         \/ ReadsTrade(r) \/ ReadsExisting(r) \/ InsertsRating(r)
  PROVE  OthersStay(r) /\ step'[r] \notin InDefault /\ UNCHANGED alone
  <1> USE TypeParts DEF RequestsTyped, OthersStay, InDefault
  <1>1. CASE Ends(r)
    <2>1. UNCHANGED alone
      BY DEF Admitted, Fails, UploadKyc, ApproveKyc, RejectKyc, Decides, CreateBeneficiary,
             DeleteBeneficiary, CommitsDefault,
             ReadsTrade, ReadsExisting, InsertsRating, payee
    <2> QED
      BY <1>1, <2>1 DEF Ends
  <1>2. CASE Admitted(r)
    BY <1>2 DEF Admitted, Starts, payee
  <1>3. CASE ReadsTrade(r) \/ ReadsExisting(r)
    BY <1>3 DEF ReadsTrade, ReadsExisting, StepsTo, payee
  <1> QED
    BY <1>1, <1>2, <1>3
       DEF Fails, UploadKyc, ApproveKyc, RejectKyc, Decides, CreateBeneficiary,
           DeleteBeneficiary, CommitsDefault, InsertsRating

\* The statements of a set-default after its first.
LEMMA DefaultSteps ==
  ASSUME TypeOK, NEW r \in Requests, FindsDefaults(r) \/ UnsetsDefaults(r) \/ SetsTarget(r)
  PROVE  /\ OthersStay(r) /\ UNCHANGED <<alone, work, exists, default>>
         /\ step[r] \in InDefault /\ step'[r] \in InDefault
  BY TypeParts DEF RequestsTyped, OthersStay, InDefault, FindsDefaults, UnsetsDefaults,
                   SetsTarget, StepsTo

LEMMA QuietSteps ==
  ASSUME AccountNext \/ (\E t \in Trades : TradeCompletes(t)) \/ UNCHANGED vars
  PROVE  UNCHANGED <<request, payee>>
  BY DEF AccountNext, Registers, CompleteAdminSetup, RoleChanges, Blocks, TradeCompletes, vars

LEMMA AloneStep ==
  ASSUME TypeOK, \A r \in Requests : WorkFits(r), \A r \in Requests : AloneIsAlone(r), [Next]_vars
  PROVE  \A r \in Requests : AloneIsAlone(r)'
  <1> USE DEF AloneIsAlone
  <1>1. CASE UNCHANGED <<request, payee>>
    BY <1>1 DEF request, payee
  <1>2. ASSUME NEW r \in Requests, OthersStay(r), UNCHANGED alone, step'[r] \notin InDefault
        PROVE  \A q \in Requests : AloneIsAlone(q)'
    BY <1>2 DEF OthersStay
  <1>3. ASSUME NEW r \in Requests, FindsDefaults(r) \/ UnsetsDefaults(r) \/ SetsTarget(r)
        PROVE  \A q \in Requests : AloneIsAlone(q)'
    BY <1>3, DefaultSteps DEF OthersStay
  <1>4. ASSUME NEW r \in Requests, SelectsTarget(r)
        PROVE  \A q \in Requests : AloneIsAlone(q)'
    <2> DEFINE Others == {q \in Requests \ {r} : SetsDefault(q, work[r].on) /\ step[q] # "select"}
    <2>0. alone' = [q \in Requests |-> IF q = r THEN Others = {} ELSE alone[q] /\ q \notin Others]
      BY <1>4, Zenon DEF SelectsTarget
    <2>1. /\ OthersStay(r) /\ work' = work /\ step[r] = "select"
          /\ work[r].on \in Beneficiaries
      BY <1>4, TypeParts, WorkFields DEF SelectsTarget, StepsTo, OthersStay, RequestsTyped, WorkFits
    <2>2. \A q \in Requests : step[q] \in InDefault => work[q].on \in Beneficiaries
      BY WorkFields DEF WorkFits
    <2>3. \A q \in Requests \ {r} :
            step[q] \in InDefault /\ work[q].on \in Peers(work[r].on) => q \in Others
      BY DEF SetsDefault, WorkFits, InDefault
    <2> HIDE DEF Others
    <2>4. ASSUME NEW q \in Requests, step'[q] \in InDefault, alone'[q],
                 NEW p \in Requests \ {q}, step'[p] \in InDefault
          PROVE  work[p].on \notin Peers(work[q].on)
      <3>1. CASE q = r
        BY <2>0, <2>1, <2>3, <2>4, <3>1 DEF OthersStay
      <3>2. CASE p = r
        BY <2>0, <2>1, <2>2, <2>3, <2>4, <3>2, PeersAreMutual DEF OthersStay
      <3>3. CASE q # r /\ p # r
        BY <2>0, <2>1, <2>4, <3>3 DEF OthersStay
      <3> QED
        BY <3>1, <3>2, <3>3
    <2> QED
      BY <2>1, <2>4
  <1>5. ASSUME NEW r \in Requests,
               \/ Admitted(r) \/ Fails(r) \/ UploadKyc(r) \/ ApproveKyc(r) \/ RejectKyc(r)
               \/ CreateBeneficiary(r) \/ DeleteBeneficiary(r) \/ CommitsDefault(r)
               \/ ReadsTrade(r) \/ ReadsExisting(r) \/ InsertsRating(r)
        PROVE  \A q \in Requests : AloneIsAlone(q)'
    BY <1>2, <1>5, OwnSteps
  <1> QED
    BY <1>1, <1>3, <1>4, <1>5, QuietSteps DEF Next, KycNext, PayeeNext, RatingNext

\* A row becomes default only when a set-default of its user and currency commits.
LEMMA SeesStep ==
  ASSUME TypeOK, \A r \in Requests : WorkFits(r), \A r \in Requests : AloneIsAlone(r),
         \A r \in Requests : LoneSeesAll(r), [Next]_vars
  PROVE  \A r \in Requests : LoneSeesAll(r)'
  <1> USE DEF LoneSeesAll
  <1>1. CASE UNCHANGED <<request, payee>>
    BY <1>1 DEF request, payee
  <1>2. ASSUME NEW r \in Requests, OthersStay(r), UNCHANGED alone, step'[r] \notin InDefault,
               default' \subseteq default,
               \A q \in Requests \ {r} : found'[q] = found[q] /\ cleared'[q] = cleared[q]
        PROVE  \A q \in Requests : LoneSeesAll(q)'
    BY <1>2 DEF OthersStay, InDefault
  <1>3. ASSUME NEW r \in Requests,
               \/ Admitted(r) \/ UploadKyc(r) \/ ApproveKyc(r) \/ RejectKyc(r)
               \/ ReadsTrade(r) \/ ReadsExisting(r) \/ InsertsRating(r)
        PROVE  \A q \in Requests : LoneSeesAll(q)'
    <2>0. UNCHANGED payee
      BY <1>3 DEF Admitted, UploadKyc, ApproveKyc, RejectKyc, Decides, ReadsTrade, ReadsExisting,
                  InsertsRating
    <2> QED
      BY <1>2, <1>3, <2>0, OwnSteps DEF payee
  <1>4. ASSUME NEW r \in Requests, CreateBeneficiary(r) \/ DeleteBeneficiary(r) \/ Fails(r)
        PROVE  \A q \in Requests : LoneSeesAll(q)'
    <2>0. default' \subseteq default
      BY <1>4 DEF CreateBeneficiary, DeleteBeneficiary, Fails
    <2>1. \A q \in Requests \ {r} : found'[q] = found[q] /\ cleared'[q] = cleared[q]
      BY <1>4, TypeParts DEF CreateBeneficiary, DeleteBeneficiary, Fails, RowsTyped
    <2> QED
      BY <1>2, <1>4, <2>0, <2>1, OwnSteps
  <1>5. ASSUME NEW r \in Requests, CommitsDefault(r)
        PROVE  \A q \in Requests : LoneSeesAll(q)'
    <2>0. OthersStay(r) /\ UNCHANGED alone /\ step'[r] \notin InDefault
      BY <1>5, OwnSteps
    <2>1. \A q \in Requests \ {r} : found'[q] = found[q] /\ cleared'[q] = cleared[q]
      BY <1>5, TypeParts DEF CommitsDefault, RowsTyped
    <2>2. default' \subseteq default \cup {work[r].on} /\ step[r] \in InDefault
      BY <1>5 DEF CommitsDefault, InDefault
    <2>3. ASSUME NEW q \in Requests \ {r}, alone'[q], step'[q] \in InDefault
          PROVE  work[r].on \notin Peers(work'[q].on)
      BY <2>0, <2>2, <2>3 DEF OthersStay, AloneIsAlone
    <2>4. ASSUME NEW q \in Requests \ {r}
          PROVE  LoneSeesAll(q)'
      BY <2>0, <2>1, <2>2, <2>3 DEF OthersStay, InDefault
    <2>5. LoneSeesAll(r)'
      BY <2>0 DEF InDefault
    <2> QED
      BY <2>4, <2>5
  <1>6. ASSUME NEW r \in Requests, SelectsTarget(r)
        PROVE  \A q \in Requests : LoneSeesAll(q)'
    <2>0. ASSUME NEW q \in Requests
          PROVE  /\ step'[q] = (IF q = r THEN "find" ELSE step[q])
                 /\ alone'[q] /\ q # r => alone[q]
      BY <1>6, TypeParts DEF SelectsTarget, StepsTo, RequestsTyped
    <2>1. UNCHANGED <<work, default, found, cleared>>
      BY <1>6 DEF SelectsTarget, StepsTo
    <2> QED
      BY <2>0, <2>1
  <1>7. ASSUME NEW r \in Requests, FindsDefaults(r)
        PROVE  \A q \in Requests : LoneSeesAll(q)'
    BY <1>7, TypeParts DEF FindsDefaults, StepsTo, RequestsTyped, RowsTyped
  <1>8. ASSUME NEW r \in Requests, UnsetsDefaults(r)
        PROVE  \A q \in Requests : LoneSeesAll(q)'
    BY <1>8, TypeParts DEF UnsetsDefaults, StepsTo, RequestsTyped, RowsTyped
  <1>9. ASSUME NEW r \in Requests, SetsTarget(r)
        PROVE  \A q \in Requests : LoneSeesAll(q)'
    BY <1>9, TypeParts DEF SetsTarget, StepsTo, RequestsTyped, RowsTyped
  <1> QED
    BY <1>1, <1>3, <1>4, <1>5, <1>6, <1>7, <1>8, <1>9, QuietSteps DEF Next, KycNext, PayeeNext,
                                                                      RatingNext

\* The commit of a set-default that has been alone.
LEMMA DefaultStep ==
  ASSUME IInv, [Next]_vars,
         NEW r \in Requests, step[r] = "commit", step'[r] = "idle", alone[r], work[r].on \in exists
  PROVE  default' \cap Peers(work[r].on) = {work[r].on}
  <1>1. CommitsDefault(r)
    <2> USE TypeParts DEF IInv, RequestsTyped
    <2>1. \A q \in Requests \ {r} : Ends(q) => step'[r] = step[r]
      BY DEF Ends
    <2>2. \A q \in Requests \ {r} : \A p : StepsTo(q, p) => step'[r] = step[r]
      BY DEF StepsTo
    <2>3. step'[r] # step[r]
      OBVIOUS
    <2>4. \A q \in Requests : Admitted(q) => step[q] = "idle" /\ \E p : step' = [step EXCEPT ![q] = p]
      BY DEF Admitted, Starts
    <2>5. ASSUME NEW q \in Requests, Admitted(q)
          PROVE  FALSE
      BY <2>3, <2>4, <2>5
    <2>6. ASSUME NEW q \in Requests, UploadKyc(q) \/ ApproveKyc(q) \/ RejectKyc(q)
          PROVE  FALSE
      BY <2>1, <2>3, <2>6 DEF UploadKyc, ApproveKyc, RejectKyc, Decides
    <2>7. ASSUME NEW q \in Requests,
                 CreateBeneficiary(q) \/ DeleteBeneficiary(q) \/ Fails(q) \/ InsertsRating(q)
          PROVE  FALSE
      BY <2>1, <2>3, <2>7 DEF CreateBeneficiary, DeleteBeneficiary, Fails, InsertsRating
    <2>8. ASSUME NEW q \in Requests,
                 \/ SelectsTarget(q) \/ FindsDefaults(q) \/ UnsetsDefaults(q) \/ SetsTarget(q)
                 \/ ReadsTrade(q) \/ ReadsExisting(q)
          PROVE  FALSE
      BY <2>2, <2>3, <2>8
         DEF SelectsTarget, FindsDefaults, UnsetsDefaults, SetsTarget, ReadsTrade, ReadsExisting
    <2>9. ASSUME NEW q \in Requests, CommitsDefault(q)
           PROVE  CommitsDefault(r)
      BY <2>1, <2>3, <2>9 DEF CommitsDefault
    <2>10. UNCHANGED <<request, payee>> => FALSE
      BY <2>3 DEF request
    <2> QED
      BY <2>5, <2>6, <2>7, <2>8, <2>9, <2>10, QuietSteps DEF Next, KycNext, PayeeNext, RatingNext
  <1>2. default' = (default \ cleared[r]) \cup ({work[r].on} \cap exists)
    BY <1>1 DEF CommitsDefault
  <1>3. Peers(work[r].on) \cap default \subseteq cleared[r]
    BY DEF IInv, LoneSeesAll
  <1>4. work[r].on \in Peers(work[r].on)
    BY PeersAreMutual, TypeParts DEF IInv, RowsTyped
  <1> QED
    BY <1>2, <1>3, <1>4

-----------------------------------------------------------------------------

LEMMA InitIInv == Init => IInv
  <1> SUFFICES ASSUME Init PROVE IInv
    OBVIOUS
  <1>1. TypeOK
    BY DEF Init, TypeOK, Roles, Statuses
  <1>2. \A r \in Requests : WorkFits(r) /\ AloneIsAlone(r) /\ LoneSeesAll(r)
    BY DEF Init, WorkFits, AloneIsAlone, LoneSeesAll, InDefault
  <1>3. VerifiedHaveRecords
    BY DEF Init, VerifiedHaveRecords
  <1>4. OneRatingPerParty
    BY DEF Init, OneRatingPerParty
  <1> QED
    BY <1>1, <1>2, <1>3, <1>4 DEF IInv

LEMMA IInvStep == IInv /\ [Next]_vars => IInv'
  BY TypeStep, WorkStep, AloneStep, SeesStep, RecordsStep, OneRatingStep DEF IInv

\* The inductive invariant holds in every reachable state of the model of
\* modules/kyc, modules/beneficiaries and modules/ratings.
THEOREM RequestsAreSound == Spec => []IInv
  BY InitIInv, IInvStep, PTL DEF Spec

\* Every variable keeps its type, and a beneficiary is locked only by a
\* set-default that has unset or set it (setDefaultBeneficiary).
THEOREM MembersTypeCorrect == Spec => []TypeOK
  BY RequestsAreSound, PTL DEF IInv

\* Whatever is uploaded and decided, and in whatever order, a verified user who
\* was not made by completeAdminSetup has a verified submission (approveKyc
\* and rejectKyc).
THEOREM VerifiedUsersHaveRecords == Spec => []VerifiedHaveRecords
  BY RequestsAreSound, PTL DEF IInv

\* A party rates a completed trade at most once, and nobody else does, for any
\* number of requests at once (submitRating).
THEOREM OneRatingAlways == Spec => []OneRatingPerParty
  BY RequestsAreSound, PTL DEF IInv

\* A set-default that none of the same user and currency overlaps leaves its
\* beneficiary as the only default, for any number of requests at once
\* (setDefaultBeneficiary).
THEOREM LoneDefaultAlwaysUnique == Spec => LoneDefaultIsUnique
  <1>1. IInv /\ [Next]_vars =>
          [\A r \in Requests :
             LET b == work[r].on
             IN (step[r] = "commit" /\ step'[r] = "idle" /\ alone[r] /\ b \in exists)
                  => default' \cap Peers(b) = {b}]_vars
    BY DefaultStep
  <1> QED
    BY RequestsAreSound, <1>1, PTL DEF Spec, LoneDefaultIsUnique

=============================================================================
