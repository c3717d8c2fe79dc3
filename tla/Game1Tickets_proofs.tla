------------------------- MODULE Game1Tickets_proofs -------------------------
(***************************************************************************)
(* Theorems of Game1Tickets for every number of players, purchases, calls  *)
(* and refunds.                                                            *)
(***************************************************************************)
EXTENDS Game1Tickets, TLAPS

(* Clients send a key again only where the INSERT cannot be refused: after *)
(* a compensation the key finds its debit again, and the ticket is free.   *)
NoRetryAfterFailure == Retried \cap InsertFails = {}

LEMMA InitHolds == Init => IInv
BY KeysAssumption, NobodyAssumption
   DEF Init, L!Init, IInv, TypeOK, RowsArePaid, CallsKnowTheirKey, ConversionsMatch,
       RefundsMatch, StopProceeds, NoMoneyLost, Underway, Posted, NoCall, Kinds, Keys,
       Undoers, L!Startable, L!Live, L!Terminal


-----------------------------------------------------------------------------
(* What does not depend on which keys clients send again: where money is   *)
(* on its way, and how far refunds and a stop have come.                   *)
CallsHaveKeys ==
  \A b \in Calls :
    /\ call[b].pc = "idle" <=> call[b].key = None
    /\ call[b].pc \in {"insert", "compensate"} => Posted("debit", call[b].key)

MoneyInv ==
  /\ TypeOK /\ CallsHaveKeys
  /\ ConversionsMatch /\ RefundsMatch /\ StopProceeds /\ NoMoneyLost

LEMMA KnowsMoney == IInv => MoneyInv
BY DEF IInv, MoneyInv, CallsKnowTheirKey, CallsHaveKeys

LEMMA PurchaseAccounts ==
  ASSUME NEW b \in Calls, NEW k \in BuyKeys, MoneyInv, Purchase(b, k)
  PROVE  MoneyInv'
<1>a. UNCHANGED <<posted, hold, status, balls, row, convert, undo, stop, cut>>
  BY DEF Purchase, wallet, game, Step, Fresh, OnSale
<1>b. \A x \in Kinds, j \in Keys : Posted(x, j)' <=> Posted(x, j)
  BY <1>a DEF Posted
<1>1. TypeOK'
  BY KeysAssumption, NobodyAssumption, <1>a, <1>b DEF MoneyInv, TypeOK, Keys,
    Undoers, Kinds, L!Startable, L!Live, L!Terminal, Purchase, wallet, game,
    Step, Fresh, OnSale
<1>2. ConversionsMatch'  BY <1>a DEF MoneyInv, ConversionsMatch, Posted
<1>3. RefundsMatch'  BY <1>a DEF MoneyInv, RefundsMatch, Posted
<1>4. StopProceeds'  BY <1>a DEF MoneyInv, StopProceeds
<1>5. NoMoneyLost'
  BY KeysAssumption, NobodyAssumption, <1>a, <1>b DEF MoneyInv, TypeOK, Keys,
    Undoers, NoMoneyLost, Underway, Kinds, Purchase, wallet, game, Step,
    Fresh, OnSale
<1>6. CallsHaveKeys'
  BY KeysAssumption, NobodyAssumption, <1>a, <1>b DEF MoneyInv, TypeOK, Keys,
    Undoers, CallsHaveKeys, Kinds, RowsArePaid, Purchase, wallet, game,
    Step, Fresh, OnSale
<1> QED  BY <1>1, <1>2, <1>3, <1>4, <1>5, <1>6 DEF MoneyInv

LEMMA DebitAccounts ==
  ASSUME NEW b \in Calls, MoneyInv, Debit(b)
  PROVE  MoneyInv'
<1>a. UNCHANGED <<hold, status, balls, row, convert, undo, stop, cut>>
  BY DEF Debit, wallet, game, Post, Step, Returns, NoCall
<1>b. call[b].key \in BuyKeys  BY DEF MoneyInv, TypeOK, CallsHaveKeys, Debit
<1>c. posted' = posted \/ posted' = posted \cup {<<"debit", call[b].key>>}
  BY DEF Debit, wallet, Post
<1>d. \A x \in Kinds, j \in Keys :
          Posted(x, j)' => Posted(x, j) \/ (x = "debit" /\ j = call[b].key)
  BY <1>c DEF Posted
<1>e. \A x \in Kinds, j \in Keys : Posted(x, j) => Posted(x, j)'
  BY <1>c DEF Posted
<1>f. call'[b].pc = "insert" => Posted("debit", call[b].key)'
  BY DEF Debit, Post, Posted, Step, Returns, NoCall, MoneyInv, TypeOK
<1>1. TypeOK'
  BY KeysAssumption, NobodyAssumption, <1>a, <1>b, <1>c, <1>d, <1>e, <1>f DEF
    MoneyInv, TypeOK, Keys, Undoers, Kinds, L!Startable, L!Live, L!Terminal,
    Debit, wallet, game, Post, Step, Returns, NoCall
<1>2. ConversionsMatch'
  BY KeysAssumption, NobodyAssumption, <1>a, <1>b, <1>c, <1>d, <1>e, <1>f DEF
    MoneyInv, TypeOK, Keys, Undoers, ConversionsMatch, Kinds, Debit, wallet,
    game, Post, Step, Returns, NoCall
<1>3. RefundsMatch'
  BY KeysAssumption, NobodyAssumption, <1>a, <1>b, <1>c, <1>d, <1>e, <1>f DEF
    MoneyInv, TypeOK, Keys, Undoers, RefundsMatch, Kinds, Debit, wallet, game,
    Post, Step, Returns, NoCall
<1>4. StopProceeds'  BY <1>a DEF MoneyInv, StopProceeds
<1>5. NoMoneyLost'
  <2> SUFFICES ASSUME NEW j \in Keys, Posted("debit", j)', row'[j] = "none",
                      ~Posted("compensate", j)', j \notin cut'
               PROVE  Underway(j)'
    BY DEF NoMoneyLost
  <2>1. CASE j = call[b].key /\ call'[b].pc = "insert"
    <3> call'[b].key = j  BY <2>1, <1>b DEF Debit, Step, Returns, NoCall, MoneyInv, TypeOK
    <3> QED  BY <2>1 DEF Underway
  <2>2. CASE ~(j = call[b].key /\ call'[b].pc = "insert")
    <3>1. Posted("debit", j)
      BY <2>2, <1>d, <1>b DEF Debit, Step, Returns, NoCall, MoneyInv, TypeOK, wallet, Posted, Kinds
    <3>2. Underway(j)
      BY <3>1, <1>a, <1>e DEF MoneyInv, NoMoneyLost, Kinds
    <3>3. \A c \in Calls : call[c].pc \in {"insert", "compensate"} => call'[c] = call[c]
      BY DEF Debit, Step, Returns, NoCall, MoneyInv, TypeOK
    <3> QED  BY <3>2, <3>3, <1>a DEF Underway
  <2> QED  BY <2>1, <2>2
<1>6. CallsHaveKeys'
  BY KeysAssumption, NobodyAssumption, <1>a, <1>b, <1>c, <1>d, <1>e, <1>f DEF
    MoneyInv, TypeOK, Keys, Undoers, Kinds, CallsHaveKeys,
    Debit, wallet, game, Post, Step, Returns, NoCall
<1> QED  BY <1>1, <1>2, <1>3, <1>4, <1>5, <1>6 DEF MoneyInv

LEMMA DebitFailsAccounts ==
  ASSUME NEW b \in Calls, MoneyInv, DebitFails(b)
  PROVE  MoneyInv'
<1>a. UNCHANGED <<hold, status, balls, row, convert, undo, stop>>
  BY DEF DebitFails, wallet, game, Post, Cut, Returns, NoCall
<1>b. call[b].key \in BuyKeys
  BY DEF MoneyInv, TypeOK, CallsHaveKeys, DebitFails
<1>c. posted' = posted \/ posted' = posted \cup {<<"debit", call[b].key>>}
  BY DEF DebitFails, wallet, Post
<1>d. \A x \in Kinds, j \in Keys :
          Posted(x, j)' => Posted(x, j) \/ (x = "debit" /\ j = call[b].key)
  BY <1>c DEF Posted
<1>e. \A x \in Kinds, j \in Keys : Posted(x, j) => Posted(x, j)'
  BY <1>c DEF Posted
<1>1. TypeOK'
  BY KeysAssumption, NobodyAssumption, <1>a, <1>b, <1>c, <1>d, <1>e DEF MoneyInv,
    TypeOK, Keys, Undoers, Kinds, L!Startable, L!Live, L!Terminal,
    DebitFails, wallet, game, Post, Cut, Returns, NoCall
<1>2. ConversionsMatch'
  BY KeysAssumption, NobodyAssumption, <1>a, <1>b, <1>c, <1>d, <1>e DEF MoneyInv,
    TypeOK, Keys, Undoers, ConversionsMatch, Kinds, DebitFails, wallet, game,
    Post, Cut, Returns, NoCall
<1>3. RefundsMatch'
  BY KeysAssumption, NobodyAssumption, <1>a, <1>b, <1>c, <1>d, <1>e DEF MoneyInv,
    TypeOK, Keys, Undoers, RefundsMatch, Kinds, DebitFails, wallet, game,
    Post, Cut, Returns, NoCall
<1>4. StopProceeds'
  BY KeysAssumption, NobodyAssumption, <1>a, <1>b, <1>c, <1>d, <1>e DEF MoneyInv,
    TypeOK, Keys, Undoers, StopProceeds, Kinds, DebitFails, wallet, game,
    Post, Cut, Returns, NoCall
<1>5. NoMoneyLost'
  BY KeysAssumption, NobodyAssumption, <1>a, <1>b, <1>c, <1>d, <1>e DEF MoneyInv,
    TypeOK, Keys, Undoers, NoMoneyLost, Underway, Kinds, DebitFails, wallet,
    game, Post, Cut, Returns, NoCall
<1>6. CallsHaveKeys'
  BY KeysAssumption, NobodyAssumption, <1>a, <1>b, <1>c, <1>d, <1>e DEF MoneyInv,
    TypeOK, Keys, Undoers, CallsHaveKeys, Kinds, DebitFails, wallet,
    game, Post, Cut, Returns, NoCall
<1> QED  BY <1>1, <1>2, <1>3, <1>4, <1>5, <1>6 DEF MoneyInv

LEMMA InsertAccounts ==
  ASSUME NEW b \in Calls, MoneyInv, Insert(b)
  PROVE  MoneyInv'
<1>a. UNCHANGED <<posted, hold, status, balls, convert, undo, stop, cut>>
  BY DEF Insert, wallet, game, Inserted, Returns, NoCall
<1>b. \A x \in Kinds, j \in Keys : Posted(x, j)' <=> Posted(x, j)
  BY <1>a DEF Posted
<1>c. call[b].key \in BuyKeys  BY DEF MoneyInv, TypeOK, CallsHaveKeys, Insert
<1>1. TypeOK'
  BY KeysAssumption, NobodyAssumption, <1>a, <1>b, <1>c DEF MoneyInv, TypeOK,
    Keys, Undoers, Kinds, L!Startable, L!Live, L!Terminal, Insert, wallet,
    game, Inserted, Returns, NoCall
<1>2. ConversionsMatch'  BY <1>a DEF MoneyInv, ConversionsMatch, Posted
<1>3. RefundsMatch'
  BY KeysAssumption, NobodyAssumption, <1>a, <1>b, <1>c DEF MoneyInv, TypeOK,
    Keys, Undoers, RefundsMatch, Kinds, Insert, wallet, game, Inserted,
    Returns, NoCall
<1>4. StopProceeds'
  BY KeysAssumption, NobodyAssumption, <1>a, <1>b, <1>c DEF MoneyInv, TypeOK,
    Keys, Undoers, StopProceeds, Kinds, Insert, wallet, game, Inserted,
    Returns, NoCall
<1>5. NoMoneyLost'
  BY KeysAssumption, NobodyAssumption, <1>a, <1>b, <1>c DEF MoneyInv, TypeOK,
    Keys, Undoers, NoMoneyLost, Underway, Kinds, Insert, wallet, game,
    Inserted, Returns, NoCall
<1>6. CallsHaveKeys'
  BY KeysAssumption, NobodyAssumption, <1>a, <1>b, <1>c DEF MoneyInv, TypeOK,
    Keys, Undoers, CallsHaveKeys, Kinds, Insert, wallet, game, Inserted,
    Returns, NoCall
<1> QED  BY <1>1, <1>2, <1>3, <1>4, <1>5, <1>6 DEF MoneyInv

LEMMA InsertFailedAccounts ==
  ASSUME NEW b \in Calls, MoneyInv, InsertFailed(b)
  PROVE  MoneyInv'
<1>a. UNCHANGED <<posted, hold, status, balls, row, convert, undo, stop, cut>>
  BY DEF InsertFailed, wallet, game, InsertRefused, AfterRefusedInsert, Step
<1>b. \A x \in Kinds, j \in Keys : Posted(x, j)' <=> Posted(x, j)
  BY <1>a DEF Posted
<1>c. call[b].key \in BuyKeys
  BY DEF MoneyInv, TypeOK, CallsHaveKeys, InsertFailed
<1>1. TypeOK'
  BY KeysAssumption, NobodyAssumption, <1>a, <1>b, <1>c DEF MoneyInv, TypeOK,
    Keys, Undoers, Kinds, L!Startable, L!Live, L!Terminal, InsertFailed,
    wallet, game, InsertRefused, AfterRefusedInsert, Step
<1>2. ConversionsMatch'  BY <1>a DEF MoneyInv, ConversionsMatch, Posted
<1>3. RefundsMatch'  BY <1>a DEF MoneyInv, RefundsMatch, Posted
<1>4. StopProceeds'  BY <1>a DEF MoneyInv, StopProceeds
<1>5. NoMoneyLost'
  BY KeysAssumption, NobodyAssumption, <1>a, <1>b, <1>c DEF MoneyInv, TypeOK,
    Keys, Undoers, NoMoneyLost, Underway, Kinds, InsertFailed, wallet, game,
    InsertRefused, AfterRefusedInsert, Step
<1>6. CallsHaveKeys'
  BY KeysAssumption, NobodyAssumption, <1>a, <1>b, <1>c DEF MoneyInv, TypeOK,
    Keys, Undoers, CallsHaveKeys, Kinds, NoRetryAfterFailure,
    InsertFailed, wallet, game, InsertRefused, AfterRefusedInsert, Step
<1> QED  BY <1>1, <1>2, <1>3, <1>4, <1>5, <1>6 DEF MoneyInv

LEMMA CompensateAccounts ==
  ASSUME NEW b \in Calls, MoneyInv, Compensate(b)
  PROVE  MoneyInv'
<1>a. UNCHANGED <<hold, status, balls, row, convert, undo, stop, cut>>
  BY DEF Compensate, wallet, game, Post, Returns, NoCall
<1>b. call[b].key \in BuyKeys
  BY DEF MoneyInv, TypeOK, CallsHaveKeys, Compensate
<1>c. posted' = posted \/ posted' = posted \cup {<<"compensate", call[b].key>>}
  BY DEF Compensate, wallet, Post
<1>d. \A x \in Kinds, j \in Keys :
          Posted(x, j)' => Posted(x, j) \/ (x = "compensate" /\ j = call[b].key)
  BY <1>c DEF Posted
<1>e. \A x \in Kinds, j \in Keys : Posted(x, j) => Posted(x, j)'
  BY <1>c DEF Posted
<1>f. \A j \in Keys : j = call[b].key => Posted("compensate", j)'
  BY DEF Compensate, Post, Posted, Returns, NoCall
<1>1. TypeOK'
  BY KeysAssumption, NobodyAssumption, <1>a, <1>b, <1>c, <1>d, <1>e, <1>f DEF
    MoneyInv, TypeOK, Keys, Undoers, Kinds, L!Startable, L!Live, L!Terminal,
    Compensate, wallet, game, Post, Returns, NoCall
<1>2. ConversionsMatch'
  BY KeysAssumption, NobodyAssumption, <1>a, <1>b, <1>c, <1>d, <1>e, <1>f DEF
    MoneyInv, TypeOK, Keys, Undoers, ConversionsMatch, Kinds, Compensate, wallet,
    game, Post, Returns, NoCall
<1>3. RefundsMatch'
  BY KeysAssumption, NobodyAssumption, <1>a, <1>b, <1>c, <1>d, <1>e, <1>f DEF
    MoneyInv, TypeOK, Keys, Undoers, RefundsMatch, Kinds, Compensate, wallet,
    game, Post, Returns, NoCall
<1>4. StopProceeds'  BY <1>a DEF MoneyInv, StopProceeds
<1>5. NoMoneyLost'
  <2> SUFFICES ASSUME NEW j \in Keys, Posted("debit", j)', row'[j] = "none",
                      ~Posted("compensate", j)', j \notin cut'
               PROVE  Underway(j)'
    BY DEF NoMoneyLost
  <2>1. j # call[b].key /\ Underway(j)
    BY <1>a, <1>d, <1>e, <1>f DEF MoneyInv, NoMoneyLost, Kinds
  <2>2. \A c \in Calls : call[c].key = j => call'[c] = call[c]
    BY <2>1 DEF Compensate, Returns, NoCall, MoneyInv, TypeOK
  <2> QED  BY <2>1, <2>2, <1>a DEF Underway
<1>6. CallsHaveKeys'
  BY KeysAssumption, NobodyAssumption, <1>a, <1>b, <1>c, <1>d, <1>e, <1>f DEF
    MoneyInv, TypeOK, Keys, Undoers, CallsHaveKeys, Kinds, Compensate,
    wallet, game, Post, Returns, NoCall
<1> QED  BY <1>1, <1>2, <1>3, <1>4, <1>5, <1>6 DEF MoneyInv

LEMMA CompensateFailsAccounts ==
  ASSUME NEW b \in Calls, MoneyInv, CompensateFails(b)
  PROVE  MoneyInv'
<1>a. UNCHANGED <<hold, status, balls, row, convert, undo, stop>>
  BY DEF CompensateFails, wallet, game, Post, Cut, Returns, NoCall
<1>b. call[b].key \in BuyKeys
  BY DEF MoneyInv, TypeOK, CallsHaveKeys, CompensateFails
<1>c. posted' = posted \/ posted' = posted \cup {<<"compensate", call[b].key>>}
  BY DEF CompensateFails, wallet, Post
<1>d. \A x \in Kinds, j \in Keys :
          Posted(x, j)' => Posted(x, j) \/ (x = "compensate" /\ j = call[b].key)
  BY <1>c DEF Posted
<1>e. \A x \in Kinds, j \in Keys : Posted(x, j) => Posted(x, j)'
  BY <1>c DEF Posted
<1>1. TypeOK'
  BY KeysAssumption, NobodyAssumption, <1>a, <1>b, <1>c, <1>d, <1>e DEF MoneyInv,
    TypeOK, Keys, Undoers, Kinds, L!Startable, L!Live, L!Terminal,
    CompensateFails, wallet, game, Post, Cut, Returns, NoCall
<1>2. ConversionsMatch'
  BY KeysAssumption, NobodyAssumption, <1>a, <1>b, <1>c, <1>d, <1>e DEF MoneyInv,
    TypeOK, Keys, Undoers, ConversionsMatch, Kinds, CompensateFails, wallet,
    game, Post, Cut, Returns, NoCall
<1>3. RefundsMatch'
  BY KeysAssumption, NobodyAssumption, <1>a, <1>b, <1>c, <1>d, <1>e DEF MoneyInv,
    TypeOK, Keys, Undoers, RefundsMatch, Kinds, CompensateFails, wallet,
    game, Post, Cut, Returns, NoCall
<1>4. StopProceeds'
  BY KeysAssumption, NobodyAssumption, <1>a, <1>b, <1>c, <1>d, <1>e DEF MoneyInv,
    TypeOK, Keys, Undoers, StopProceeds, Kinds, CompensateFails, wallet,
    game, Post, Cut, Returns, NoCall
<1>5. NoMoneyLost'
  BY KeysAssumption, NobodyAssumption, <1>a, <1>b, <1>c, <1>d, <1>e DEF MoneyInv,
    TypeOK, Keys, Undoers, NoMoneyLost, Underway, Kinds, CompensateFails,
    wallet, game, Post, Cut, Returns, NoCall
<1>6. CallsHaveKeys'
  BY KeysAssumption, NobodyAssumption, <1>a, <1>b, <1>c, <1>d, <1>e DEF MoneyInv,
    TypeOK, Keys, Undoers, CallsHaveKeys, Kinds, CompensateFails, wallet,
    game, Post, Cut, Returns, NoCall
<1> QED  BY <1>1, <1>2, <1>3, <1>4, <1>5, <1>6 DEF MoneyInv

LEMMA ConvertAccounts ==
  ASSUME NEW k \in ArmKeys, MoneyInv, Convert(k)
  PROVE  MoneyInv'
<1>a. UNCHANGED <<posted, hold, status, balls, row, call, undo, stop, cut>>
  BY DEF Convert, wallet, game, At
<1>b. \A x \in Kinds, j \in Keys : Posted(x, j)' <=> Posted(x, j)
  BY <1>a DEF Posted
<1>1. TypeOK'
  BY KeysAssumption, NobodyAssumption, <1>a, <1>b DEF MoneyInv, TypeOK, Keys,
    Undoers, Kinds, L!Startable, L!Live, L!Terminal, Convert, wallet, game,
    At
<1>2. ConversionsMatch'
  BY KeysAssumption, NobodyAssumption, <1>a, <1>b DEF MoneyInv, TypeOK, Keys,
    Undoers, ConversionsMatch, Kinds, Convert, wallet, game, At
<1>3. RefundsMatch'  BY <1>a DEF MoneyInv, RefundsMatch, Posted
<1>4. StopProceeds'  BY <1>a DEF MoneyInv, StopProceeds
<1>5. NoMoneyLost'
  BY KeysAssumption, NobodyAssumption, <1>a, <1>b DEF MoneyInv, TypeOK, Keys,
    Undoers, NoMoneyLost, Underway, Kinds, Convert, wallet, game, At
<1>6. CallsHaveKeys'  BY <1>a DEF MoneyInv, CallsHaveKeys, Posted
<1> QED  BY <1>1, <1>2, <1>3, <1>4, <1>5, <1>6 DEF MoneyInv

LEMMA CommitHoldAccounts ==
  ASSUME NEW k \in ArmKeys, MoneyInv, CommitHold(k)
  PROVE  MoneyInv'
<1>a. UNCHANGED <<status, balls, row, call, undo, stop, cut>>
  BY DEF CommitHold, wallet, game, Committed, At
<1>b. k \in Keys  BY DEF Keys
<1>c. posted' = posted \/ posted' = posted \cup {<<"debit", k>>}
  BY DEF CommitHold, wallet, Committed
<1>d. \A x \in Kinds, j \in Keys :
          Posted(x, j)' => Posted(x, j) \/ (x = "debit" /\ j = k)
  BY <1>c DEF Posted
<1>e. \A x \in Kinds, j \in Keys : Posted(x, j) => Posted(x, j)'
  BY <1>c DEF Posted
<1>f. IF hold[k] = "active" /\ hold'[k] = "committed"
        THEN hold' = [hold EXCEPT ![k] = "committed"] /\ Posted("debit", k)'
        ELSE UNCHANGED <<posted, hold>>
  BY DEF CommitHold, wallet, Committed, Posted, MoneyInv, TypeOK
<1>1. TypeOK'
  <2>1. posted' \subseteq Kinds \X Keys
    BY <1>b, <1>c DEF MoneyInv, TypeOK, Kinds
  <2>2. hold' \in [ArmKeys -> {"active", "committed", "released", "expired"}]
    BY <1>f DEF MoneyInv, TypeOK
  <2>3. convert' \in [ArmKeys -> {"idle", "commit", "insert", "release"}]
    BY DEF CommitHold, At, MoneyInv, TypeOK
  <2> QED  BY <2>1, <2>2, <2>3, <1>a DEF MoneyInv, TypeOK
<1>2. ConversionsMatch'
  <2> SUFFICES ASSUME NEW j \in ArmKeys
               PROVE  /\ Posted("debit", j)' <=> hold'[j] = "committed"
                      /\ convert'[j] = "insert" => Posted("debit", j)'
    BY DEF ConversionsMatch
  <2>0. j \in Keys  BY DEF Keys
  <2>1. convert'[k] = "insert" => hold[k] = "active" /\ hold'[k] = "committed"
    BY DEF CommitHold, Committed, At, MoneyInv, TypeOK
  <2>2. j # k => convert'[j] = convert[j]
    BY DEF CommitHold, At, MoneyInv, TypeOK
  <2>3. CASE hold[k] = "active" /\ hold'[k] = "committed"
    BY <2>0, <2>2, <2>3, <1>d, <1>e, <1>f DEF MoneyInv, TypeOK, ConversionsMatch, Kinds
  <2>4. CASE ~(hold[k] = "active" /\ hold'[k] = "committed")
    BY <2>1, <2>2, <2>4, <1>f DEF MoneyInv, ConversionsMatch, Posted
  <2> QED  BY <2>3, <2>4
<1>3. RefundsMatch'
  BY KeysAssumption, NobodyAssumption, <1>a, <1>b, <1>c, <1>d, <1>e, <1>f DEF
    MoneyInv, TypeOK, Keys, Undoers, RefundsMatch, Kinds, CommitHold, wallet,
    game, Committed, At
<1>4. StopProceeds'  BY <1>a DEF MoneyInv, StopProceeds
<1>5. NoMoneyLost'
  <2> SUFFICES ASSUME NEW j \in Keys, Posted("debit", j)', row'[j] = "none",
                      ~Posted("compensate", j)', j \notin cut'
               PROVE  Underway(j)'
    BY DEF NoMoneyLost
  <2>1. CASE j = k /\ convert'[k] = "insert"
    BY <2>1 DEF Underway
  <2>2. CASE ~(j = k /\ convert'[k] = "insert")
    <3>1. Posted("debit", j)
      BY <2>2, <1>d, <1>b DEF CommitHold, At, MoneyInv, TypeOK, wallet, Posted, Kinds
    <3>2. Underway(j)
      BY <3>1, <1>a, <1>e DEF MoneyInv, NoMoneyLost, Kinds
    <3>3. \A c \in ArmKeys : convert[c] = "insert" => convert'[c] = "insert"
      BY DEF CommitHold, At, MoneyInv, TypeOK
    <3> QED  BY <3>2, <3>3, <1>a DEF Underway
  <2> QED  BY <2>1, <2>2
<1>6. CallsHaveKeys'
  BY KeysAssumption, NobodyAssumption, <1>a, <1>b, <1>c, <1>d, <1>e, <1>f DEF
    MoneyInv, TypeOK, Keys, Undoers, CallsHaveKeys, Kinds, CommitHold,
    wallet, game, Committed, At
<1> QED  BY <1>1, <1>2, <1>3, <1>4, <1>5, <1>6 DEF MoneyInv

LEMMA CommitFailsAccounts ==
  ASSUME NEW k \in ArmKeys, MoneyInv, CommitFails(k)
  PROVE  MoneyInv'
<1>a. UNCHANGED <<status, balls, row, call, undo, stop>>
  BY DEF CommitFails, wallet, game, Committed, At, Cut
<1>b. k \in Keys  BY DEF Keys
<1>c. posted' = posted \/ posted' = posted \cup {<<"debit", k>>}
  BY DEF CommitFails, wallet, Committed
<1>d. \A x \in Kinds, j \in Keys :
          Posted(x, j)' => Posted(x, j) \/ (x = "debit" /\ j = k)
  BY <1>c DEF Posted
<1>e. \A x \in Kinds, j \in Keys : Posted(x, j) => Posted(x, j)'
  BY <1>c DEF Posted
<1>f. IF hold[k] = "active" /\ hold'[k] = "committed"
        THEN hold' = [hold EXCEPT ![k] = "committed"] /\ Posted("debit", k)'
        ELSE UNCHANGED <<posted, hold>>
  BY DEF CommitFails, wallet, Committed, Posted, MoneyInv, TypeOK
<1>1. TypeOK'
  <2>1. posted' \subseteq Kinds \X Keys
    BY <1>b, <1>c DEF MoneyInv, TypeOK, Kinds
  <2>2. hold' \in [ArmKeys -> {"active", "committed", "released", "expired"}]
    BY <1>f DEF MoneyInv, TypeOK
  <2>3. convert' \in [ArmKeys -> {"idle", "commit", "insert", "release"}]
    BY DEF CommitFails, At, MoneyInv, TypeOK
  <2>4. cut' \subseteq Keys
    BY <1>b DEF CommitFails, Cut, MoneyInv, TypeOK
  <2> QED  BY <2>1, <2>2, <2>3, <2>4, <1>a DEF MoneyInv, TypeOK
<1>2. ConversionsMatch'
  <2> SUFFICES ASSUME NEW j \in ArmKeys
               PROVE  /\ Posted("debit", j)' <=> hold'[j] = "committed"
                      /\ convert'[j] = "insert" => Posted("debit", j)'
    BY DEF ConversionsMatch
  <2>0. j \in Keys  BY DEF Keys
  <2>1. convert'[k] = "insert" => hold[k] = "active" /\ hold'[k] = "committed"
    BY DEF CommitFails, Committed, At, MoneyInv, TypeOK
  <2>2. j # k => convert'[j] = convert[j]
    BY DEF CommitFails, At, MoneyInv, TypeOK
  <2>3. CASE hold[k] = "active" /\ hold'[k] = "committed"
    BY <2>0, <2>2, <2>3, <1>d, <1>e, <1>f DEF MoneyInv, TypeOK, ConversionsMatch, Kinds
  <2>4. CASE ~(hold[k] = "active" /\ hold'[k] = "committed")
    BY <2>1, <2>2, <2>4, <1>f DEF MoneyInv, ConversionsMatch, Posted
  <2> QED  BY <2>3, <2>4
<1>3. RefundsMatch'
  BY KeysAssumption, NobodyAssumption, <1>a, <1>b, <1>c, <1>d, <1>e, <1>f DEF
    MoneyInv, TypeOK, Keys, Undoers, RefundsMatch, Kinds, CommitFails, wallet,
    game, Committed, At, Cut
<1>4. StopProceeds'
  BY KeysAssumption, NobodyAssumption, <1>a, <1>b, <1>c, <1>d, <1>e, <1>f DEF
    MoneyInv, TypeOK, Keys, Undoers, StopProceeds, Kinds, CommitFails, wallet,
    game, Committed, At, Cut
<1>5. NoMoneyLost'
  BY KeysAssumption, NobodyAssumption, <1>a, <1>b, <1>c, <1>d, <1>e, <1>f DEF
    MoneyInv, TypeOK, Keys, Undoers, NoMoneyLost, Underway, Kinds, CommitFails,
    wallet, game, Committed, At, Cut
<1>6. CallsHaveKeys'
  BY KeysAssumption, NobodyAssumption, <1>a, <1>b, <1>c, <1>d, <1>e, <1>f DEF
    MoneyInv, TypeOK, Keys, Undoers, CallsHaveKeys, Kinds, CommitFails,
    wallet, game, Committed, At, Cut
<1> QED  BY <1>1, <1>2, <1>3, <1>4, <1>5, <1>6 DEF MoneyInv

LEMMA InsertConvertedAccounts ==
  ASSUME NEW k \in ArmKeys, MoneyInv, InsertConverted(k)
  PROVE  MoneyInv'
<1>a. UNCHANGED <<posted, hold, status, balls, call, undo, stop, cut>>
  BY DEF InsertConverted, wallet, game, Inserted, At
<1>b. \A x \in Kinds, j \in Keys : Posted(x, j)' <=> Posted(x, j)
  BY <1>a DEF Posted
<1>c. k \in Keys /\ k \notin BuyKeys  BY KeysAssumption DEF Keys
<1>1. TypeOK'
  BY KeysAssumption, NobodyAssumption, <1>a, <1>b, <1>c DEF MoneyInv, TypeOK,
    Keys, Undoers, Kinds, L!Startable, L!Live, L!Terminal, InsertConverted,
    wallet, game, Inserted, At
<1>2. ConversionsMatch'
  BY KeysAssumption, NobodyAssumption, <1>a, <1>b, <1>c DEF MoneyInv, TypeOK,
    Keys, Undoers, ConversionsMatch, Kinds, InsertConverted, wallet, game,
    Inserted, At
<1>3. RefundsMatch'
  BY KeysAssumption, NobodyAssumption, <1>a, <1>b, <1>c DEF MoneyInv, TypeOK,
    Keys, Undoers, RefundsMatch, Kinds, InsertConverted, wallet, game,
    Inserted, At
<1>4. StopProceeds'
  BY KeysAssumption, NobodyAssumption, <1>a, <1>b, <1>c DEF MoneyInv, TypeOK,
    Keys, Undoers, StopProceeds, Kinds, InsertConverted, wallet, game,
    Inserted, At
<1>5. NoMoneyLost'
  BY KeysAssumption, NobodyAssumption, <1>a, <1>b, <1>c DEF MoneyInv, TypeOK,
    Keys, Undoers, NoMoneyLost, Underway, Kinds, InsertConverted, wallet,
    game, Inserted, At
<1>6. CallsHaveKeys'  BY <1>a DEF MoneyInv, CallsHaveKeys, Posted
<1> QED  BY <1>1, <1>2, <1>3, <1>4, <1>5, <1>6 DEF MoneyInv

LEMMA InsertConvertedFailsAccounts ==
  ASSUME NEW k \in ArmKeys, MoneyInv, InsertConvertedFails(k)
  PROVE  MoneyInv'
<1>a. UNCHANGED <<posted, hold, status, balls, row, call, undo, stop>>
  BY DEF InsertConvertedFails, wallet, game, At
<1>b. \A x \in Kinds, j \in Keys : Posted(x, j)' <=> Posted(x, j)
  BY <1>a DEF Posted
<1>c. k \in Keys /\ k \notin BuyKeys  BY KeysAssumption DEF Keys
<1>1. TypeOK'
  BY KeysAssumption, NobodyAssumption, <1>a, <1>b, <1>c DEF MoneyInv, TypeOK,
    Keys, Undoers, Kinds, L!Startable, L!Live, L!Terminal,
    InsertConvertedFails, wallet, game, At
<1>2. ConversionsMatch'
  BY KeysAssumption, NobodyAssumption, <1>a, <1>b, <1>c DEF MoneyInv, TypeOK,
    Keys, Undoers, ConversionsMatch, Kinds, InsertConvertedFails, wallet,
    game, At
<1>3. RefundsMatch'  BY <1>a DEF MoneyInv, RefundsMatch, Posted
<1>4. StopProceeds'
  BY KeysAssumption, NobodyAssumption, <1>a, <1>b, <1>c DEF MoneyInv, TypeOK,
    Keys, Undoers, StopProceeds, Kinds, InsertConvertedFails, wallet, game,
    At
<1>5. NoMoneyLost'
  BY KeysAssumption, NobodyAssumption, <1>a, <1>b, <1>c DEF MoneyInv, TypeOK,
    Keys, Undoers, NoMoneyLost, Underway, Kinds, InsertConvertedFails,
    wallet, game, At
<1>6. CallsHaveKeys'  BY <1>a DEF MoneyInv, CallsHaveKeys, Posted
<1> QED  BY <1>1, <1>2, <1>3, <1>4, <1>5, <1>6 DEF MoneyInv

LEMMA ReleaseHoldAccounts ==
  ASSUME NEW k \in ArmKeys, MoneyInv, ReleaseHold(k)
  PROVE  MoneyInv'
<1>a. UNCHANGED <<posted, status, balls, row, call, undo, stop, cut>>
  BY DEF ReleaseHold, wallet, game, Released, At
<1>b. \A x \in Kinds, j \in Keys : Posted(x, j)' <=> Posted(x, j)
  BY <1>a DEF Posted
<1>1. TypeOK'
  BY KeysAssumption, NobodyAssumption, <1>a, <1>b DEF MoneyInv, TypeOK, Keys,
    Undoers, Kinds, L!Startable, L!Live, L!Terminal, ReleaseHold, wallet,
    game, Released, At
<1>2. ConversionsMatch'
  BY KeysAssumption, NobodyAssumption, <1>a, <1>b DEF MoneyInv, TypeOK, Keys,
    Undoers, ConversionsMatch, Kinds, ReleaseHold, wallet, game, Released, At
<1>3. RefundsMatch'  BY <1>a DEF MoneyInv, RefundsMatch, Posted
<1>4. StopProceeds'  BY <1>a DEF MoneyInv, StopProceeds
<1>5. NoMoneyLost'
  BY KeysAssumption, NobodyAssumption, <1>a, <1>b DEF MoneyInv, TypeOK, Keys,
    Undoers, NoMoneyLost, Underway, Kinds, ReleaseHold, wallet, game,
    Released, At
<1>6. CallsHaveKeys'  BY <1>a DEF MoneyInv, CallsHaveKeys, Posted
<1> QED  BY <1>1, <1>2, <1>3, <1>4, <1>5, <1>6 DEF MoneyInv

LEMMA ExpireHoldAccounts ==
  ASSUME NEW k \in ArmKeys, MoneyInv, ExpireHold(k)
  PROVE  MoneyInv'
<1>a. UNCHANGED <<posted, status, balls, row, call, convert, undo, stop, cut>>
  BY DEF ExpireHold, wallet, game
<1>b. \A x \in Kinds, j \in Keys : Posted(x, j)' <=> Posted(x, j)
  BY <1>a DEF Posted
<1>1. TypeOK'
  BY KeysAssumption, NobodyAssumption, <1>a, <1>b DEF MoneyInv, TypeOK, Keys,
    Undoers, Kinds, L!Startable, L!Live, L!Terminal, ExpireHold, wallet, game
<1>2. ConversionsMatch'
  BY KeysAssumption, NobodyAssumption, <1>a, <1>b DEF MoneyInv, TypeOK, Keys,
    Undoers, ConversionsMatch, Kinds, ExpireHold, wallet, game
<1>3. RefundsMatch'  BY <1>a DEF MoneyInv, RefundsMatch, Posted
<1>4. StopProceeds'  BY <1>a DEF MoneyInv, StopProceeds
<1>5. NoMoneyLost'  BY <1>a DEF MoneyInv, NoMoneyLost, Posted, Underway
<1>6. CallsHaveKeys'  BY <1>a DEF MoneyInv, CallsHaveKeys, Posted
<1> QED  BY <1>1, <1>2, <1>3, <1>4, <1>5, <1>6 DEF MoneyInv

LEMMA AdminRefundsAccounts ==
  ASSUME NEW q \in Undoers, NEW k \in Keys, MoneyInv, AdminRefunds(q, k)
  PROVE  MoneyInv'
<1>a. UNCHANGED <<posted, hold, status, balls, row, call, convert, stop, cut>>
  BY DEF AdminRefunds, wallet, game, Refund, Refundable, Undo
<1>b. \A x \in Kinds, j \in Keys : Posted(x, j)' <=> Posted(x, j)
  BY <1>a DEF Posted
<1>1. TypeOK'
  BY KeysAssumption, NobodyAssumption, <1>a, <1>b DEF MoneyInv, TypeOK, Keys,
    Undoers, Kinds, L!Startable, L!Live, L!Terminal, AdminRefunds, wallet,
    game, Refund, Refundable, Undo
<1>2. ConversionsMatch'  BY <1>a DEF MoneyInv, ConversionsMatch, Posted
<1>3. RefundsMatch'
  BY KeysAssumption, NobodyAssumption, <1>a, <1>b DEF MoneyInv, TypeOK, Keys,
    Undoers, RefundsMatch, Kinds, AdminRefunds, wallet, game, Refund,
    Refundable, Undo
<1>4. StopProceeds'
  BY KeysAssumption, NobodyAssumption, <1>a, <1>b DEF MoneyInv, TypeOK, Keys,
    Undoers, StopProceeds, Kinds, AdminRefunds, wallet, game, Refund,
    Refundable, Undo
<1>5. NoMoneyLost'  BY <1>a DEF MoneyInv, NoMoneyLost, Posted, Underway
<1>6. CallsHaveKeys'  BY <1>a DEF MoneyInv, CallsHaveKeys, Posted
<1> QED  BY <1>1, <1>2, <1>3, <1>4, <1>5, <1>6 DEF MoneyInv

LEMMA CreditRefundAccounts ==
  ASSUME NEW q \in Undoers, MoneyInv, CreditRefund(q)
  PROVE  MoneyInv'
<1>a. UNCHANGED <<hold, status, balls, row, call, convert, stop, cut>>
  BY DEF CreditRefund, wallet, game, Post, Undo
<1>b. undo[q].key \in Keys  BY DEF MoneyInv, TypeOK, RefundsMatch, CreditRefund
<1>c. posted' = posted \/ posted' = posted \cup {<<"refund", undo[q].key>>}
  BY DEF CreditRefund, wallet, Post
<1>d. \A x \in Kinds, j \in Keys :
          Posted(x, j)' => Posted(x, j) \/ (x = "refund" /\ j = undo[q].key)
  BY <1>c DEF Posted
<1>e. \A x \in Kinds, j \in Keys : Posted(x, j) => Posted(x, j)'
  BY <1>c DEF Posted
<1>f. Posted("refund", undo[q].key)'  BY DEF CreditRefund, Post, Posted, Undo
<1>1. TypeOK'
  BY KeysAssumption, NobodyAssumption, <1>a, <1>b, <1>c, <1>d, <1>e, <1>f DEF
    MoneyInv, TypeOK, Keys, Undoers, Kinds, L!Startable, L!Live, L!Terminal,
    CreditRefund, wallet, game, Post, Undo
<1>2. ConversionsMatch'
  BY KeysAssumption, NobodyAssumption, <1>a, <1>b, <1>c, <1>d, <1>e, <1>f DEF
    MoneyInv, TypeOK, Keys, Undoers, ConversionsMatch, Kinds, CreditRefund,
    wallet, game, Post, Undo
<1>3. RefundsMatch'
  BY KeysAssumption, NobodyAssumption, <1>a, <1>b, <1>c, <1>d, <1>e, <1>f DEF
    MoneyInv, TypeOK, Keys, Undoers, RefundsMatch, Kinds, CreditRefund, wallet,
    game, Post, Undo
<1>4. StopProceeds'
  BY KeysAssumption, NobodyAssumption, <1>a, <1>b, <1>c, <1>d, <1>e, <1>f DEF
    MoneyInv, TypeOK, Keys, Undoers, StopProceeds, Kinds, CreditRefund, wallet,
    game, Post, Undo
<1>5. NoMoneyLost'
  BY KeysAssumption, NobodyAssumption, <1>a, <1>b, <1>c, <1>d, <1>e, <1>f DEF
    MoneyInv, TypeOK, Keys, Undoers, NoMoneyLost, Underway, Kinds, CreditRefund,
    wallet, game, Post, Undo
<1>6. CallsHaveKeys'
  BY KeysAssumption, NobodyAssumption, <1>a, <1>b, <1>c, <1>d, <1>e, <1>f DEF
    MoneyInv, TypeOK, Keys, Undoers, CallsHaveKeys, Kinds, CreditRefund,
    wallet, game, Post, Undo
<1> QED  BY <1>1, <1>2, <1>3, <1>4, <1>5, <1>6 DEF MoneyInv

LEMMA MarkRefundedAccounts ==
  ASSUME NEW q \in Undoers, MoneyInv, MarkRefunded(q)
  PROVE  MoneyInv'
<1>a. UNCHANGED <<posted, hold, status, balls, call, convert, stop, cut>>
  BY DEF MarkRefunded, wallet, game, Undone, NoCall
<1>b. \A x \in Kinds, j \in Keys : Posted(x, j)' <=> Posted(x, j)
  BY <1>a DEF Posted
<1>c. undo[q].key \in Keys  BY DEF MoneyInv, TypeOK, RefundsMatch, MarkRefunded
<1>1. TypeOK'
  BY KeysAssumption, NobodyAssumption, <1>a, <1>b, <1>c DEF MoneyInv, TypeOK,
    Keys, Undoers, Kinds, L!Startable, L!Live, L!Terminal, MarkRefunded,
    wallet, game, Undone, NoCall
<1>2. ConversionsMatch'  BY <1>a DEF MoneyInv, ConversionsMatch, Posted
<1>3. RefundsMatch'
  BY KeysAssumption, NobodyAssumption, <1>a, <1>b, <1>c DEF MoneyInv, TypeOK,
    Keys, Undoers, RefundsMatch, Kinds, MarkRefunded, wallet, game, Undone,
    NoCall
<1>4. StopProceeds'
  BY KeysAssumption, NobodyAssumption, <1>a, <1>b, <1>c DEF MoneyInv, TypeOK,
    Keys, Undoers, StopProceeds, Kinds, MarkRefunded, wallet, game, Undone,
    NoCall
<1>5. NoMoneyLost'
  BY KeysAssumption, NobodyAssumption, <1>a, <1>b, <1>c DEF MoneyInv, TypeOK,
    Keys, Undoers, NoMoneyLost, Underway, Kinds, MarkRefunded, wallet, game,
    Undone, NoCall
<1>6. CallsHaveKeys'  BY <1>a DEF MoneyInv, CallsHaveKeys, Posted
<1> QED  BY <1>1, <1>2, <1>3, <1>4, <1>5, <1>6 DEF MoneyInv

LEMMA RefundFailsAccounts ==
  ASSUME NEW q \in Undoers, MoneyInv, RefundFails(q)
  PROVE  MoneyInv'
<1>a. UNCHANGED <<hold, status, balls, row, call, convert, stop>>
  BY DEF RefundFails, wallet, game, Post, Cut, AfterRefundError, Undone,
    NoCall
<1>b. undo[q].key \in Keys  BY DEF MoneyInv, TypeOK, RefundsMatch, RefundFails
<1>c. posted' = posted \/ posted' = posted \cup {<<"refund", undo[q].key>>}
  BY DEF RefundFails, wallet, Post
<1>d. \A x \in Kinds, j \in Keys :
          Posted(x, j)' => Posted(x, j) \/ (x = "refund" /\ j = undo[q].key)
  BY <1>c DEF Posted
<1>e. \A x \in Kinds, j \in Keys : Posted(x, j) => Posted(x, j)'
  BY <1>c DEF Posted
<1>1. TypeOK'
  BY KeysAssumption, NobodyAssumption, <1>a, <1>b, <1>c, <1>d, <1>e DEF MoneyInv,
    TypeOK, Keys, Undoers, Kinds, L!Startable, L!Live, L!Terminal,
    RefundFails, wallet, game, Post, Cut, AfterRefundError, Undone, NoCall
<1>2. ConversionsMatch'
  BY KeysAssumption, NobodyAssumption, <1>a, <1>b, <1>c, <1>d, <1>e DEF MoneyInv,
    TypeOK, Keys, Undoers, ConversionsMatch, Kinds, RefundFails, wallet,
    game, Post, Cut, AfterRefundError, Undone, NoCall
<1>3. RefundsMatch'
  BY KeysAssumption, NobodyAssumption, <1>a, <1>b, <1>c, <1>d, <1>e DEF MoneyInv,
    TypeOK, Keys, Undoers, RefundsMatch, Kinds, RefundFails, wallet, game,
    Post, Cut, AfterRefundError, Undone, NoCall
<1>4. StopProceeds'
  BY KeysAssumption, NobodyAssumption, <1>a, <1>b, <1>c, <1>d, <1>e DEF MoneyInv,
    TypeOK, Keys, Undoers, StopProceeds, Kinds, RefundFails, wallet, game,
    Post, Cut, AfterRefundError, Undone, NoCall
<1>5. NoMoneyLost'
  BY KeysAssumption, NobodyAssumption, <1>a, <1>b, <1>c, <1>d, <1>e DEF MoneyInv,
    TypeOK, Keys, Undoers, NoMoneyLost, Underway, Kinds, RefundFails, wallet,
    game, Post, Cut, AfterRefundError, Undone, NoCall
<1>6. CallsHaveKeys'
  BY KeysAssumption, NobodyAssumption, <1>a, <1>b, <1>c, <1>d, <1>e DEF MoneyInv,
    TypeOK, Keys, Undoers, CallsHaveKeys, Kinds, RefundFails, wallet,
    game, Post, Cut, AfterRefundError, Undone, NoCall
<1> QED  BY <1>1, <1>2, <1>3, <1>4, <1>5, <1>6 DEF MoneyInv

LEMMA StopGameAccounts ==
  ASSUME MoneyInv, StopGame
  PROVE  MoneyInv'
<1>a. UNCHANGED <<posted, hold, balls, row, call, convert, undo, cut>>
  BY DEF StopGame, wallet, game, L!Cancel, L!Startable, L!Live
<1>b. \A x \in Kinds, j \in Keys : Posted(x, j)' <=> Posted(x, j)
  BY <1>a DEF Posted
<1>1. TypeOK'
  BY KeysAssumption, NobodyAssumption, <1>a, <1>b DEF MoneyInv, TypeOK, Keys,
    Undoers, Kinds, L!Startable, L!Live, L!Terminal, StopGame, wallet, game,
    L!Cancel, L!Startable, L!Live
<1>2. ConversionsMatch'  BY <1>a DEF MoneyInv, ConversionsMatch, Posted
<1>3. RefundsMatch'  BY <1>a DEF MoneyInv, RefundsMatch, Posted
<1>4. StopProceeds'
  BY KeysAssumption, NobodyAssumption, <1>a, <1>b DEF MoneyInv, TypeOK, Keys,
    Undoers, StopProceeds, Kinds, StopGame, wallet, game, L!Cancel,
    L!Startable, L!Live
<1>5. NoMoneyLost'  BY <1>a DEF MoneyInv, NoMoneyLost, Posted, Underway
<1>6. CallsHaveKeys'  BY <1>a DEF MoneyInv, CallsHaveKeys, Posted
<1> QED  BY <1>1, <1>2, <1>3, <1>4, <1>5, <1>6 DEF MoneyInv

LEMMA StopListsAccounts ==
  ASSUME MoneyInv, StopLists
  PROVE  MoneyInv'
<1>a. UNCHANGED <<posted, hold, status, balls, row, call, convert, undo, cut>>
  BY DEF StopLists, wallet, game
<1>b. \A x \in Kinds, j \in Keys : Posted(x, j)' <=> Posted(x, j)
  BY <1>a DEF Posted
<1>1. TypeOK'
  BY KeysAssumption, NobodyAssumption, <1>a, <1>b DEF MoneyInv, TypeOK, Keys,
    Undoers, Kinds, L!Startable, L!Live, L!Terminal, StopLists, wallet, game
<1>2. ConversionsMatch'  BY <1>a DEF MoneyInv, ConversionsMatch, Posted
<1>3. RefundsMatch'  BY <1>a DEF MoneyInv, RefundsMatch, Posted
<1>4. StopProceeds'
  BY KeysAssumption, NobodyAssumption, <1>a, <1>b DEF MoneyInv, TypeOK, Keys,
    Undoers, StopProceeds, Kinds, StopLists, wallet, game
<1>5. NoMoneyLost'  BY <1>a DEF MoneyInv, NoMoneyLost, Posted, Underway
<1>6. CallsHaveKeys'  BY <1>a DEF MoneyInv, CallsHaveKeys, Posted
<1> QED  BY <1>1, <1>2, <1>3, <1>4, <1>5, <1>6 DEF MoneyInv

LEMMA StopRefundsAccounts ==
  ASSUME NEW k \in Keys, MoneyInv, StopRefunds(k)
  PROVE  MoneyInv'
<1>a. UNCHANGED <<posted, hold, status, balls, row, call, convert, cut>>
  BY DEF StopRefunds, wallet, game, Refund, Refundable, Undo
<1>b. \A x \in Kinds, j \in Keys : Posted(x, j)' <=> Posted(x, j)
  BY <1>a DEF Posted
<1>1. TypeOK'
  BY KeysAssumption, NobodyAssumption, <1>a, <1>b DEF MoneyInv, TypeOK, Keys,
    Undoers, Kinds, L!Startable, L!Live, L!Terminal, StopRefunds, wallet,
    game, Refund, Refundable, Undo
<1>2. ConversionsMatch'  BY <1>a DEF MoneyInv, ConversionsMatch, Posted
<1>3. RefundsMatch'
  BY KeysAssumption, NobodyAssumption, <1>a, <1>b DEF MoneyInv, TypeOK, Keys,
    Undoers, RefundsMatch, Kinds, StopRefunds, wallet, game, Refund,
    Refundable, Undo
<1>4. StopProceeds'
  BY KeysAssumption, NobodyAssumption, <1>a, <1>b DEF MoneyInv, TypeOK, Keys,
    Undoers, StopProceeds, Kinds, RefundsMatch, StopProceeds, NothingLeft,
    StopRefunds, wallet, game, Refund, Refundable, Undo
<1>5. NoMoneyLost'  BY <1>a DEF MoneyInv, NoMoneyLost, Posted, Underway
<1>6. CallsHaveKeys'  BY <1>a DEF MoneyInv, CallsHaveKeys, Posted
<1> QED  BY <1>1, <1>2, <1>3, <1>4, <1>5, <1>6 DEF MoneyInv

LEMMA StopEndsAccounts ==
  ASSUME MoneyInv, StopEnds
  PROVE  MoneyInv'
<1>a. UNCHANGED <<posted, hold, status, balls, row, call, convert, undo, cut>>
  BY DEF StopEnds, wallet, game, NothingLeft
<1>b. \A x \in Kinds, j \in Keys : Posted(x, j)' <=> Posted(x, j)
  BY <1>a DEF Posted
<1>1. TypeOK'
  BY KeysAssumption, NobodyAssumption, <1>a, <1>b DEF MoneyInv, TypeOK, Keys,
    Undoers, Kinds, L!Startable, L!Live, L!Terminal, StopEnds, wallet, game,
    NothingLeft
<1>2. ConversionsMatch'  BY <1>a DEF MoneyInv, ConversionsMatch, Posted
<1>3. RefundsMatch'  BY <1>a DEF MoneyInv, RefundsMatch, Posted
<1>4. StopProceeds'
  BY KeysAssumption, NobodyAssumption, <1>a, <1>b DEF MoneyInv, TypeOK, Keys,
    Undoers, StopProceeds, Kinds, RefundsMatch, StopEnds, wallet, game,
    NothingLeft
<1>5. NoMoneyLost'  BY <1>a DEF MoneyInv, NoMoneyLost, Posted, Underway
<1>6. CallsHaveKeys'  BY <1>a DEF MoneyInv, CallsHaveKeys, Posted
<1> QED  BY <1>1, <1>2, <1>3, <1>4, <1>5, <1>6 DEF MoneyInv

LEMMA GameGoesOnAccounts ==
  ASSUME MoneyInv, GameGoesOn
  PROVE  MoneyInv'
<1>a. UNCHANGED <<posted, hold, row, call, convert, undo, stop, cut>>
  BY DEF GameGoesOn, wallet, game, L!Next, L!Prepare, L!Start, L!Undo,
    L!Pause, L!Resume, L!Draw, L!Cancel, L!Startable, L!Live, L!Terminal
<1>b. \A x \in Kinds, j \in Keys : Posted(x, j)' <=> Posted(x, j)
  BY <1>a DEF Posted
<1>1. TypeOK'
  BY KeysAssumption, NobodyAssumption, <1>a, <1>b DEF MoneyInv, TypeOK, Keys,
    Undoers, Kinds, L!Startable, L!Live, L!Terminal, GameGoesOn, wallet,
    game, L!Next, L!Prepare, L!Start, L!Undo, L!Pause, L!Resume, L!Draw,
    L!Cancel, L!Startable, L!Live, L!Terminal
<1>2. ConversionsMatch'  BY <1>a DEF MoneyInv, ConversionsMatch, Posted
<1>3. RefundsMatch'  BY <1>a DEF MoneyInv, RefundsMatch, Posted
<1>4. StopProceeds'
  BY KeysAssumption, NobodyAssumption, <1>a, <1>b DEF MoneyInv, TypeOK, Keys,
    Undoers, StopProceeds, Kinds, GameGoesOn, wallet, game, L!Next,
    L!Prepare, L!Start, L!Undo, L!Pause, L!Resume, L!Draw, L!Cancel,
    L!Startable, L!Live, L!Terminal
<1>5. NoMoneyLost'  BY <1>a DEF MoneyInv, NoMoneyLost, Posted, Underway
<1>6. CallsHaveKeys'  BY <1>a DEF MoneyInv, CallsHaveKeys, Posted
<1> QED  BY <1>1, <1>2, <1>3, <1>4, <1>5, <1>6 DEF MoneyInv

LEMMA CrashAccounts ==
  ASSUME MoneyInv, Crash
  PROVE  MoneyInv'
<1>a. UNCHANGED <<posted, hold, status, balls, row>>
  BY DEF Crash, wallet, game, NoCall
<1>b. \A x \in Kinds, j \in Keys : Posted(x, j)' <=> Posted(x, j)
  BY <1>a DEF Posted
<1>1. TypeOK'
  BY KeysAssumption, NobodyAssumption, <1>a, <1>b DEF MoneyInv, TypeOK, Keys,
    Undoers, Kinds, L!Startable, L!Live, L!Terminal, Crash, wallet, game,
    NoCall
<1>2. ConversionsMatch'
  BY KeysAssumption, NobodyAssumption, <1>a, <1>b DEF MoneyInv, TypeOK, Keys,
    Undoers, ConversionsMatch, Kinds, Crash, wallet, game, NoCall
<1>3. RefundsMatch'
  BY KeysAssumption, NobodyAssumption, <1>a, <1>b DEF MoneyInv, TypeOK, Keys,
    Undoers, RefundsMatch, Kinds, Crash, wallet, game, NoCall
<1>4. StopProceeds'
  BY KeysAssumption, NobodyAssumption, <1>a, <1>b DEF MoneyInv, TypeOK, Keys,
    Undoers, StopProceeds, Kinds, Crash, wallet, game, NoCall
<1>5. NoMoneyLost'
  BY KeysAssumption, NobodyAssumption, <1>a, <1>b DEF MoneyInv, TypeOK, Keys,
    Undoers, NoMoneyLost, Underway, Kinds, Crash, wallet, game, NoCall
<1>6. CallsHaveKeys'
  BY KeysAssumption, NobodyAssumption, <1>a, <1>b DEF MoneyInv, TypeOK, Keys,
    Undoers, CallsHaveKeys, Kinds, Crash, wallet, game, NoCall
<1> QED  BY <1>1, <1>2, <1>3, <1>4, <1>5, <1>6 DEF MoneyInv

(* Every step of the specification.                                        *)
LEMMA StepAccounts ==
  ASSUME MoneyInv, [Next]_vars
  PROVE  MoneyInv'
<1>1. CASE UNCHANGED vars
  BY <1>1 DEF vars, wallet, game, MoneyInv, TypeOK, CallsHaveKeys, ConversionsMatch,
              RefundsMatch, StopProceeds, NoMoneyLost, Underway, Posted
<1>2. ASSUME NEW b \in Calls, Serve(b) \/ \E k \in BuyKeys : Purchase(b, k)
      PROVE  MoneyInv'
  BY <1>2, PurchaseAccounts, DebitAccounts, DebitFailsAccounts, InsertAccounts,
     InsertFailedAccounts, CompensateAccounts, CompensateFailsAccounts DEF Serve
<1>3. ASSUME NEW k \in ArmKeys, Convert(k) \/ ConvertOn(k) \/ ExpireHold(k)
      PROVE  MoneyInv'
  BY <1>3, ConvertAccounts, CommitHoldAccounts, CommitFailsAccounts, InsertConvertedAccounts,
     InsertConvertedFailsAccounts, ReleaseHoldAccounts, ExpireHoldAccounts DEF ConvertOn
<1>4. ASSUME NEW q \in Undoers, UndoOn(q) \/ \E k \in Keys : AdminRefunds(q, k)
      PROVE  MoneyInv'
  BY <1>4, AdminRefundsAccounts, CreditRefundAccounts, MarkRefundedAccounts,
     RefundFailsAccounts DEF UndoOn
<1>5. CASE StopGame \/ StopOn
  BY <1>5, StopGameAccounts, StopListsAccounts, StopRefundsAccounts, StopEndsAccounts DEF StopOn
<1>6. CASE GameGoesOn \/ Crash
  BY <1>6, GameGoesOnAccounts, CrashAccounts
<1> QED  BY <1>1, <1>2, <1>3, <1>4, <1>5, <1>6 DEF Next

(* Types, calls, conversions, refunds, the stop and the money agree,       *)
(* whatever keys clients send again.                                       *)
THEOREM MoneyInvariance == Spec => []MoneyInv
<1>1. Init => MoneyInv  BY InitHolds, KnowsMoney
<1>2. MoneyInv /\ [Next]_vars => MoneyInv'  BY StepAccounts
<1> QED  BY <1>1, <1>2, PTL DEF Spec

(* Money that was taken is accounted for, unless a step failed that the    *)
(* code does not make up for, also when clients send keys again.           *)
THEOREM MoneyIsAccountedFor == Spec => []NoMoneyLost
<1>1. MoneyInv => NoMoneyLost  BY DEF MoneyInv
<1> QED  BY <1>1, MoneyInvariance, PTL

(* A stop refunds every purchase it lists.                                 *)
THEOREM StopsRefund == Spec => []StopRefundsAll
<1>1. MoneyInv => StopRefundsAll
  BY NobodyAssumption DEF MoneyInv, TypeOK, StopProceeds, StopRefundsAll, Keys
<1> QED  BY <1>1, MoneyInvariance, PTL

-----------------------------------------------------------------------------
(* What does: a ticket is paid for, and its payment not given back.        *)

LEMMA PurchaseKeeps ==
  ASSUME NEW b \in Calls, NEW k \in BuyKeys, IInv, Purchase(b, k), NoRetryAfterFailure
  PROVE  IInv'
<1>a. UNCHANGED <<posted, hold, status, balls, row, convert, undo, stop, cut>>
  BY DEF Purchase, wallet, game, Step, Fresh, OnSale
<1>b. \A x \in Kinds, j \in Keys : Posted(x, j)' <=> Posted(x, j)
  BY <1>a DEF Posted
<1>1. RowsArePaid'  BY <1>a DEF IInv, RowsArePaid, Posted
<1>2. CallsKnowTheirKey'
  BY KeysAssumption, NobodyAssumption, <1>a, <1>b DEF IInv, TypeOK, Keys,
    Undoers, CallsKnowTheirKey, Kinds, RowsArePaid, Purchase, wallet, game,
    Step, Fresh, OnSale
<1>3. MoneyInv'  BY KnowsMoney, PurchaseAccounts
<1> QED  BY <1>1, <1>2, <1>3 DEF IInv, MoneyInv

LEMMA DebitKeeps ==
  ASSUME NEW b \in Calls, IInv, Debit(b), NoRetryAfterFailure
  PROVE  IInv'
<1>a. UNCHANGED <<hold, status, balls, row, convert, undo, stop, cut>>
  BY DEF Debit, wallet, game, Post, Step, Returns, NoCall
<1>b. call[b].key \in BuyKeys  BY DEF IInv, TypeOK, CallsKnowTheirKey, Debit
<1>c. posted' = posted \/ posted' = posted \cup {<<"debit", call[b].key>>}
  BY DEF Debit, wallet, Post
<1>d. \A x \in Kinds, j \in Keys :
          Posted(x, j)' => Posted(x, j) \/ (x = "debit" /\ j = call[b].key)
  BY <1>c DEF Posted
<1>e. \A x \in Kinds, j \in Keys : Posted(x, j) => Posted(x, j)'
  BY <1>c DEF Posted
<1>f. call'[b].pc = "insert" => Posted("debit", call[b].key)'
  BY DEF Debit, Post, Posted, Step, Returns, NoCall, IInv, TypeOK
<1>1. RowsArePaid'
  BY KeysAssumption, NobodyAssumption, <1>a, <1>b, <1>c, <1>d, <1>e, <1>f DEF
    IInv, TypeOK, Keys, Undoers, RowsArePaid, Kinds, Debit, wallet, game,
    Post, Step, Returns, NoCall
<1>2. CallsKnowTheirKey'
  <2>1. \A c \in Calls : c # b => call'[c] = call[c]
    BY DEF Debit, Step, Returns, NoCall, IInv, TypeOK
  <2>2. \/ call'[b] = [pc |-> "insert", key |-> call[b].key]
        \/ call'[b] = [pc |-> "idle", key |-> None]
    BY DEF Debit, Step, Returns, NoCall, IInv, TypeOK
  <2>3. \A j \in Keys : Posted("compensate", j)' <=> Posted("compensate", j)
    BY <1>d, <1>e DEF Kinds
  <2>4. call[b].key \in Keys /\ None \notin Keys  BY <1>b, NobodyAssumption DEF Keys
  <2>5. ASSUME NEW c \in Calls, NEW j, j = call'[c].key
        PROVE  /\ call'[c].pc = "idle" <=> j = None
               /\ call'[c].pc \in {"insert", "compensate"} => Posted("debit", j)'
               /\ call'[c].pc = "compensate" => j \notin Retried /\ row'[j] = "none"
               /\ j \in Keys => ~Posted("compensate", j)'
               /\ j \in BuyKeys \ Retried => row'[j] = "none"
               /\ call'[c].pc = "debit" /\ j \notin Retried => ~Posted("debit", j)'
    <3>1. CASE c = b
      <4>1. call'[b].pc = "insert" => Posted("debit", j)'  BY <3>1, <2>5, <1>f DEF Posted
      <4>2. call[b].pc = "debit"  BY DEF Debit
      <4>3. /\ ~Posted("compensate", call[b].key)
            /\ call[b].key \in BuyKeys \ Retried => row[call[b].key] = "none"
        BY <2>4 DEF IInv, CallsKnowTheirKey
      <4>4. CASE call'[b] = [pc |-> "insert", key |-> call[b].key]
        BY <4>1, <4>3, <4>4, <3>1, <2>3, <2>4, <2>5, <1>a
      <4>5. CASE call'[b] = [pc |-> "idle", key |-> None]
        BY <4>5, <3>1, <2>4, <2>5 DEF Keys
      <4> QED  BY <4>4, <4>5, <2>2
    <3>2. CASE c # b
      <4>1. call'[c] = call[c] /\ j = call[c].key  BY <3>2, <2>1, <2>5
      <4>2. j \in BuyKeys \/ j = None  BY <4>1 DEF IInv, TypeOK
      <4>3. j = call[b].key => j \in Retried
        BY <4>1, <4>2, <3>2, <1>b DEF IInv, CallsKnowTheirKey
      <4>4. j \in BuyKeys => j \in Keys /\ (Posted("debit", j)' => Posted("debit", j) \/ j \in Retried)
                                        /\ (Posted("debit", j) => Posted("debit", j)')
        BY <4>3, <1>d, <1>e DEF Kinds, Keys
      <4> QED  BY <4>1, <4>2, <4>4, <2>3, <1>a DEF IInv, CallsKnowTheirKey
    <3> QED  BY <3>1, <3>2
  <2>6. \A c, d \in Calls :
          call'[c].key = call'[d].key /\ call'[c].key \in BuyKeys \ Retried => c = d
    BY <2>1, <2>2, <2>4 DEF IInv, CallsKnowTheirKey, Keys
  <2> QED  BY <2>5, <2>6 DEF CallsKnowTheirKey
<1>3. MoneyInv'  BY KnowsMoney, DebitAccounts
<1> QED  BY <1>1, <1>2, <1>3 DEF IInv, MoneyInv

LEMMA DebitFailsKeeps ==
  ASSUME NEW b \in Calls, IInv, DebitFails(b), NoRetryAfterFailure
  PROVE  IInv'
<1>a. UNCHANGED <<hold, status, balls, row, convert, undo, stop>>
  BY DEF DebitFails, wallet, game, Post, Cut, Returns, NoCall
<1>b. call[b].key \in BuyKeys
  BY DEF IInv, TypeOK, CallsKnowTheirKey, DebitFails
<1>c. posted' = posted \/ posted' = posted \cup {<<"debit", call[b].key>>}
  BY DEF DebitFails, wallet, Post
<1>d. \A x \in Kinds, j \in Keys :
          Posted(x, j)' => Posted(x, j) \/ (x = "debit" /\ j = call[b].key)
  BY <1>c DEF Posted
<1>e. \A x \in Kinds, j \in Keys : Posted(x, j) => Posted(x, j)'
  BY <1>c DEF Posted
<1>1. RowsArePaid'
  BY KeysAssumption, NobodyAssumption, <1>a, <1>b, <1>c, <1>d, <1>e DEF IInv,
    TypeOK, Keys, Undoers, RowsArePaid, Kinds, DebitFails, wallet, game,
    Post, Cut, Returns, NoCall
<1>2. CallsKnowTheirKey'
  BY KeysAssumption, NobodyAssumption, <1>a, <1>b, <1>c, <1>d, <1>e DEF IInv,
    TypeOK, Keys, Undoers, CallsKnowTheirKey, Kinds, DebitFails, wallet,
    game, Post, Cut, Returns, NoCall
<1>3. MoneyInv'  BY KnowsMoney, DebitFailsAccounts
<1> QED  BY <1>1, <1>2, <1>3 DEF IInv, MoneyInv

LEMMA InsertKeeps ==
  ASSUME NEW b \in Calls, IInv, Insert(b), NoRetryAfterFailure
  PROVE  IInv'
<1>a. UNCHANGED <<posted, hold, status, balls, convert, undo, stop, cut>>
  BY DEF Insert, wallet, game, Inserted, Returns, NoCall
<1>b. \A x \in Kinds, j \in Keys : Posted(x, j)' <=> Posted(x, j)
  BY <1>a DEF Posted
<1>c. call[b].key \in BuyKeys  BY DEF IInv, TypeOK, CallsKnowTheirKey, Insert
<1>1. RowsArePaid'
  BY KeysAssumption, NobodyAssumption, <1>a, <1>b, <1>c DEF IInv, TypeOK,
    Keys, Undoers, RowsArePaid, Kinds, CallsKnowTheirKey, Insert, wallet,
    game, Inserted, Returns, NoCall
<1>2. CallsKnowTheirKey'
  BY KeysAssumption, NobodyAssumption, <1>a, <1>b, <1>c DEF IInv, TypeOK,
    Keys, Undoers, CallsKnowTheirKey, Kinds, Insert, wallet, game, Inserted,
    Returns, NoCall
<1>3. MoneyInv'  BY KnowsMoney, InsertAccounts
<1> QED  BY <1>1, <1>2, <1>3 DEF IInv, MoneyInv

LEMMA InsertFailedKeeps ==
  ASSUME NEW b \in Calls, IInv, InsertFailed(b), NoRetryAfterFailure
  PROVE  IInv'
<1>a. UNCHANGED <<posted, hold, status, balls, row, convert, undo, stop, cut>>
  BY DEF InsertFailed, wallet, game, InsertRefused, AfterRefusedInsert, Step
<1>b. \A x \in Kinds, j \in Keys : Posted(x, j)' <=> Posted(x, j)
  BY <1>a DEF Posted
<1>c. call[b].key \in BuyKeys
  BY DEF IInv, TypeOK, CallsKnowTheirKey, InsertFailed
<1>1. RowsArePaid'  BY <1>a DEF IInv, RowsArePaid, Posted
<1>2. CallsKnowTheirKey'
  BY KeysAssumption, NobodyAssumption, <1>a, <1>b, <1>c DEF IInv, TypeOK,
    Keys, Undoers, CallsKnowTheirKey, Kinds, NoRetryAfterFailure,
    InsertFailed, wallet, game, InsertRefused, AfterRefusedInsert, Step
<1>3. MoneyInv'  BY KnowsMoney, InsertFailedAccounts
<1> QED  BY <1>1, <1>2, <1>3 DEF IInv, MoneyInv

LEMMA CompensateKeeps ==
  ASSUME NEW b \in Calls, IInv, Compensate(b), NoRetryAfterFailure
  PROVE  IInv'
<1>a. UNCHANGED <<hold, status, balls, row, convert, undo, stop, cut>>
  BY DEF Compensate, wallet, game, Post, Returns, NoCall
<1>b. call[b].key \in BuyKeys
  BY DEF IInv, TypeOK, CallsKnowTheirKey, Compensate
<1>c. posted' = posted \/ posted' = posted \cup {<<"compensate", call[b].key>>}
  BY DEF Compensate, wallet, Post
<1>d. \A x \in Kinds, j \in Keys :
          Posted(x, j)' => Posted(x, j) \/ (x = "compensate" /\ j = call[b].key)
  BY <1>c DEF Posted
<1>e. \A x \in Kinds, j \in Keys : Posted(x, j) => Posted(x, j)'
  BY <1>c DEF Posted
<1>f. \A j \in Keys : j = call[b].key => Posted("compensate", j)'
  BY DEF Compensate, Post, Posted, Returns, NoCall
<1>1. RowsArePaid'
  BY KeysAssumption, NobodyAssumption, <1>a, <1>b, <1>c, <1>d, <1>e, <1>f DEF
    IInv, TypeOK, Keys, Undoers, RowsArePaid, Kinds, CallsKnowTheirKey,
    Compensate, wallet, game, Post, Returns, NoCall
<1>2. CallsKnowTheirKey'
  BY KeysAssumption, NobodyAssumption, <1>a, <1>b, <1>c, <1>d, <1>e, <1>f DEF
    IInv, TypeOK, Keys, Undoers, CallsKnowTheirKey, Kinds, Compensate,
    wallet, game, Post, Returns, NoCall
<1>3. MoneyInv'  BY KnowsMoney, CompensateAccounts
<1> QED  BY <1>1, <1>2, <1>3 DEF IInv, MoneyInv

LEMMA CompensateFailsKeeps ==
  ASSUME NEW b \in Calls, IInv, CompensateFails(b), NoRetryAfterFailure
  PROVE  IInv'
<1>a. UNCHANGED <<hold, status, balls, row, convert, undo, stop>>
  BY DEF CompensateFails, wallet, game, Post, Cut, Returns, NoCall
<1>b. call[b].key \in BuyKeys
  BY DEF IInv, TypeOK, CallsKnowTheirKey, CompensateFails
<1>c. posted' = posted \/ posted' = posted \cup {<<"compensate", call[b].key>>}
  BY DEF CompensateFails, wallet, Post
<1>d. \A x \in Kinds, j \in Keys :
          Posted(x, j)' => Posted(x, j) \/ (x = "compensate" /\ j = call[b].key)
  BY <1>c DEF Posted
<1>e. \A x \in Kinds, j \in Keys : Posted(x, j) => Posted(x, j)'
  BY <1>c DEF Posted
<1>1. RowsArePaid'
  BY KeysAssumption, NobodyAssumption, <1>a, <1>b, <1>c, <1>d, <1>e DEF IInv,
    TypeOK, Keys, Undoers, RowsArePaid, Kinds, CallsKnowTheirKey,
    CompensateFails, wallet, game, Post, Cut, Returns, NoCall
<1>2. CallsKnowTheirKey'
  BY KeysAssumption, NobodyAssumption, <1>a, <1>b, <1>c, <1>d, <1>e DEF IInv,
    TypeOK, Keys, Undoers, CallsKnowTheirKey, Kinds, CompensateFails, wallet,
    game, Post, Cut, Returns, NoCall
<1>3. MoneyInv'  BY KnowsMoney, CompensateFailsAccounts
<1> QED  BY <1>1, <1>2, <1>3 DEF IInv, MoneyInv

LEMMA ConvertKeeps ==
  ASSUME NEW k \in ArmKeys, IInv, Convert(k), NoRetryAfterFailure
  PROVE  IInv'
<1>a. UNCHANGED <<posted, hold, status, balls, row, call, undo, stop, cut>>
  BY DEF Convert, wallet, game, At
<1>1. RowsArePaid'  BY <1>a DEF IInv, RowsArePaid, Posted
<1>2. CallsKnowTheirKey'  BY <1>a DEF IInv, CallsKnowTheirKey, Posted
<1>3. MoneyInv'  BY KnowsMoney, ConvertAccounts
<1> QED  BY <1>1, <1>2, <1>3 DEF IInv, MoneyInv

LEMMA CommitHoldKeeps ==
  ASSUME NEW k \in ArmKeys, IInv, CommitHold(k), NoRetryAfterFailure
  PROVE  IInv'
<1>a. UNCHANGED <<status, balls, row, call, undo, stop, cut>>
  BY DEF CommitHold, wallet, game, Committed, At
<1>b. k \in Keys  BY DEF Keys
<1>c. posted' = posted \/ posted' = posted \cup {<<"debit", k>>}
  BY DEF CommitHold, wallet, Committed
<1>d. \A x \in Kinds, j \in Keys :
          Posted(x, j)' => Posted(x, j) \/ (x = "debit" /\ j = k)
  BY <1>c DEF Posted
<1>e. \A x \in Kinds, j \in Keys : Posted(x, j) => Posted(x, j)'
  BY <1>c DEF Posted
<1>f. IF hold[k] = "active" /\ hold'[k] = "committed"
        THEN hold' = [hold EXCEPT ![k] = "committed"] /\ Posted("debit", k)'
        ELSE UNCHANGED <<posted, hold>>
  BY DEF CommitHold, wallet, Committed, Posted, IInv, TypeOK
<1>1. RowsArePaid'
  BY KeysAssumption, NobodyAssumption, <1>a, <1>b, <1>c, <1>d, <1>e, <1>f DEF
    IInv, TypeOK, Keys, Undoers, RowsArePaid, Kinds, CommitHold, wallet,
    game, Committed, At
<1>2. CallsKnowTheirKey'
  BY KeysAssumption, NobodyAssumption, <1>a, <1>b, <1>c, <1>d, <1>e, <1>f DEF
    IInv, TypeOK, Keys, Undoers, CallsKnowTheirKey, Kinds, CommitHold,
    wallet, game, Committed, At
<1>3. MoneyInv'  BY KnowsMoney, CommitHoldAccounts
<1> QED  BY <1>1, <1>2, <1>3 DEF IInv, MoneyInv

LEMMA CommitFailsKeeps ==
  ASSUME NEW k \in ArmKeys, IInv, CommitFails(k), NoRetryAfterFailure
  PROVE  IInv'
<1>a. UNCHANGED <<status, balls, row, call, undo, stop>>
  BY DEF CommitFails, wallet, game, Committed, At, Cut
<1>b. k \in Keys  BY DEF Keys
<1>c. posted' = posted \/ posted' = posted \cup {<<"debit", k>>}
  BY DEF CommitFails, wallet, Committed
<1>d. \A x \in Kinds, j \in Keys :
          Posted(x, j)' => Posted(x, j) \/ (x = "debit" /\ j = k)
  BY <1>c DEF Posted
<1>e. \A x \in Kinds, j \in Keys : Posted(x, j) => Posted(x, j)'
  BY <1>c DEF Posted
<1>f. IF hold[k] = "active" /\ hold'[k] = "committed"
        THEN hold' = [hold EXCEPT ![k] = "committed"] /\ Posted("debit", k)'
        ELSE UNCHANGED <<posted, hold>>
  BY DEF CommitFails, wallet, Committed, Posted, IInv, TypeOK
<1>1. RowsArePaid'
  BY KeysAssumption, NobodyAssumption, <1>a, <1>b, <1>c, <1>d, <1>e, <1>f DEF
    IInv, TypeOK, Keys, Undoers, RowsArePaid, Kinds, CommitFails, wallet,
    game, Committed, At, Cut
<1>2. CallsKnowTheirKey'
  BY KeysAssumption, NobodyAssumption, <1>a, <1>b, <1>c, <1>d, <1>e, <1>f DEF
    IInv, TypeOK, Keys, Undoers, CallsKnowTheirKey, Kinds, CommitFails,
    wallet, game, Committed, At, Cut
<1>3. MoneyInv'  BY KnowsMoney, CommitFailsAccounts
<1> QED  BY <1>1, <1>2, <1>3 DEF IInv, MoneyInv

LEMMA InsertConvertedKeeps ==
  ASSUME NEW k \in ArmKeys, IInv, InsertConverted(k), NoRetryAfterFailure
  PROVE  IInv'
<1>a. UNCHANGED <<posted, hold, status, balls, call, undo, stop, cut>>
  BY DEF InsertConverted, wallet, game, Inserted, At
<1>b. \A x \in Kinds, j \in Keys : Posted(x, j)' <=> Posted(x, j)
  BY <1>a DEF Posted
<1>c. k \in Keys /\ k \notin BuyKeys  BY KeysAssumption DEF Keys
<1>1. RowsArePaid'
  BY KeysAssumption, NobodyAssumption, <1>a, <1>b, <1>c DEF IInv, TypeOK,
    Keys, Undoers, RowsArePaid, Kinds, ConversionsMatch, InsertConverted,
    wallet, game, Inserted, At
<1>2. CallsKnowTheirKey'
  BY KeysAssumption, NobodyAssumption, <1>a, <1>b, <1>c DEF IInv, TypeOK,
    Keys, Undoers, CallsKnowTheirKey, Kinds, InsertConverted, wallet, game,
    Inserted, At
<1>3. MoneyInv'  BY KnowsMoney, InsertConvertedAccounts
<1> QED  BY <1>1, <1>2, <1>3 DEF IInv, MoneyInv

LEMMA InsertConvertedFailsKeeps ==
  ASSUME NEW k \in ArmKeys, IInv, InsertConvertedFails(k), NoRetryAfterFailure
  PROVE  IInv'
<1>a. UNCHANGED <<posted, hold, status, balls, row, call, undo, stop>>
  BY DEF InsertConvertedFails, wallet, game, At
<1>1. RowsArePaid'  BY <1>a DEF IInv, RowsArePaid, Posted
<1>2. CallsKnowTheirKey'  BY <1>a DEF IInv, CallsKnowTheirKey, Posted
<1>3. MoneyInv'  BY KnowsMoney, InsertConvertedFailsAccounts
<1> QED  BY <1>1, <1>2, <1>3 DEF IInv, MoneyInv

LEMMA ReleaseHoldKeeps ==
  ASSUME NEW k \in ArmKeys, IInv, ReleaseHold(k), NoRetryAfterFailure
  PROVE  IInv'
<1>a. UNCHANGED <<posted, status, balls, row, call, undo, stop, cut>>
  BY DEF ReleaseHold, wallet, game, Released, At
<1>1. RowsArePaid'  BY <1>a DEF IInv, RowsArePaid, Posted
<1>2. CallsKnowTheirKey'  BY <1>a DEF IInv, CallsKnowTheirKey, Posted
<1>3. MoneyInv'  BY KnowsMoney, ReleaseHoldAccounts
<1> QED  BY <1>1, <1>2, <1>3 DEF IInv, MoneyInv

LEMMA ExpireHoldKeeps ==
  ASSUME NEW k \in ArmKeys, IInv, ExpireHold(k), NoRetryAfterFailure
  PROVE  IInv'
<1>a. UNCHANGED <<posted, status, balls, row, call, convert, undo, stop, cut>>
  BY DEF ExpireHold, wallet, game
<1>1. RowsArePaid'  BY <1>a DEF IInv, RowsArePaid, Posted
<1>2. CallsKnowTheirKey'  BY <1>a DEF IInv, CallsKnowTheirKey, Posted
<1>3. MoneyInv'  BY KnowsMoney, ExpireHoldAccounts
<1> QED  BY <1>1, <1>2, <1>3 DEF IInv, MoneyInv

LEMMA AdminRefundsKeeps ==
  ASSUME NEW q \in Undoers, NEW k \in Keys, IInv, AdminRefunds(q, k), NoRetryAfterFailure
  PROVE  IInv'
<1>a. UNCHANGED <<posted, hold, status, balls, row, call, convert, stop, cut>>
  BY DEF AdminRefunds, wallet, game, Refund, Refundable, Undo
<1>1. RowsArePaid'  BY <1>a DEF IInv, RowsArePaid, Posted
<1>2. CallsKnowTheirKey'  BY <1>a DEF IInv, CallsKnowTheirKey, Posted
<1>3. MoneyInv'  BY KnowsMoney, AdminRefundsAccounts
<1> QED  BY <1>1, <1>2, <1>3 DEF IInv, MoneyInv

LEMMA CreditRefundKeeps ==
  ASSUME NEW q \in Undoers, IInv, CreditRefund(q), NoRetryAfterFailure
  PROVE  IInv'
<1>a. UNCHANGED <<hold, status, balls, row, call, convert, stop, cut>>
  BY DEF CreditRefund, wallet, game, Post, Undo
<1>b. undo[q].key \in Keys  BY DEF IInv, TypeOK, RefundsMatch, CreditRefund
<1>c. posted' = posted \/ posted' = posted \cup {<<"refund", undo[q].key>>}
  BY DEF CreditRefund, wallet, Post
<1>d. \A x \in Kinds, j \in Keys :
          Posted(x, j)' => Posted(x, j) \/ (x = "refund" /\ j = undo[q].key)
  BY <1>c DEF Posted
<1>e. \A x \in Kinds, j \in Keys : Posted(x, j) => Posted(x, j)'
  BY <1>c DEF Posted
<1>f. Posted("refund", undo[q].key)'  BY DEF CreditRefund, Post, Posted, Undo
<1>1. RowsArePaid'
  BY KeysAssumption, NobodyAssumption, <1>a, <1>b, <1>c, <1>d, <1>e, <1>f DEF
    IInv, TypeOK, Keys, Undoers, RowsArePaid, Kinds, RefundsMatch,
    CreditRefund, wallet, game, Post, Undo
<1>2. CallsKnowTheirKey'
  BY KeysAssumption, NobodyAssumption, <1>a, <1>b, <1>c, <1>d, <1>e, <1>f DEF
    IInv, TypeOK, Keys, Undoers, CallsKnowTheirKey, Kinds, CreditRefund,
    wallet, game, Post, Undo
<1>3. MoneyInv'  BY KnowsMoney, CreditRefundAccounts
<1> QED  BY <1>1, <1>2, <1>3 DEF IInv, MoneyInv

LEMMA MarkRefundedKeeps ==
  ASSUME NEW q \in Undoers, IInv, MarkRefunded(q), NoRetryAfterFailure
  PROVE  IInv'
<1>a. UNCHANGED <<posted, hold, status, balls, call, convert, stop, cut>>
  BY DEF MarkRefunded, wallet, game, Undone, NoCall
<1>b. \A x \in Kinds, j \in Keys : Posted(x, j)' <=> Posted(x, j)
  BY <1>a DEF Posted
<1>c. undo[q].key \in Keys  BY DEF IInv, TypeOK, RefundsMatch, MarkRefunded
<1>1. RowsArePaid'
  BY KeysAssumption, NobodyAssumption, <1>a, <1>b, <1>c DEF IInv, TypeOK,
    Keys, Undoers, RowsArePaid, Kinds, RefundsMatch, MarkRefunded, wallet,
    game, Undone, NoCall
<1>2. CallsKnowTheirKey'
  BY KeysAssumption, NobodyAssumption, <1>a, <1>b, <1>c DEF IInv, TypeOK,
    Keys, Undoers, CallsKnowTheirKey, Kinds, RefundsMatch, MarkRefunded,
    wallet, game, Undone, NoCall
<1>3. MoneyInv'  BY KnowsMoney, MarkRefundedAccounts
<1> QED  BY <1>1, <1>2, <1>3 DEF IInv, MoneyInv

LEMMA RefundFailsKeeps ==
  ASSUME NEW q \in Undoers, IInv, RefundFails(q), NoRetryAfterFailure
  PROVE  IInv'
<1>a. UNCHANGED <<hold, status, balls, row, call, convert, stop>>
  BY DEF RefundFails, wallet, game, Post, Cut, AfterRefundError, Undone,
    NoCall
<1>b. undo[q].key \in Keys  BY DEF IInv, TypeOK, RefundsMatch, RefundFails
<1>c. posted' = posted \/ posted' = posted \cup {<<"refund", undo[q].key>>}
  BY DEF RefundFails, wallet, Post
<1>d. \A x \in Kinds, j \in Keys :
          Posted(x, j)' => Posted(x, j) \/ (x = "refund" /\ j = undo[q].key)
  BY <1>c DEF Posted
<1>e. \A x \in Kinds, j \in Keys : Posted(x, j) => Posted(x, j)'
  BY <1>c DEF Posted
<1>1. RowsArePaid'
  BY KeysAssumption, NobodyAssumption, <1>a, <1>b, <1>c, <1>d, <1>e DEF IInv,
    TypeOK, Keys, Undoers, RowsArePaid, Kinds, RefundsMatch, RefundFails,
    wallet, game, Post, Cut, AfterRefundError, Undone, NoCall
<1>2. CallsKnowTheirKey'
  BY KeysAssumption, NobodyAssumption, <1>a, <1>b, <1>c, <1>d, <1>e DEF IInv,
    TypeOK, Keys, Undoers, CallsKnowTheirKey, Kinds, RefundFails, wallet,
    game, Post, Cut, AfterRefundError, Undone, NoCall
<1>3. MoneyInv'  BY KnowsMoney, RefundFailsAccounts
<1> QED  BY <1>1, <1>2, <1>3 DEF IInv, MoneyInv

LEMMA StopGameKeeps ==
  ASSUME IInv, StopGame, NoRetryAfterFailure
  PROVE  IInv'
<1>a. UNCHANGED <<posted, hold, balls, row, call, convert, undo, cut>>
  BY DEF StopGame, wallet, game, L!Cancel, L!Startable, L!Live
<1>1. RowsArePaid'  BY <1>a DEF IInv, RowsArePaid, Posted
<1>2. CallsKnowTheirKey'  BY <1>a DEF IInv, CallsKnowTheirKey, Posted
<1>3. MoneyInv'  BY KnowsMoney, StopGameAccounts
<1> QED  BY <1>1, <1>2, <1>3 DEF IInv, MoneyInv

LEMMA StopListsKeeps ==
  ASSUME IInv, StopLists, NoRetryAfterFailure
  PROVE  IInv'
<1>a. UNCHANGED <<posted, hold, status, balls, row, call, convert, undo, cut>>
  BY DEF StopLists, wallet, game
<1>1. RowsArePaid'  BY <1>a DEF IInv, RowsArePaid, Posted
<1>2. CallsKnowTheirKey'  BY <1>a DEF IInv, CallsKnowTheirKey, Posted
<1>3. MoneyInv'  BY KnowsMoney, StopListsAccounts
<1> QED  BY <1>1, <1>2, <1>3 DEF IInv, MoneyInv

LEMMA StopRefundsKeeps ==
  ASSUME NEW k \in Keys, IInv, StopRefunds(k), NoRetryAfterFailure
  PROVE  IInv'
<1>a. UNCHANGED <<posted, hold, status, balls, row, call, convert, cut>>
  BY DEF StopRefunds, wallet, game, Refund, Refundable, Undo
<1>1. RowsArePaid'  BY <1>a DEF IInv, RowsArePaid, Posted
<1>2. CallsKnowTheirKey'  BY <1>a DEF IInv, CallsKnowTheirKey, Posted
<1>3. MoneyInv'  BY KnowsMoney, StopRefundsAccounts
<1> QED  BY <1>1, <1>2, <1>3 DEF IInv, MoneyInv

LEMMA StopEndsKeeps ==
  ASSUME IInv, StopEnds, NoRetryAfterFailure
  PROVE  IInv'
<1>a. UNCHANGED <<posted, hold, status, balls, row, call, convert, undo, cut>>
  BY DEF StopEnds, wallet, game, NothingLeft
<1>1. RowsArePaid'  BY <1>a DEF IInv, RowsArePaid, Posted
<1>2. CallsKnowTheirKey'  BY <1>a DEF IInv, CallsKnowTheirKey, Posted
<1>3. MoneyInv'  BY KnowsMoney, StopEndsAccounts
<1> QED  BY <1>1, <1>2, <1>3 DEF IInv, MoneyInv

LEMMA GameGoesOnKeeps ==
  ASSUME IInv, GameGoesOn, NoRetryAfterFailure
  PROVE  IInv'
<1>a. UNCHANGED <<posted, hold, row, call, convert, undo, stop, cut>>
  BY DEF GameGoesOn, wallet, game, L!Next, L!Prepare, L!Start, L!Undo,
    L!Pause, L!Resume, L!Draw, L!Cancel, L!Startable, L!Live, L!Terminal
<1>1. RowsArePaid'  BY <1>a DEF IInv, RowsArePaid, Posted
<1>2. CallsKnowTheirKey'  BY <1>a DEF IInv, CallsKnowTheirKey, Posted
<1>3. MoneyInv'  BY KnowsMoney, GameGoesOnAccounts
<1> QED  BY <1>1, <1>2, <1>3 DEF IInv, MoneyInv

LEMMA CrashKeeps ==
  ASSUME IInv, Crash, NoRetryAfterFailure
  PROVE  IInv'
<1>a. UNCHANGED <<posted, hold, status, balls, row>>
  BY DEF Crash, wallet, game, NoCall
<1>b. \A x \in Kinds, j \in Keys : Posted(x, j)' <=> Posted(x, j)
  BY <1>a DEF Posted
<1>1. RowsArePaid'  BY <1>a DEF IInv, RowsArePaid, Posted
<1>2. CallsKnowTheirKey'
  BY KeysAssumption, NobodyAssumption, <1>a, <1>b DEF IInv, TypeOK, Keys,
    Undoers, CallsKnowTheirKey, Kinds, Crash, wallet, game, NoCall
<1>3. MoneyInv'  BY KnowsMoney, CrashAccounts
<1> QED  BY <1>1, <1>2, <1>3 DEF IInv, MoneyInv

(* What a step does to the ticket and the money of one purchase.            *)
LEMMA PostingIsPay ==
  ASSUME IInv, NEW k \in Keys, NEW j \in Keys, UNCHANGED row,
         posted' = posted \/ posted' = posted \cup {<<"debit", j>>}
  PROVE  Sale(k)!Next \/ UNCHANGED Sale(k)!vars
BY DEF Sale!Next, Sale!Pay, Sale!vars, Posted

LEMMA PostingIsReturn ==
  ASSUME IInv, NEW k \in Keys, NEW j \in Keys, UNCHANGED row, NEW x \in {"compensate", "refund"},
         posted' = posted \/ posted' = posted \cup {<<x, j>>},
         Posted("debit", j),
         row[j] \in {"none", "bought"} \/ Posted("refund", j)
  PROVE  Sale(k)!Next \/ UNCHANGED Sale(k)!vars
<1>1. Posted("debit", k)' = Posted("debit", k)  BY DEF Posted
<1>2. \A y \in {"compensate", "refund"} :
        /\ Posted(y, k) => Posted(y, k)'
        /\ Posted(y, k)' => Posted(y, k) \/ k = j
  BY DEF Posted
<1>3. CASE k # j
  BY <1>1, <1>2, <1>3 DEF Sale!Next, Sale!vars
<1>4. CASE k = j
  BY <1>1, <1>2, <1>4 DEF Sale!Next, Sale!Return, Sale!vars
<1> QED  BY <1>3, <1>4

LEMMA SaleStep ==
  ASSUME IInv, [Next]_vars, NEW k \in Keys
  PROVE  Sale(k)!Next \/ UNCHANGED Sale(k)!vars
<1>1. CASE UNCHANGED <<posted, row>>
  BY <1>1 DEF Sale!vars, Posted
<1>2. ASSUME NEW b \in Calls, Debit(b) \/ DebitFails(b)
      PROVE  Sale(k)!Next \/ UNCHANGED Sale(k)!vars
  <2>1. call[b].key \in Keys
    BY <1>2, <1>2 DEF IInv, TypeOK, CallsKnowTheirKey, Debit, DebitFails, Keys
  <2> QED  BY <1>2, <2>1, PostingIsPay DEF Debit, DebitFails, Post, wallet
<1>3. ASSUME NEW j \in ArmKeys, CommitHold(j) \/ CommitFails(j)
      PROVE  Sale(k)!Next \/ UNCHANGED Sale(k)!vars
  BY <1>3, PostingIsPay DEF CommitHold, CommitFails, Committed, wallet, Keys
<1>4. ASSUME NEW b \in Calls, Compensate(b) \/ CompensateFails(b)
      PROVE  Sale(k)!Next \/ UNCHANGED Sale(k)!vars
  <2>1. call[b].key \in Keys /\ row[call[b].key] = "none" /\ Posted("debit", call[b].key)
    BY <1>4 DEF IInv, TypeOK, CallsKnowTheirKey, Compensate, CompensateFails, Keys
  <2> QED  BY <1>4, <2>1, PostingIsReturn DEF Compensate, CompensateFails, Post, wallet
<1>5. ASSUME NEW q \in Undoers, CreditRefund(q) \/ RefundFails(q)
      PROVE  Sale(k)!Next \/ UNCHANGED Sale(k)!vars
  <2>1. undo[q].key \in Keys
    BY <1>5 DEF IInv, TypeOK, RefundsMatch, CreditRefund, RefundFails
  <2>2. row[undo[q].key] \in {"bought", "refunded"}
    BY <2>1 DEF IInv, TypeOK, RefundsMatch
  <2>3. Posted("debit", undo[q].key) /\ (row[undo[q].key] = "refunded" => Posted("refund", undo[q].key))
    BY <2>1, <2>2 DEF IInv, RowsArePaid
  <2> QED  BY <1>5, <2>1, <2>2, <2>3, PostingIsReturn DEF CreditRefund, RefundFails, Post, wallet
<1>6. ASSUME NEW j \in Keys, Inserted(j), UNCHANGED posted,
             Posted("debit", j), ~Posted("compensate", j)
      PROVE  Sale(k)!Next \/ UNCHANGED Sale(k)!vars
  <2>1. \A x \in {"debit", "compensate", "refund"} : Posted(x, k)' = Posted(x, k)
    BY <1>6 DEF Posted
  <2>2. CASE row[j] # "none" \/ k # j
    BY <1>6, <2>1, <2>2 DEF Inserted, Sale!vars, IInv, TypeOK
  <2>3. CASE row[j] = "none" /\ k = j
    BY <1>6, <2>1, <2>3 DEF Inserted, Sale!Next, Sale!Sell, IInv, TypeOK, RowsArePaid
  <2> QED  BY <2>2, <2>3
<1>7. ASSUME NEW b \in Calls, Insert(b)
      PROVE  Sale(k)!Next \/ UNCHANGED Sale(k)!vars
  <2>1. /\ call[b].key \in Keys /\ Posted("debit", call[b].key)
        /\ ~Posted("compensate", call[b].key)
    BY <1>7 DEF IInv, TypeOK, CallsKnowTheirKey, Insert, Keys
  <2> QED  BY <1>7, <2>1, <1>6 DEF Insert, wallet
<1>8. ASSUME NEW j \in ArmKeys, InsertConverted(j)
      PROVE  Sale(k)!Next \/ UNCHANGED Sale(k)!vars
  <2>1. j \in Keys /\ Posted("debit", j) /\ ~Posted("compensate", j)
    BY <1>8, KeysAssumption DEF IInv, RowsArePaid, ConversionsMatch, InsertConverted, Keys
  <2> QED  BY <1>8, <2>1, <1>6 DEF InsertConverted, wallet
<1>9. ASSUME NEW q \in Undoers, MarkRefunded(q)
      PROVE  Sale(k)!Next \/ UNCHANGED Sale(k)!vars
  <2>1. /\ undo[q].key \in Keys /\ Posted("refund", undo[q].key)
        /\ row[undo[q].key] \in {"bought", "refunded"}
    BY <1>9 DEF IInv, TypeOK, RefundsMatch, MarkRefunded
  <2>2. \A x \in {"debit", "compensate", "refund"} : Posted(x, k)' = Posted(x, k)
    BY <1>9 DEF MarkRefunded, wallet, Posted
  <2> QED
    BY <1>9, <2>1, <2>2 DEF MarkRefunded, Sale!Next, Sale!Withdraw, Sale!vars, IInv, TypeOK
<1>10. \/ UNCHANGED <<posted, row>>
       \/ \E b \in Calls : \/ Debit(b) \/ DebitFails(b) \/ Insert(b)
                           \/ Compensate(b) \/ CompensateFails(b)
       \/ \E j \in ArmKeys : CommitHold(j) \/ CommitFails(j) \/ InsertConverted(j)
       \/ \E q \in Undoers : CreditRefund(q) \/ RefundFails(q) \/ MarkRefunded(q)
  BY DEF Next, vars, wallet, game, Serve, ConvertOn, UndoOn, StopOn, Purchase, InsertFailed,
         Convert, InsertConvertedFails, ReleaseHold, Released, ExpireHold, AdminRefunds,
         StopGame, StopLists, StopRefunds, StopEnds, GameGoesOn, Crash
<1> QED  BY <1>1, <1>2, <1>3, <1>4, <1>5, <1>7, <1>8, <1>9, <1>10

(* Every step of the specification.                                        *)
LEMMA StepKeeps ==
  ASSUME IInv, [Next]_vars, NoRetryAfterFailure
  PROVE  IInv'
<1>1. CASE UNCHANGED vars
  BY <1>1 DEF vars, wallet, game, IInv, TypeOK, RowsArePaid, CallsKnowTheirKey, ConversionsMatch,
              RefundsMatch, StopProceeds, NoMoneyLost, Underway, Posted
<1>2. ASSUME NEW b \in Calls, Serve(b) \/ \E k \in BuyKeys : Purchase(b, k)
      PROVE  IInv'
  BY <1>2, PurchaseKeeps, DebitKeeps, DebitFailsKeeps, InsertKeeps, InsertFailedKeeps,
     CompensateKeeps, CompensateFailsKeeps DEF Serve
<1>3. ASSUME NEW k \in ArmKeys, Convert(k) \/ ConvertOn(k) \/ ExpireHold(k)
      PROVE  IInv'
  BY <1>3, ConvertKeeps, CommitHoldKeeps, CommitFailsKeeps, InsertConvertedKeeps,
     InsertConvertedFailsKeeps, ReleaseHoldKeeps, ExpireHoldKeeps DEF ConvertOn
<1>4. ASSUME NEW q \in Undoers, UndoOn(q) \/ \E k \in Keys : AdminRefunds(q, k)
      PROVE  IInv'
  BY <1>4, AdminRefundsKeeps, CreditRefundKeeps, MarkRefundedKeeps, RefundFailsKeeps DEF UndoOn
<1>5. CASE StopGame \/ StopOn
  BY <1>5, StopGameKeeps, StopListsKeeps, StopRefundsKeeps, StopEndsKeeps DEF StopOn
<1>6. CASE GameGoesOn \/ Crash
  BY <1>6, GameGoesOnKeeps, CrashKeeps
<1> QED  BY <1>1, <1>2, <1>3, <1>4, <1>5, <1>6 DEF Next

(* The inductive invariant.                                                *)
THEOREM Invariance == ASSUME NoRetryAfterFailure PROVE Spec => []IInv
<1>1. IInv /\ [Next]_vars => IInv'  BY StepKeeps
<1> QED  BY <1>1, InitHolds, PTL DEF Spec

(* Purchases that were not refunded have been paid for, and the payment    *)
(* was not given back.                                                     *)
THEOREM NobodyPlaysUnpaid == ASSUME NoRetryAfterFailure PROVE Spec => []TicketsArePaid
<1>1. IInv => TicketsArePaid  BY DEF IInv, TypeOK, RowsArePaid, TicketsArePaid
<1> QED  BY <1>1, Invariance, PTL

(* Money and ticket of every purchase follow the abstract sale.            *)
THEOREM ImplementsSales == ASSUME NoRetryAfterFailure PROVE Spec => SalesAreFair
<1>1. Init => \A k \in Keys : Sale(k)!Init
  BY DEF Init, Sale!Init, Posted
<1>2. IInv /\ [Next]_vars => [\A k \in Keys : Sale(k)!Next \/ UNCHANGED Sale(k)!vars]_vars
  BY SaleStep
<1> QED  BY <1>1, <1>2, Invariance, PTL DEF Spec, SalesAreFair
=============================================================================
