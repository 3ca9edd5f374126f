-------------------------- MODULE XIRLedger_proofs --------------------------
(***************************************************************************)
(* The safety properties of the durable execution path, for any number of  *)
(* attempts, stages, accounts, prices, failures and crashes.               *)
(*                                                                         *)
(* LedgerInv is inductive.  It says what a row, a spooled byte string, a   *)
(* nonce counter and the process's memory mean at each point of Execute:   *)
(* whatever is on disk when the process dies is enough to resume, and      *)
(* nothing the process forgets was visible to the node.                    *)
(*                                                                         *)
(* RootInv, on top of it, is about the record nonces of root creations:    *)
(* they are reserved without gaps and in the order of the account nonces,  *)
(* so that the chain, which goes through the account nonces in order,      *)
(* meets the roots in the order of their record nonces.                    *)
(***************************************************************************)
EXTENDS XIRLedger, TLAPS

(* Recorded bytes are the bytes of the intent, and were spooled before. *)
RowsOK ==
    \A a \in Actions :
        /\ ledger[a].raw = NoTx <=> ledger[a].state \in {"absent", "intended"}
        /\ ledger[a].raw # NoTx => ledger[a].raw = Signed(a) /\ Signed(a) \in spool

(* Spooled bytes are the bytes of a stored intent. *)
SpoolOK == \A t \in spool : Stored(t.action) /\ t = Signed(t.action)

(* A seeded counter is above every nonce the ledger holds, and so is the   *)
(* nonce in hand below the counter and above the ledger.                   *)
NoncesOK ==
    /\ NonceSpentOnce
    /\ \A a \in Actions : Stored(a) =>
          nonceNext[Account(a)] = Unseeded \/ ledger[a].nonce < nonceNext[Account(a)]
    /\ proc.pc = "freeze" =>
          nonceNext[Account(Current)] # Unseeded /\ proc.nonce < nonceNext[Account(Current)]

Succeeded(a) == ledger[a].state = "succeeded"

(* What the process knows at each point of an attempt. *)
ProcOK ==
    /\ proc.cur >= 1
    /\ proc.pc \notin {"stopped", "begin"} =>
          proc.cur <= Attempts /\ \A s \in 1..(proc.stage - 1) : Succeeded(<<proc.cur, s>>)
    /\ proc.pc \in {"reserve", "freeze"} => ~Stored(Current)
    /\ proc.pc \in {"sign", "record"} => ledger[Current].state = "intended"
    /\ proc.pc = "record" => proc.tx = Signed(Current) /\ proc.tx \in spool
    /\ proc.pc \in {"check", "send", "submitted", "await", "receipt", "close"} =>
          ledger[Current].state \in {"signed", "submitted"} /\ proc.tx = ledger[Current].raw
    /\ proc.pc \in {"receipt", "close"} => proc.tx \in MinedTx
    /\ proc.pc = "close" => proc.tx \in receipts
    /\ proc.pc = "verify" => Succeeded(Current)
    /\ proc.pc \in {"finish", "complete"} => \A s \in 1..Stages : Succeeded(<<proc.cur, s>>)

(* The inductive invariant. *)
LedgerInv ==
    /\ TypeOK
    /\ RowsOK
    /\ SpoolOK
    /\ NoncesOK
    /\ ProcOK
    /\ BroadcastIsDurable
    /\ OutcomeIsOnChain
    /\ SucceededAttemptIsComplete

-----------------------------------------------------------------------------
(* Facts about the state. *)

(* The process state and what the loop keeps of its attempt number.        *)
LEMMA ProcFacts ==
    ASSUME LedgerInv
    PROVE  /\ proc \in Process /\ proc.cur \in Nat /\ proc.cur >= 1 /\ proc.stage \in 1..Stages
           /\ DOMAIN proc = {"pc", "cur", "stage", "nonce", "record", "tx"}
BY DEF LedgerInv, TypeOK, ProcOK, Process

(* The updates of the process state. *)
LEMMA ProcUpdate ==
    ASSUME LedgerInv, NEW pc \in PCs, NEW n \in Nat
    PROVE  LET p == [proc EXCEPT !.pc = pc]
               q == [proc EXCEPT !.pc = pc, !.cur = n]
               r == [proc EXCEPT !.pc = pc, !.record = n]
               u == [proc EXCEPT !.pc = pc, !.nonce = n]
           IN  /\ p \in Process /\ p.pc = pc /\ p.cur = proc.cur /\ p.stage = proc.stage
                  /\ p.nonce = proc.nonce /\ p.tx = proc.tx
               /\ q \in Process /\ q.pc = pc /\ q.cur = n
               /\ r \in Process /\ r.pc = pc /\ r.cur = proc.cur /\ r.stage = proc.stage
               /\ u \in Process /\ u.pc = pc /\ u.cur = proc.cur /\ u.stage = proc.stage /\ u.nonce = n
BY ProcFacts DEF Process

(* Moving the process to another stage of its attempt. *)
LEMMA ProcStage ==
    ASSUME LedgerInv, NEW pc \in PCs, NEW s \in 1..Stages
    PROVE  LET v == [proc EXCEPT !.pc = pc, !.stage = s]
           IN  v \in Process /\ v.pc = pc /\ v.cur = proc.cur /\ v.stage = s
BY ProcFacts DEF Process

(* The current action is an action while an attempt is being executed.     *)
LEMMA CurrentIsAction ==
    ASSUME LedgerInv, proc.pc \notin {"stopped", "begin"}
    PROVE  Current \in Actions /\ Current[2] = proc.stage
BY DEF LedgerInv, TypeOK, ProcOK, Process, Actions, Current

(* The earlier stages of the attempt are other actions, and succeeded. *)
LEMMA EarlierStage ==
    ASSUME LedgerInv, proc.pc \notin {"stopped", "begin"}, NEW s \in 1..(proc.stage - 1)
    PROVE  /\ <<proc.cur, s>> \in Actions /\ <<proc.cur, s>> # Current
           /\ Succeeded(<<proc.cur, s>>)
BY ProcFacts, LedgerConstants DEF LedgerInv, ProcOK, Actions, Current

(* The bound on nonces is a number. *)
LEMMA MaxNonceIsNat == MaxNonce \in Nat
BY LedgerConstants DEF MaxNonce

(* No transaction is the absent transaction. *)
LEMMA NoTxIsNone == NoTx \notin Tx
<1>1. NoTx.action \notin Actions
  BY DEF NoTx, Actions
<1> QED BY <1>1 DEF Tx

(* What the ledger, the spool and the outcomes say is kept by any step     *)
(* that leaves the ledger and the spool alone and forgets no receipt.      *)
LEMMA LedgerFrame ==
    ASSUME LedgerInv, UNCHANGED <<ledger, spool>>, mined \subseteq mined', receipts \subseteq receipts'
    PROVE  RowsOK' /\ SpoolOK' /\ OutcomeIsOnChain'
BY DEF LedgerInv, RowsOK, SpoolOK, OutcomeIsOnChain, Signed, Stored

(* Uniqueness of nonces and the counters' floor are kept by any step that  *)
(* leaves the ledger and the counters alone and reserves nothing.          *)
LEMMA NonceFrame ==
    ASSUME LedgerInv, UNCHANGED <<ledger, nonceNext>>, proc'.pc # "freeze"
    PROVE  NoncesOK'
BY DEF LedgerInv, NoncesOK, NonceSpentOnce, Stored

(* Leaving an attempt keeps what the process knows. *)
LEMMA NextAttemptOK ==
    ASSUME LedgerInv, proc' = NextAttempt \/ proc' = Stopped
    PROVE  ProcOK' /\ proc' \in Process /\ proc'.pc # "freeze"
<1> DEFINE Left(p) == p \in Process /\ p.pc \in {"begin", "stopped"} /\ p.cur >= 1
<1>1. Left(Stopped)
  BY LedgerConstants DEF Process, PCs, Stopped
<1>2. Left(NextAttempt)
  <2>1. "begin" \in PCs /\ proc.cur + 1 \in Nat /\ proc.cur + 1 >= 1
    BY ProcFacts DEF PCs
  <2>2. NextAttempt \in Process /\ NextAttempt.pc = "begin" /\ NextAttempt.cur = proc.cur + 1
    BY <2>1, ProcFacts, ProcUpdate DEF NextAttempt
  <2> QED BY <2>1, <2>2
<1>3. Left(proc')
  BY <1>1, <1>2
<1> QED BY <1>3 DEF ProcOK

(* A step that only moves the process, without reserving a nonce. *)
LEMMA QuietStep ==
    ASSUME LedgerInv, TypeOK', ProcOK', proc'.pc # "freeze",
           UNCHANGED <<ledger, attempt, spool, receipts, nonceNext, mined>>, pool' \subseteq pool
    PROVE  LedgerInv'
<1>1. RowsOK' /\ SpoolOK' /\ OutcomeIsOnChain' /\ NoncesOK'
  BY LedgerFrame, NonceFrame
<1>2. BroadcastIsDurable' /\ SucceededAttemptIsComplete'
  BY DEF LedgerInv, BroadcastIsDurable, SucceededAttemptIsComplete, MinedTx
<1> QED BY <1>1, <1>2 DEF LedgerInv

-----------------------------------------------------------------------------
(* One lemma per action. *)

(* Starting and ending a run. *)
LEMMA StartRunStep == ASSUME LedgerInv, StartRun \/ EndRun \/ Crash PROVE LedgerInv'
<1> USE LedgerConstants DEF durable, node
<1>1. /\ UNCHANGED <<durable, node>>
      /\ nonceNext' = nonceNext \/ nonceNext' = [c \in Accounts |-> Unseeded]
      /\ proc'.pc \in {"begin", "stopped"} /\ proc'.cur = 1 /\ proc' \in Process
  BY DEF StartRun, EndRun, Crash, Stopped, Process, PCs
<1>2. faults' \in 0..MaxFaults /\ crashes' \in 0..MaxCrashes
  BY DEF StartRun, EndRun, Crash, LedgerInv, TypeOK
<1>3. TypeOK'
  BY <1>1, <1>2 DEF LedgerInv, TypeOK
<1>4. RowsOK' /\ SpoolOK' /\ OutcomeIsOnChain'
  BY <1>1, LedgerFrame
<1>5. NoncesOK'
  <2>1. ASSUME NEW a \in Actions
        PROVE  nonceNext'[Account(a)] = nonceNext[Account(a)] \/ nonceNext'[Account(a)] = Unseeded
    BY <1>1 DEF Account, Actions
  <2> QED BY <1>1, <2>1 DEF LedgerInv, NoncesOK, NonceSpentOnce, Stored
<1>6. ProcOK'
  BY <1>1 DEF ProcOK
<1>7. BroadcastIsDurable' /\ SucceededAttemptIsComplete'
  BY <1>1 DEF LedgerInv, BroadcastIsDurable, SucceededAttemptIsComplete, MinedTx
<1> QED BY <1>3, <1>4, <1>5, <1>6, <1>7 DEF LedgerInv

(* Beginning and leaving an attempt. *)
LEMMA BeginStep == ASSUME LedgerInv, BeginAttempt PROVE LedgerInv'
<1> USE LedgerConstants DEF node
<1>1. CASE proc' = NextAttempt /\ UNCHANGED attempt
  <2>1. ProcOK' /\ proc' \in Process /\ proc'.pc # "freeze"
    BY <1>1, NextAttemptOK
  <2>2. TypeOK'
    BY <1>1, <2>1 DEF BeginAttempt, LedgerInv, TypeOK
  <2> QED BY <1>1, <2>1, <2>2, QuietStep DEF BeginAttempt
<1>2. CASE /\ attempt[proc.cur] # "succeeded"
           /\ attempt' = [attempt EXCEPT ![proc.cur] = "running"]
           /\ proc' = [proc EXCEPT !.pc = "stage", !.stage = 1]
  <2>1. /\ proc' \in Process /\ proc'.pc = "stage" /\ proc'.stage = 1
        /\ proc'.cur = proc.cur /\ proc.cur \in 1..Attempts
    <3>1. "stage" \in PCs /\ 1 \in 1..Stages
      BY DEF PCs
    <3>2. LET v == [proc EXCEPT !.pc = "stage", !.stage = 1]
          IN  v \in Process /\ v.pc = "stage" /\ v.cur = proc.cur /\ v.stage = 1
      BY <3>1, ProcStage
    <3>3. proc.cur \in 1..Attempts
      BY ProcFacts DEF BeginAttempt
    <3> QED BY <1>2, <3>2, <3>3
  <2>2. TypeOK'
    BY <1>2, <2>1 DEF BeginAttempt, LedgerInv, TypeOK
  <2>3. ProcOK'
    BY <2>1 DEF ProcOK
  <2>4. RowsOK' /\ SpoolOK' /\ OutcomeIsOnChain' /\ NoncesOK'
    BY <2>1, LedgerFrame, NonceFrame DEF BeginAttempt
  <2>5. BroadcastIsDurable' /\ SucceededAttemptIsComplete'
    BY <1>2, <2>1 DEF BeginAttempt, LedgerInv, TypeOK, BroadcastIsDurable, SucceededAttemptIsComplete, MinedTx
  <2> QED BY <2>2, <2>3, <2>4, <2>5 DEF LedgerInv
<1> QED BY <1>1, <1>2 DEF BeginAttempt

(* Looking an action up. *)
LEMMA LoadStep ==
    ASSUME LedgerInv, LoadFresh \/ LoadRefused \/ LoadSucceeded \/ LoadPending
    PROVE  LedgerInv'
<1> USE LedgerConstants DEF durable, node
<1>0. Current \in Actions /\ proc.pc = "stage"
  BY CurrentIsAction DEF LoadFresh, LoadRefused, LoadSucceeded, LoadPending
<1>1. CASE LoadFresh
  <2>1. PICK n \in 0..MaxNonce : proc' = [proc EXCEPT !.pc = "reserve", !.record = n]
    BY <1>1, ZenonT(60) DEF LoadFresh
  <2>2. /\ proc' \in Process /\ proc'.pc = "reserve" /\ proc'.cur = proc.cur
        /\ proc'.stage = proc.stage /\ Current' = Current
    <3>1. "reserve" \in PCs /\ n \in Nat
      BY MaxNonceIsNat DEF PCs
    <3> QED BY <2>1, <3>1, ProcFacts, ProcUpdate DEF Current
  <2>3. TypeOK'
    BY <1>1, <2>2 DEF LoadFresh, LedgerInv, TypeOK
  <2>4. ProcOK'
    BY <1>1, <1>0, <2>2 DEF LoadFresh, LedgerInv, ProcOK, Stored, Succeeded
  <2> QED BY <1>1, <2>2, <2>3, <2>4, QuietStep DEF LoadFresh
<1>2. CASE LoadRefused
  <2>1. ProcOK' /\ proc' \in Process /\ proc'.pc # "freeze"
    BY <1>2, NextAttemptOK DEF LoadRefused
  <2>2. TypeOK'
    BY <1>2, <2>1 DEF LoadRefused, LedgerInv, TypeOK
  <2> QED BY <1>2, <2>1, <2>2, QuietStep DEF LoadRefused
<1>3. CASE LoadSucceeded
  <2>1. /\ proc' \in Process /\ proc'.pc = "verify" /\ proc'.cur = proc.cur
        /\ proc'.stage = proc.stage /\ Current' = Current
    BY <1>3 DEF LoadSucceeded, Goto, LedgerInv, TypeOK, Process, PCs, Current
  <2>2. TypeOK'
    BY <1>3, <2>1 DEF LoadSucceeded, LedgerInv, TypeOK
  <2>3. ProcOK'
    BY <1>3, <1>0, <2>1 DEF LoadSucceeded, LedgerInv, ProcOK, Succeeded
  <2> QED BY <1>3, <2>1, <2>2, <2>3, QuietStep DEF LoadSucceeded
<1>4. CASE LoadPending
  <2>1. CASE ledger[Current].raw = NoTx /\ proc' = Goto("sign")
    <3>1. /\ proc' \in Process /\ proc'.pc = "sign" /\ proc'.cur = proc.cur
          /\ proc'.stage = proc.stage /\ Current' = Current
      BY <2>1 DEF Goto, LedgerInv, TypeOK, Process, PCs, Current
    <3>2. TypeOK'
      BY <1>4, <3>1 DEF LoadPending, LedgerInv, TypeOK
    <3>3. ledger[Current].state = "intended"
      BY <1>4, <1>0, <2>1 DEF LoadPending, LedgerInv, RowsOK
    <3>4. ProcOK'
      BY <1>4, <1>0, <3>1, <3>3 DEF LoadPending, LedgerInv, ProcOK, Succeeded
    <3> QED BY <1>4, <3>1, <3>2, <3>4, QuietStep DEF LoadPending
  <2>2. CASE /\ ledger[Current].raw # NoTx
             /\ proc' = [proc EXCEPT !.pc = "check", !.tx = ledger[Current].raw]
    <3>1. ledger[Current].raw \in Tx
      BY <1>0, <2>2 DEF LedgerInv, TypeOK, Row
    <3>2. /\ proc' \in Process /\ proc'.pc = "check" /\ proc'.cur = proc.cur
          /\ proc'.stage = proc.stage /\ Current' = Current /\ proc'.tx = ledger[Current].raw
      BY <2>2, <3>1 DEF LedgerInv, TypeOK, Process, PCs, Current
    <3>3. TypeOK'
      BY <1>4, <3>2 DEF LoadPending, LedgerInv, TypeOK
    <3>4. ledger[Current].state \in {"signed", "submitted"}
      BY <1>4, <1>0, <2>2 DEF LoadPending, LedgerInv, RowsOK
    <3>5. ProcOK'
      BY <1>4, <1>0, <3>2, <3>4 DEF LoadPending, LedgerInv, ProcOK, Succeeded
    <3> QED BY <1>4, <3>2, <3>3, <3>5, QuietStep DEF LoadPending
  <2> QED BY <1>4, <2>1, <2>2 DEF LoadPending
<1> QED BY <1>1, <1>2, <1>3, <1>4

(* Reserving a nonce: the seed is above every nonce of the account. *)
LEMMA ReserveStep == ASSUME LedgerInv, reserveNonce PROVE LedgerInv'
<1> USE LedgerConstants DEF durable, node
<1> DEFINE c == Account(Current)
<1>0. Current \in Actions /\ c \in Accounts /\ ~Stored(Current)
  BY CurrentIsAction DEF reserveNonce, Account, Actions, LedgerInv, ProcOK
<1>1. PICK n \in 0..MaxNonce :
         /\ IF nonceNext[c] = Unseeded THEN IsSeed(c, n) ELSE n = nonceNext[c]
         /\ nonceNext' = [nonceNext EXCEPT ![c] = n + 1]
         /\ proc' = [proc EXCEPT !.pc = "freeze", !.nonce = n]
  BY DEF reserveNonce
<1>2. n \in Nat /\ "freeze" \in PCs
  BY MaxNonceIsNat, SMTT(40) DEF PCs
<1>3. /\ proc' \in Process /\ proc'.pc = "freeze" /\ proc'.cur = proc.cur
      /\ proc'.stage = proc.stage /\ Current' = Current /\ proc'.nonce = n
  BY <1>1, <1>2, ProcFacts, ProcUpdate DEF Current
<1>4. /\ nonceNext' \in [Accounts -> Nat \cup {Unseeded}] /\ nonceNext'[c] = n + 1
      /\ \A d \in Accounts : d # c => nonceNext'[d] = nonceNext[d]
  BY <1>0, <1>1, <1>2 DEF LedgerInv, TypeOK
<1>5. ASSUME NEW a \in Actions, Stored(a), Account(a) = c
      PROVE  ledger[a].nonce < n
  <2>1. ledger[a].nonce \in Nat
    BY DEF LedgerInv, TypeOK, Row
  <2>2. CASE nonceNext[c] = Unseeded
    <3>1. ledger[a].nonce \in AccountNonces(c)
      BY <1>5 DEF AccountNonces
    <3>2. \A m \in AccountNonces(c) : n >= m + 1
      BY <1>1, <2>2 DEF IsSeed
    <3> QED BY <3>1, <3>2, <2>1, <1>2
  <2>3. CASE nonceNext[c] # Unseeded
    BY <1>1, <1>5, <2>3 DEF LedgerInv, NoncesOK
  <2> QED BY <2>2, <2>3
<1>6. TypeOK'
  BY <1>3, <1>4 DEF reserveNonce, LedgerInv, TypeOK
<1>7. ProcOK'
  BY <1>0, <1>3 DEF reserveNonce, LedgerInv, ProcOK, Stored, Succeeded
<1>8. NoncesOK'
  <2>1. n \notin AccountNonces(c)
    <3> SUFFICES ASSUME n \in AccountNonces(c) PROVE FALSE
      OBVIOUS
    <3>1. PICK a \in Actions : Stored(a) /\ Account(a) = c /\ ledger[a].nonce = n
      BY DEF AccountNonces
    <3> QED BY <3>1, <1>5, <1>2
  <2>2. NonceSpentOnce'
    BY <1>3, <2>1 DEF reserveNonce, LedgerInv, NoncesOK, NonceSpentOnce, Stored, AccountNonces
  <2>3. ASSUME NEW a \in Actions, Stored(a)
        PROVE  nonceNext'[Account(a)] = Unseeded \/ ledger[a].nonce < nonceNext'[Account(a)]
    <3>1. Account(a) \in Accounts /\ ledger[a].nonce \in Nat
      BY DEF Account, Actions, LedgerInv, TypeOK, Row
    <3>2. CASE Account(a) = c
      BY <3>1, <3>2, <2>3, <1>2, <1>4, <1>5
    <3>3. CASE Account(a) # c
      BY <3>1, <3>3, <2>3, <1>4 DEF LedgerInv, NoncesOK
    <3> QED BY <3>2, <3>3
  <2>4. nonceNext'[c] # Unseeded /\ n < nonceNext'[c]
    BY <1>2, <1>4 DEF Unseeded
  <2> QED BY <1>3, <2>2, <2>3, <2>4 DEF reserveNonce, NoncesOK, Stored
<1>9. RowsOK' /\ SpoolOK' /\ OutcomeIsOnChain' /\ BroadcastIsDurable' /\ SucceededAttemptIsComplete'
  <2>1. RowsOK' /\ SpoolOK' /\ OutcomeIsOnChain'
    BY LedgerFrame DEF reserveNonce
  <2> QED BY <2>1 DEF reserveNonce, LedgerInv, BroadcastIsDurable, SucceededAttemptIsComplete, MinedTx
<1> QED BY <1>6, <1>7, <1>8, <1>9 DEF LedgerInv

(* Freezing an intent: the row was absent and its nonce is free. *)
LEMMA FreezeStep == ASSUME LedgerInv, freezeIntent PROVE LedgerInv'
<1> USE LedgerConstants DEF node
<1>0. Current \in Actions /\ ~Stored(Current) /\ proc.pc = "freeze"
  BY CurrentIsAction DEF freezeIntent, LedgerInv, ProcOK
<1>1. CASE proc' = NextAttempt /\ UNCHANGED ledger
  <2>1. ProcOK' /\ proc' \in Process /\ proc'.pc # "freeze"
    BY <1>1, NextAttemptOK
  <2>2. TypeOK'
    BY <1>1, <2>1 DEF freezeIntent, LedgerInv, TypeOK
  <2> QED BY <1>1, <2>1, <2>2, QuietStep DEF freezeIntent
<1>2. CASE /\ ledger' = [ledger EXCEPT ![Current] =
                            [state |-> "intended", nonce |-> proc.nonce, price |-> price,
                             record |-> proc.record, raw |-> NoTx]]
           /\ proc' = Goto("sign")
  <2>1. "sign" \in PCs /\ proc.nonce \in Nat /\ proc.record \in Nat /\ price \in Prices
    BY DEF PCs, LedgerInv, TypeOK, Process
  <2>2. /\ proc' \in Process /\ proc'.pc = "sign" /\ proc'.cur = proc.cur
        /\ proc'.stage = proc.stage /\ Current' = Current
    BY <1>2, <2>1, ProcFacts, ProcUpdate DEF Goto, Current
  <2>3. ledger' \in [Actions -> Row]
    BY <1>2, <1>0, <2>1 DEF LedgerInv, TypeOK, Row, States
  <2>4. /\ ledger'[Current].state = "intended" /\ ledger'[Current].nonce = proc.nonce
        /\ ledger'[Current].raw = NoTx
        /\ \A a \in Actions : a # Current => ledger'[a] = ledger[a]
    BY <1>2, <1>0 DEF LedgerInv, TypeOK
  <2>5. TypeOK'
    BY <2>2, <2>3 DEF freezeIntent, LedgerInv, TypeOK
  <2>6. RowsOK'
    BY <1>0, <2>4 DEF freezeIntent, LedgerInv, RowsOK, Signed
  <2>7. SpoolOK'
    <3> SUFFICES ASSUME NEW t \in spool PROVE (Stored(t.action) /\ t = Signed(t.action))'
      BY DEF freezeIntent, SpoolOK
    <3>1. t.action \in Actions /\ t.action # Current
      BY <1>0 DEF LedgerInv, TypeOK, Tx, SpoolOK
    <3> QED BY <3>1, <2>4 DEF LedgerInv, SpoolOK, Stored, Signed
  <2>8. NoncesOK'
    <3>1. ASSUME NEW a \in Actions, a # Current, Stored(a), Account(a) = Account(Current)
          PROVE  ledger[a].nonce # proc.nonce
      BY <3>1, <1>0 DEF LedgerInv, NoncesOK, NonceSpentOnce, AccountNonces
    <3>2. NonceSpentOnce'
      BY <1>0, <2>2, <2>4, <3>1 DEF LedgerInv, NoncesOK, NonceSpentOnce, Stored
    <3>3. proc.nonce < nonceNext[Account(Current)]
      BY <1>0 DEF LedgerInv, NoncesOK
    <3>4. ASSUME NEW a \in Actions, Stored(a)'
          PROVE  nonceNext[Account(a)] = Unseeded \/ ledger'[a].nonce < nonceNext[Account(a)]
      BY <3>3, <3>4, <2>4 DEF LedgerInv, NoncesOK, Stored
    <3> QED BY <2>2, <3>2, <3>4 DEF freezeIntent, NoncesOK
  <2>9. ProcOK'
    <3>1. ASSUME NEW s \in 1..(proc.stage - 1)
          PROVE  Succeeded(<<proc.cur, s>>)'
      <4>1. <<proc.cur, s>> \in Actions /\ <<proc.cur, s>> # Current /\ Succeeded(<<proc.cur, s>>)
        BY <1>0, EarlierStage
      <4>2. ledger'[<<proc.cur, s>>] = ledger[<<proc.cur, s>>]
        BY <4>1, <2>4
      <4> QED BY <4>1, <4>2, <2>2 DEF Succeeded
    <3> QED BY <1>0, <2>2, <2>4, <3>1 DEF LedgerInv, ProcOK
  <2>10. BroadcastIsDurable'
    <3> SUFFICES ASSUME NEW t \in pool \cup MinedTx PROVE ledger'[t.action].raw = t /\ t \in spool
      BY DEF freezeIntent, BroadcastIsDurable, MinedTx
    <3>1. t \in Tx /\ ledger[t.action].raw = t /\ t \in spool
      BY DEF LedgerInv, TypeOK, BroadcastIsDurable, MinedTx
    <3>2. t.action \in Actions /\ t.action # Current
      BY <3>1, <1>0 DEF LedgerInv, SpoolOK, Tx
    <3> QED BY <3>1, <3>2, <2>4
  <2>11. OutcomeIsOnChain'
    BY <1>0, <2>4 DEF freezeIntent, LedgerInv, OutcomeIsOnChain
  <2>12. SucceededAttemptIsComplete'
    BY <1>0, <2>4 DEF freezeIntent, LedgerInv, SucceededAttemptIsComplete, Stored, Actions
  <2> QED BY <2>5, <2>6, <2>7, <2>8, <2>9, <2>10, <2>11, <2>12 DEF LedgerInv
<1> QED BY <1>1, <1>2 DEF freezeIntent

(* Spooling the signed bytes of the intent. *)
LEMMA SpoolStep == ASSUME LedgerInv, SpoolSigned PROVE LedgerInv'
<1> USE LedgerConstants DEF node
<1>0. Current \in Actions /\ ledger[Current].state = "intended" /\ proc.pc = "sign"
  BY CurrentIsAction DEF SpoolSigned, LedgerInv, ProcOK
<1>1. Signed(Current) \in Tx /\ Signed(Current).action = Current
  BY <1>0 DEF LedgerInv, TypeOK, Row, Signed, Tx
<1>2. /\ proc' \in Process /\ proc'.pc = "record" /\ proc'.cur = proc.cur
      /\ proc'.stage = proc.stage /\ Current' = Current /\ proc'.tx = Signed(Current)
  BY <1>1, ProcFacts DEF SpoolSigned, Process, PCs, Current
<1>3. TypeOK'
  BY <1>1, <1>2 DEF SpoolSigned, LedgerInv, TypeOK
<1>4. RowsOK' /\ OutcomeIsOnChain' /\ BroadcastIsDurable' /\ SucceededAttemptIsComplete'
  BY DEF SpoolSigned, LedgerInv, RowsOK, OutcomeIsOnChain, BroadcastIsDurable, MinedTx,
         SucceededAttemptIsComplete, Signed
<1>5. SpoolOK'
  <2>1. \A t : (Stored(t.action))' = Stored(t.action) /\ (Signed(t.action))' = Signed(t.action)
    BY DEF SpoolSigned, Stored, Signed
  <2> QED BY <1>0, <1>1, <2>1 DEF SpoolSigned, LedgerInv, SpoolOK, Stored, Signed
<1>6. NoncesOK'
  BY <1>2, NonceFrame DEF SpoolSigned
<1>7. ProcOK'
  BY <1>0, <1>2 DEF SpoolSigned, LedgerInv, ProcOK, Succeeded, Signed
<1> QED BY <1>3, <1>4, <1>5, <1>6, <1>7 DEF LedgerInv

(* Recording the signed bytes in the ledger. *)
LEMMA RecordStep == ASSUME LedgerInv, RecordSigned PROVE LedgerInv'
<1> USE LedgerConstants DEF node
<1>0. /\ Current \in Actions /\ ledger[Current].state = "intended" /\ proc.pc = "record"
      /\ proc.tx = Signed(Current) /\ proc.tx \in spool /\ proc.tx \in Tx
  BY CurrentIsAction DEF RecordSigned, LedgerInv, TypeOK, ProcOK
<1>1. /\ ledger' = [ledger EXCEPT ![Current].state = "signed", ![Current].raw = proc.tx]
      /\ proc' = Goto("check")
  BY <1>0 DEF RecordSigned, MayBecome, Rank
<1>2. "check" \in PCs /\ 0 \in Nat
  BY DEF PCs
<1>3. /\ proc' \in Process /\ proc'.pc = "check" /\ proc'.cur = proc.cur
      /\ proc'.stage = proc.stage /\ Current' = Current /\ proc'.tx = proc.tx
  BY <1>1, <1>2, ProcUpdate DEF Goto, Current
<1>4. /\ ledger' \in [Actions -> Row]
      /\ ledger'[Current].state = "signed" /\ ledger'[Current].raw = proc.tx
      /\ \A a \in Actions : a # Current => ledger'[a] = ledger[a]
      /\ \A a \in Actions : ledger'[a].nonce = ledger[a].nonce /\ ledger'[a].price = ledger[a].price
  BY <1>0, <1>1, ZenonT(60) DEF LedgerInv, TypeOK, Row, States
<1>5. \A a \in Actions : Stored(a)' <=> Stored(a)
  BY <1>0, <1>4 DEF Stored
<1>6. \A a \in Actions : Signed(a)' = Signed(a)
  BY <1>4 DEF Signed
<1>7. TypeOK'
  BY <1>3, <1>4 DEF RecordSigned, LedgerInv, TypeOK
<1>8. RowsOK'
  <2> SUFFICES ASSUME NEW a \in Actions
               PROVE  /\ ledger'[a].raw = NoTx <=> ledger'[a].state \in {"absent", "intended"}
                      /\ ledger'[a].raw # NoTx => ledger'[a].raw = Signed(a) /\ Signed(a) \in spool
    BY <1>6 DEF RecordSigned, RowsOK
  <2>1. CASE a = Current
    BY <2>1, <1>0, <1>4, NoTxIsNone
  <2>2. CASE a # Current
    BY <2>2, <1>4 DEF LedgerInv, RowsOK
  <2> QED BY <2>1, <2>2
<1>9. SpoolOK'
  BY <1>5, <1>6 DEF RecordSigned, LedgerInv, TypeOK, Tx, SpoolOK
<1>10. NoncesOK'
  BY <1>3, <1>4, <1>5 DEF RecordSigned, LedgerInv, NoncesOK, NonceSpentOnce
<1>11. ProcOK'
  <2>1. ASSUME NEW s \in 1..(proc.stage - 1)
        PROVE  Succeeded(<<proc.cur, s>>)'
    <3>1. <<proc.cur, s>> \in Actions /\ <<proc.cur, s>> # Current /\ Succeeded(<<proc.cur, s>>)
      BY <1>0, EarlierStage
    <3>2. ledger'[<<proc.cur, s>>] = ledger[<<proc.cur, s>>]
      BY <3>1, <1>4
    <3> QED BY <3>1, <3>2, <1>3 DEF Succeeded
  <2> QED BY <1>0, <1>3, <1>4, <2>1 DEF LedgerInv, ProcOK
<1>12. BroadcastIsDurable'
  <2> SUFFICES ASSUME NEW t \in pool \cup MinedTx PROVE ledger'[t.action].raw = t /\ t \in spool
    BY DEF RecordSigned, BroadcastIsDurable, MinedTx
  <2>1. t \in Tx /\ ledger[t.action].raw = t /\ t \in spool
    BY DEF LedgerInv, TypeOK, BroadcastIsDurable, MinedTx
  <2>2. t.action \in Actions /\ t = Signed(t.action)
    BY <2>1 DEF LedgerInv, SpoolOK, Tx
  <2> QED BY <2>1, <2>2, <1>0, <1>4
<1>13. OutcomeIsOnChain'
  BY <1>0, <1>4 DEF RecordSigned, LedgerInv, OutcomeIsOnChain
<1>14. SucceededAttemptIsComplete'
  BY <1>0, <1>4 DEF RecordSigned, LedgerInv, SucceededAttemptIsComplete, Actions
<1> QED BY <1>7, <1>8, <1>9, <1>10, <1>11, <1>12, <1>13, <1>14 DEF LedgerInv

(* Advancing a signed action: its frozen fields stay, and a final state is *)
(* only written with the receipt that justifies it.                        *)
LEMMA StateUpdate ==
    ASSUME LedgerInv, proc.pc \notin {"stopped", "begin"},
           ledger[Current].state \in {"signed", "submitted"},
           NEW st \in {"submitted", "succeeded", "failed"},
           ledger' = [ledger EXCEPT ![Current].state = st],
           st # "submitted" => /\ [tx |-> ledger[Current].raw, ok |-> st = "succeeded"] \in mined
                               /\ ledger[Current].raw \in receipts,
           UNCHANGED <<attempt, completed, spool, receipts, nonceNext, node, faults, crashes>>,
           proc' \in Process, ProcOK', proc'.pc # "freeze"
    PROVE  LedgerInv'
<1> USE LedgerConstants DEF node
<1>0. Current \in Actions
  BY CurrentIsAction
<1>1. /\ ledger' \in [Actions -> Row]
      /\ ledger'[Current].state = st
      /\ \A a \in Actions : a # Current => ledger'[a] = ledger[a]
      /\ \A a \in Actions : /\ ledger'[a].nonce = ledger[a].nonce
                            /\ ledger'[a].price = ledger[a].price
                            /\ ledger'[a].raw = ledger[a].raw
  BY <1>0 DEF LedgerInv, TypeOK, Row, States
<1>2. \A a \in Actions : Stored(a)' <=> Stored(a)
  BY <1>0, <1>1 DEF Stored
<1>3. \A a \in Actions : Signed(a)' = Signed(a)
  BY <1>1 DEF Signed
<1>4. TypeOK'
  BY <1>1 DEF LedgerInv, TypeOK
<1>5. RowsOK'
  BY <1>0, <1>1, <1>3 DEF LedgerInv, RowsOK
<1>6. SpoolOK'
  BY <1>2, <1>3 DEF LedgerInv, TypeOK, Tx, SpoolOK
<1>7. NoncesOK'
  BY <1>1, <1>2 DEF LedgerInv, NoncesOK, NonceSpentOnce
<1>8. BroadcastIsDurable'
  BY <1>1 DEF LedgerInv, TypeOK, Tx, BroadcastIsDurable, MinedTx
<1>9. OutcomeIsOnChain'
  <2> SUFFICES ASSUME NEW a \in Actions, ledger'[a].state \in {"succeeded", "failed"}
               PROVE  /\ [tx |-> ledger'[a].raw, ok |-> ledger'[a].state = "succeeded"] \in mined
                      /\ ledger'[a].raw \in receipts
    BY DEF OutcomeIsOnChain
  <2>1. CASE a = Current
    BY <2>1, <1>1
  <2>2. CASE a # Current
    BY <2>2, <1>1 DEF LedgerInv, OutcomeIsOnChain
  <2> QED BY <2>1, <2>2
<1>10. SucceededAttemptIsComplete'
  BY <1>0, <1>1 DEF LedgerInv, SucceededAttemptIsComplete, Actions
<1> QED BY <1>4, <1>5, <1>6, <1>7, <1>8, <1>9, <1>10 DEF LedgerInv

(* Moving on within the current action, with or without such an update. *)
LEMMA StillCurrent ==
    ASSUME LedgerInv, proc.pc \notin {"stopped", "begin"},
           NEW st \in States, NEW pc \in PCs,
           \/ ledger' = [ledger EXCEPT ![Current].state = st]
           \/ ledger' = ledger /\ ledger[Current].state = st,
           proc' = Goto(pc)
    PROVE  /\ proc' \in Process /\ proc'.pc = pc /\ proc'.cur = proc.cur
           /\ proc'.stage = proc.stage /\ Current' = Current /\ proc'.tx = proc.tx
           /\ ledger'[Current].state = st /\ ledger'[Current].raw = ledger[Current].raw
           /\ \A s \in 1..(proc.stage - 1) : Succeeded(<<proc.cur, s>>)'
<1>0. Current \in Actions
  BY CurrentIsAction
<1>1. /\ proc' \in Process /\ proc'.pc = pc /\ proc'.cur = proc.cur
      /\ proc'.stage = proc.stage /\ Current' = Current /\ proc'.tx = proc.tx
  BY ProcUpdate, 0 \in Nat DEF Goto, Current
<1>2. /\ \A a \in Actions : a # Current => ledger'[a] = ledger[a]
      /\ ledger'[Current].state = st /\ ledger'[Current].raw = ledger[Current].raw
  BY <1>0 DEF LedgerInv, TypeOK, Row
<1>3. ASSUME NEW s \in 1..(proc.stage - 1) PROVE Succeeded(<<proc.cur, s>>)'
  <2>1. <<proc.cur, s>> \in Actions /\ <<proc.cur, s>> # Current /\ Succeeded(<<proc.cur, s>>)
    BY EarlierStage
  <2>2. ledger'[<<proc.cur, s>>] = ledger[<<proc.cur, s>>]
    BY <2>1, <1>2
  <2> QED BY <2>1, <2>2, <1>1 DEF Succeeded
<1> QED BY <1>1, <1>2, <1>3

(* Reading the receipt before broadcasting. *)
LEMMA CheckStep == ASSUME LedgerInv, CheckReceipt PROVE LedgerInv'
<1> USE LedgerConstants DEF node
<1>0. /\ Current \in Actions /\ proc.pc = "check"
      /\ ledger[Current].state \in {"signed", "submitted"} /\ proc.tx = ledger[Current].raw
  BY CurrentIsAction DEF CheckReceipt, LedgerInv, ProcOK
<1>1. CASE UNCHANGED ledger /\ proc' = NextAttempt
  <2>1. ProcOK' /\ proc' \in Process /\ proc'.pc # "freeze"
    BY <1>1, NextAttemptOK
  <2>2. TypeOK'
    BY <1>1, <2>1 DEF CheckReceipt, LedgerInv, TypeOK
  <2> QED BY <1>1, <2>1, <2>2, QuietStep DEF CheckReceipt
<1>2. CASE proc.tx \in MinedTx /\ Observe("submitted", Goto("receipt"))
  <2>1. ledger' = [ledger EXCEPT ![Current].state = "submitted"] /\ proc' = Goto("receipt")
    BY <1>0, <1>2 DEF Observe, MayBecome, Rank
  <2>2. "receipt" \in PCs /\ "submitted" \in States
    BY DEF PCs, States
  <2>3. /\ proc' \in Process /\ proc'.pc = "receipt" /\ proc'.cur = proc.cur
        /\ proc'.stage = proc.stage /\ Current' = Current /\ proc'.tx = proc.tx
        /\ ledger'[Current].state = "submitted" /\ ledger'[Current].raw = ledger[Current].raw
        /\ \A s \in 1..(proc.stage - 1) : Succeeded(<<proc.cur, s>>)'
    BY <1>0, <2>1, <2>2, StillCurrent
  <2>4. ProcOK'
    BY <1>0, <1>2, <2>3 DEF CheckReceipt, LedgerInv, ProcOK, MinedTx
  <2> QED BY <1>0, <2>1, <2>3, <2>4, StateUpdate DEF CheckReceipt
<1>3. CASE UNCHANGED ledger /\ proc' = Goto("send")
  <2>1. "send" \in PCs /\ ledger[Current].state \in States
    BY <1>0 DEF PCs, States
  <2>2. /\ proc' \in Process /\ proc'.pc = "send" /\ proc'.cur = proc.cur
        /\ proc'.stage = proc.stage /\ Current' = Current /\ proc'.tx = proc.tx
        /\ \A s \in 1..(proc.stage - 1) : Succeeded(<<proc.cur, s>>)'
    BY <1>0, <1>3, <2>1, StillCurrent
  <2>3. ProcOK'
    BY <1>0, <1>3, <2>2 DEF LedgerInv, ProcOK
  <2>4. TypeOK'
    BY <1>3, <2>2 DEF CheckReceipt, LedgerInv, TypeOK
  <2> QED BY <1>3, <2>2, <2>3, <2>4, QuietStep DEF CheckReceipt
<1> QED BY <1>1, <1>2, <1>3 DEF CheckReceipt

(* Whatever enters the pool is the recorded transaction in hand. *)
LEMMA PoolStep ==
    ASSUME LedgerInv, proc.pc = "send"
    PROVE  \A t \in PoolWith(proc.tx) : t \in Tx /\ ledger[t.action].raw = t /\ t \in spool
<1>0. /\ Current \in Actions /\ ledger[Current].state \in {"signed", "submitted"}
      /\ proc.tx = ledger[Current].raw
  BY CurrentIsAction DEF LedgerInv, ProcOK
<1>1. proc.tx = Signed(Current) /\ proc.tx \in spool
  BY <1>0 DEF LedgerInv, RowsOK
<1>2. proc.tx \in Tx /\ proc.tx.action = Current
  BY <1>1 DEF Signed, LedgerInv, TypeOK
<1>3. PoolWith(proc.tx) \subseteq pool \cup {proc.tx}
  BY DEF PoolWith
<1> QED BY <1>0, <1>1, <1>2, <1>3 DEF LedgerInv, TypeOK, BroadcastIsDurable

(* Broadcasting the recorded bytes. *)
LEMMA BroadcastStep == ASSUME LedgerInv, broadcast PROVE LedgerInv'
<1> USE LedgerConstants DEF durable
<1>0. /\ Current \in Actions /\ proc.pc = "send"
      /\ ledger[Current].state \in {"signed", "submitted"} /\ proc.tx = ledger[Current].raw
  BY CurrentIsAction DEF broadcast, LedgerInv, ProcOK
<1>1. "submitted" \in PCs /\ ledger[Current].state \in States
  BY <1>0 DEF PCs, States
<1>2. /\ proc' \in Process /\ proc'.pc = "submitted" /\ proc'.cur = proc.cur
      /\ proc'.stage = proc.stage /\ Current' = Current /\ proc'.tx = proc.tx
      /\ \A s \in 1..(proc.stage - 1) : Succeeded(<<proc.cur, s>>)'
  BY <1>0, <1>1, StillCurrent DEF broadcast
<1>3. ProcOK'
  BY <1>0, <1>2 DEF broadcast, LedgerInv, ProcOK
<1>4. TypeOK'
  BY <1>0, <1>2, PoolStep DEF broadcast, LedgerInv, TypeOK
<1>5. BroadcastIsDurable'
  BY <1>0, PoolStep DEF broadcast, LedgerInv, BroadcastIsDurable, MinedTx
<1>6. RowsOK' /\ SpoolOK' /\ OutcomeIsOnChain' /\ NoncesOK'
  BY <1>2, LedgerFrame, NonceFrame DEF broadcast
<1>7. SucceededAttemptIsComplete'
  BY DEF broadcast, LedgerInv, SucceededAttemptIsComplete
<1> QED BY <1>3, <1>4, <1>5, <1>6, <1>7 DEF LedgerInv

(* Recording the submission. *)
LEMMA SubmittedStep == ASSUME LedgerInv, ObserveSubmitted PROVE LedgerInv'
<1> USE LedgerConstants DEF node
<1>0. /\ Current \in Actions /\ proc.pc = "submitted"
      /\ ledger[Current].state \in {"signed", "submitted"} /\ proc.tx = ledger[Current].raw
  BY CurrentIsAction DEF ObserveSubmitted, LedgerInv, ProcOK
<1>1. ledger' = [ledger EXCEPT ![Current].state = "submitted"] /\ proc' = Goto("await")
  BY <1>0 DEF ObserveSubmitted, Observe, MayBecome, Rank
<1>2. "await" \in PCs /\ "submitted" \in States
  BY DEF PCs, States
<1>3. /\ proc' \in Process /\ proc'.pc = "await" /\ proc'.cur = proc.cur
      /\ proc'.stage = proc.stage /\ Current' = Current /\ proc'.tx = proc.tx
      /\ ledger'[Current].state = "submitted" /\ ledger'[Current].raw = ledger[Current].raw
      /\ \A s \in 1..(proc.stage - 1) : Succeeded(<<proc.cur, s>>)'
  BY <1>0, <1>1, <1>2, StillCurrent
<1>4. ProcOK'
  BY <1>0, <1>3 DEF LedgerInv, ProcOK
<1> QED BY <1>0, <1>1, <1>3, <1>4, StateUpdate DEF ObserveSubmitted

(* Waiting for the receipt. *)
LEMMA AwaitStep == ASSUME LedgerInv, awaitReceipt PROVE LedgerInv'
<1> USE LedgerConstants DEF durable, node
<1>0. /\ Current \in Actions /\ proc.pc = "await"
      /\ ledger[Current].state \in {"signed", "submitted"} /\ proc.tx = ledger[Current].raw
  BY CurrentIsAction DEF awaitReceipt, LedgerInv, ProcOK
<1>1. CASE proc' = NextAttempt
  <2>1. ProcOK' /\ proc' \in Process /\ proc'.pc # "freeze"
    BY <1>1, NextAttemptOK
  <2>2. TypeOK'
    BY <1>1, <2>1 DEF awaitReceipt, LedgerInv, TypeOK
  <2> QED BY <2>1, <2>2, QuietStep DEF awaitReceipt
<1>2. CASE proc.tx \in MinedTx /\ proc' = Goto("receipt")
  <2>1. "receipt" \in PCs /\ ledger[Current].state \in States
    BY <1>0 DEF PCs, States
  <2>2. /\ proc' \in Process /\ proc'.pc = "receipt" /\ proc'.cur = proc.cur
        /\ proc'.stage = proc.stage /\ Current' = Current /\ proc'.tx = proc.tx
        /\ \A s \in 1..(proc.stage - 1) : Succeeded(<<proc.cur, s>>)'
    BY <1>0, <1>2, <2>1, StillCurrent DEF awaitReceipt
  <2>3. ProcOK'
    BY <1>0, <1>2, <2>2 DEF awaitReceipt, LedgerInv, ProcOK, MinedTx
  <2>4. TypeOK'
    BY <2>2 DEF awaitReceipt, LedgerInv, TypeOK
  <2> QED BY <2>2, <2>3, <2>4, QuietStep DEF awaitReceipt
<1> QED BY <1>1, <1>2 DEF awaitReceipt

(* Spooling the receipt. *)
LEMMA ReceiptStep == ASSUME LedgerInv, spoolReceipt PROVE LedgerInv'
<1> USE LedgerConstants DEF node
<1>0. /\ Current \in Actions /\ proc.pc = "receipt" /\ proc.tx \in MinedTx
      /\ ledger[Current].state \in {"signed", "submitted"} /\ proc.tx = ledger[Current].raw
  BY CurrentIsAction DEF spoolReceipt, LedgerInv, ProcOK
<1>1. proc.tx \in Tx
  BY <1>0 DEF LedgerInv, TypeOK, MinedTx
<1>2. "close" \in PCs /\ ledger[Current].state \in States
  BY <1>0 DEF PCs, States
<1>3. /\ proc' \in Process /\ proc'.pc = "close" /\ proc'.cur = proc.cur
      /\ proc'.stage = proc.stage /\ Current' = Current /\ proc'.tx = proc.tx
      /\ \A s \in 1..(proc.stage - 1) : Succeeded(<<proc.cur, s>>)'
  BY <1>0, <1>2, StillCurrent DEF spoolReceipt
<1>4. ProcOK'
  BY <1>0, <1>3 DEF spoolReceipt, LedgerInv, ProcOK, MinedTx
<1>5. TypeOK'
  BY <1>1, <1>3 DEF spoolReceipt, LedgerInv, TypeOK
<1>6. RowsOK' /\ SpoolOK' /\ OutcomeIsOnChain' /\ NoncesOK'
  BY <1>3, LedgerFrame, NonceFrame DEF spoolReceipt
<1>7. BroadcastIsDurable' /\ SucceededAttemptIsComplete'
  BY DEF spoolReceipt, LedgerInv, BroadcastIsDurable, SucceededAttemptIsComplete, MinedTx
<1> QED BY <1>4, <1>5, <1>6, <1>7 DEF LedgerInv

(* Closing the action with the status of its receipt. *)
LEMMA CloseStep == ASSUME LedgerInv, CloseAction PROVE LedgerInv'
<1> USE LedgerConstants DEF node
<1>0. /\ Current \in Actions /\ proc.pc = "close" /\ proc.tx \in receipts
      /\ ledger[Current].state \in {"signed", "submitted"} /\ proc.tx = ledger[Current].raw
  BY CurrentIsAction DEF CloseAction, LedgerInv, ProcOK
<1>1. PICK m \in mined : /\ m.tx = proc.tx
                         /\ IF m.ok THEN Observe("succeeded", Goto("verify"))
                                    ELSE Observe("failed", NextAttempt)
  BY DEF CloseAction
<1>2. m = [tx |-> proc.tx, ok |-> m.ok] /\ m.ok \in BOOLEAN
  BY <1>1 DEF LedgerInv, TypeOK
<1>3. CASE m.ok
  <2>1. ledger' = [ledger EXCEPT ![Current].state = "succeeded"] /\ proc' = Goto("verify")
    BY <1>0, <1>1, <1>3 DEF Observe, MayBecome, Rank
  <2>2. "verify" \in PCs /\ "succeeded" \in States
    BY DEF PCs, States
  <2>3. /\ proc' \in Process /\ proc'.pc = "verify" /\ proc'.cur = proc.cur
        /\ proc'.stage = proc.stage /\ Current' = Current
        /\ ledger'[Current].state = "succeeded"
        /\ \A s \in 1..(proc.stage - 1) : Succeeded(<<proc.cur, s>>)'
    BY <1>0, <2>1, <2>2, StillCurrent
  <2>4. ProcOK'
    BY <1>0, <2>3 DEF LedgerInv, ProcOK, Succeeded
  <2>5. m = [tx |-> ledger[Current].raw, ok |-> "succeeded" = "succeeded"]
    BY <1>0, <1>2, <1>3
  <2> QED BY <1>0, <1>1, <2>1, <2>3, <2>4, <2>5, StateUpdate DEF CloseAction
<1>4. CASE ~m.ok
  <2>1. ledger' = [ledger EXCEPT ![Current].state = "failed"] /\ proc' = NextAttempt
    BY <1>0, <1>1, <1>4 DEF Observe, MayBecome, Rank
  <2>2. ProcOK' /\ proc' \in Process /\ proc'.pc # "freeze"
    BY <2>1, NextAttemptOK
  <2>3. m = [tx |-> ledger[Current].raw, ok |-> "failed" = "succeeded"]
    BY <1>0, <1>2, <1>4
  <2> QED BY <1>0, <1>1, <2>1, <2>2, <2>3, StateUpdate DEF CloseAction
<1> QED BY <1>3, <1>4

(* Checking the outcome of a stage: the next stage, or the end of the      *)
(* attempt once all stages succeeded.                                      *)
LEMMA VerifyStep == ASSUME LedgerInv, VerifyStage PROVE LedgerInv'
<1> USE LedgerConstants DEF durable, node
<1>0. /\ proc.pc = "verify" /\ Succeeded(Current) /\ Current \in Actions
      /\ proc.cur <= Attempts /\ proc.cur \in Nat /\ proc.cur >= 1 /\ proc.stage \in 1..Stages
      /\ \A s \in 1..(proc.stage - 1) : Succeeded(<<proc.cur, s>>)
  BY ProcFacts, CurrentIsAction DEF VerifyStage, LedgerInv, ProcOK
<1>1. \A s \in 1..proc.stage : Succeeded(<<proc.cur, s>>)
  <2> SUFFICES ASSUME NEW s \in 1..proc.stage PROVE Succeeded(<<proc.cur, s>>)
    OBVIOUS
  <2>1. CASE s = proc.stage
    BY <2>1, <1>0 DEF Current
  <2>2. CASE s # proc.stage
    BY <2>2, <1>0
  <2> QED BY <2>1, <2>2
<1>2. CASE proc' = NextAttempt
  <2>1. ProcOK' /\ proc' \in Process /\ proc'.pc # "freeze"
    BY <1>2, NextAttemptOK
  <2>2. TypeOK'
    BY <2>1 DEF VerifyStage, LedgerInv, TypeOK
  <2> QED BY <2>1, <2>2, QuietStep DEF VerifyStage
<1>3. CASE proc.stage < Stages /\ proc' = [proc EXCEPT !.pc = "stage", !.stage = proc.stage + 1]
  <2> DEFINE n == proc.stage + 1
  <2>1. "stage" \in PCs /\ n \in 1..Stages /\ n - 1 = proc.stage
    BY <1>0, <1>3 DEF PCs
  <2> HIDE DEF n
  <2>2. proc' \in Process /\ proc'.pc = "stage" /\ proc'.cur = proc.cur /\ proc'.stage = n
    <3>1. proc' = [proc EXCEPT !.pc = "stage", !.stage = n]
      BY <1>3 DEF n
    <3> QED BY <2>1, <3>1, ProcStage, ZenonT(60)
  <2>3. ledger' = ledger
    BY DEF VerifyStage
  <2>4. \A s \in 1..(proc'.stage - 1) : Succeeded(<<proc.cur, s>>)'
    BY <1>1, <2>1, <2>2, <2>3 DEF Succeeded
  <2>5. ProcOK'
    BY <1>0, <2>2, <2>4 DEF ProcOK
  <2>6. TypeOK'
    BY <2>2 DEF VerifyStage, LedgerInv, TypeOK
  <2> QED BY <2>2, <2>5, <2>6, QuietStep DEF VerifyStage
<1>4. CASE ~(proc.stage < Stages) /\ proc' = Goto("finish")
  <2>1. "finish" \in PCs /\ 0 \in Nat
    BY DEF PCs
  <2>2. /\ proc' \in Process /\ proc'.pc = "finish" /\ proc'.cur = proc.cur
        /\ proc'.stage = proc.stage
    BY <1>4, <2>1, ProcUpdate DEF Goto
  <2>3. ledger' = ledger /\ proc.stage = Stages
    BY <1>0, <1>4 DEF VerifyStage
  <2>4. \A s \in 1..Stages : Succeeded(<<proc.cur, s>>)'
    BY <1>1, <2>2, <2>3 DEF Succeeded
  <2>5. \A s \in 1..(proc.stage - 1) : Succeeded(<<proc.cur, s>>)'
    BY <1>0, <2>2, <2>3 DEF Succeeded
  <2>6. ProcOK'
    BY <1>0, <2>2, <2>4, <2>5 DEF ProcOK
  <2>7. TypeOK'
    BY <2>2, SMTT(40) DEF VerifyStage, LedgerInv, TypeOK
  <2> QED BY <2>2, <2>6, <2>7, QuietStep DEF VerifyStage
<1> QED BY <1>2, <1>3, <1>4 DEF VerifyStage

(* Reporting the attempt. *)
LEMMA FinishStep == ASSUME LedgerInv, FinishAttempt PROVE LedgerInv'
<1> USE LedgerConstants DEF node
<1>0. /\ proc.pc = "finish" /\ proc.cur \in 1..Attempts
      /\ \A s \in 1..Stages : Succeeded(<<proc.cur, s>>)
      /\ \A s \in 1..(proc.stage - 1) : Succeeded(<<proc.cur, s>>)
  BY ProcFacts DEF FinishAttempt, LedgerInv, ProcOK
<1>1. "complete" \in PCs /\ 0 \in Nat
  BY DEF PCs
<1>2. /\ proc' \in Process /\ proc'.pc = "complete" /\ proc'.cur = proc.cur
      /\ proc'.stage = proc.stage /\ ledger' = ledger
  BY <1>1, ProcUpdate DEF FinishAttempt, Goto
<1>3. ProcOK'
  BY <1>0, <1>2 DEF ProcOK, Succeeded
<1>4. TypeOK'
  BY <1>0, <1>2 DEF FinishAttempt, LedgerInv, TypeOK
<1>5. RowsOK' /\ SpoolOK' /\ OutcomeIsOnChain' /\ NoncesOK'
  BY <1>2, LedgerFrame, NonceFrame DEF FinishAttempt
<1>6. BroadcastIsDurable'
  BY DEF FinishAttempt, LedgerInv, BroadcastIsDurable, MinedTx
<1>7. SucceededAttemptIsComplete'
  BY <1>0, <1>2 DEF FinishAttempt, LedgerInv, TypeOK, SucceededAttemptIsComplete, Succeeded
<1> QED BY <1>3, <1>4, <1>5, <1>6, <1>7 DEF LedgerInv

(* Recording the completed event. *)
LEMMA CompletedStep == ASSUME LedgerInv, RecordCompleted PROVE LedgerInv'
<1> USE LedgerConstants DEF node
<1>1. proc.cur \in 1..Attempts
  BY ProcFacts DEF RecordCompleted, LedgerInv, ProcOK
<1>2. ProcOK' /\ proc' \in Process /\ proc'.pc # "freeze"
  BY NextAttemptOK DEF RecordCompleted
<1>3. TypeOK'
  BY <1>1, <1>2 DEF RecordCompleted, LedgerInv, TypeOK
<1> QED BY <1>2, <1>3, QuietStep DEF RecordCompleted

(* A failed call, which may have broadcast the transaction in hand. *)
LEMMA RpcFailureStep == ASSUME LedgerInv, RpcFailure PROVE LedgerInv'
<1> USE LedgerConstants DEF durable
<1>1. ProcOK' /\ proc' \in Process /\ proc'.pc # "freeze"
  BY NextAttemptOK DEF RpcFailure
<1>2. pool' \subseteq Tx /\ \A t \in pool' : ledger[t.action].raw = t /\ t \in spool
  <2>1. CASE pool' = pool
    BY <2>1 DEF LedgerInv, TypeOK, BroadcastIsDurable
  <2>2. CASE proc.pc = "send" /\ pool' = PoolWith(proc.tx)
    BY <2>2, PoolStep
  <2> QED BY <2>1, <2>2 DEF RpcFailure
<1>3. TypeOK'
  BY <1>1, <1>2 DEF RpcFailure, LedgerInv, TypeOK
<1>4. BroadcastIsDurable'
  BY <1>2 DEF RpcFailure, LedgerInv, BroadcastIsDurable, MinedTx
<1>5. RowsOK' /\ SpoolOK' /\ OutcomeIsOnChain' /\ NoncesOK'
  BY <1>1, LedgerFrame, NonceFrame DEF RpcFailure
<1>6. SucceededAttemptIsComplete'
  BY DEF RpcFailure, LedgerInv, SucceededAttemptIsComplete
<1> QED BY <1>1, <1>3, <1>4, <1>5, <1>6 DEF LedgerInv

(* The node mines, forgets or re-prices. *)
LEMMA NodeStep ==
    ASSUME LedgerInv, (\E tx \in pool : Mine(tx) \/ Drop(tx)) \/ Reprice
    PROVE  LedgerInv'
<1> USE LedgerConstants DEF durable
<1> DEFINE Kept == /\ UNCHANGED <<ledger, attempt, completed, spool, receipts, nonceNext, proc>>
                   /\ pool' \subseteq pool /\ mined \subseteq mined'
                   /\ \A m \in mined' : m \in mined \/ (m.tx \in pool /\ m \in [tx : Tx, ok : BOOLEAN])
                   /\ chainNonce' \in [Accounts -> Nat] /\ records' \in Seq(Actions)
                   /\ price' \in Prices /\ faults' \in 0..MaxFaults /\ crashes' \in 0..MaxCrashes
<1>1. ASSUME NEW tx \in pool, Mine(tx) PROVE Kept
  <2>1. tx \in Tx /\ tx.action \in Actions /\ Account(tx.action) \in Accounts
    BY DEF LedgerInv, TypeOK, Tx, Account, Actions
  <2>2. PICK ok \in BOOLEAN :
           /\ mined' = mined \cup {[tx |-> tx, ok |-> ok]}
           /\ records' = IF ok /\ tx.action[2] = 1 THEN Append(records, tx.action) ELSE records
    BY <1>1 DEF Mine
  <2>3. records' \in Seq(Actions)
    BY <2>1, <2>2 DEF LedgerInv, TypeOK
  <2>4. chainNonce' \in [Accounts -> Nat]
    BY <1>1, <2>1 DEF Mine, LedgerInv, TypeOK
  <2>5. /\ mined \subseteq mined'
        /\ \A m \in mined' : m \in mined \/ (m.tx \in pool /\ m \in [tx : Tx, ok : BOOLEAN])
    BY <2>1, <2>2
  <2> QED BY <1>1, <2>3, <2>4, <2>5 DEF Mine, LedgerInv, TypeOK
<1>2. ASSUME NEW tx \in pool, Drop(tx) PROVE Kept
  BY <1>2 DEF Drop, LedgerInv, TypeOK
<1>3. ASSUME Reprice PROVE Kept
  BY <1>3 DEF Reprice, LedgerInv, TypeOK
<1>4. Kept
  BY <1>1, <1>2, <1>3
<1>5. TypeOK'
  BY <1>4 DEF LedgerInv, TypeOK
<1>6. MinedTx \subseteq MinedTx' /\ \A t \in MinedTx' : t \in pool \cup MinedTx
  BY <1>4 DEF MinedTx
<1>7. ProcOK'
  BY <1>4, <1>6 DEF LedgerInv, ProcOK, Current, Stored, Succeeded, Signed
<1>8. RowsOK' /\ SpoolOK' /\ OutcomeIsOnChain'
  BY <1>4, LedgerFrame
<1>9. NoncesOK'
  BY <1>4 DEF LedgerInv, NoncesOK, NonceSpentOnce, Stored, AccountNonces, Current
<1>10. BroadcastIsDurable' /\ SucceededAttemptIsComplete'
  BY <1>4, <1>6 DEF LedgerInv, BroadcastIsDurable, SucceededAttemptIsComplete
<1> QED BY <1>5, <1>7, <1>8, <1>9, <1>10 DEF LedgerInv

-----------------------------------------------------------------------------
(* The initial state satisfies the invariant. *)
LEMMA LedgerInit == ASSUME Init PROVE LedgerInv
<1> USE LedgerConstants
<1>1. NoRow \in Row /\ NoRow.state = "absent" /\ NoRow.raw = NoTx
  BY DEF NoRow, Row, States
<1>2. Stopped \in Process /\ Stopped.pc = "stopped" /\ Stopped.cur = 1
  BY DEF Stopped, Process, PCs
<1>3. \A a \in Actions : ledger[a] = NoRow /\ ~Stored(a)
  BY <1>1 DEF Init, Stored
<1>4. MinedTx = {}
  BY DEF Init, MinedTx
<1>5. TypeOK
  BY <1>1, <1>2 DEF Init, TypeOK
<1>6. RowsOK /\ SpoolOK /\ OutcomeIsOnChain
  BY <1>1, <1>3 DEF Init, RowsOK, SpoolOK, OutcomeIsOnChain
<1>7. NoncesOK
  BY <1>2, <1>3 DEF Init, NoncesOK, NonceSpentOnce
<1>8. ProcOK
  BY <1>2 DEF Init, ProcOK
<1>9. BroadcastIsDurable /\ SucceededAttemptIsComplete
  BY <1>4 DEF Init, BroadcastIsDurable, SucceededAttemptIsComplete
<1> QED BY <1>5, <1>6, <1>7, <1>8, <1>9 DEF LedgerInv

(* Every step keeps the invariant. *)
LEMMA LedgerStep == ASSUME LedgerInv, [Next]_vars PROVE LedgerInv'
<1>1. CASE StartRun \/ EndRun \/ Crash
  BY <1>1, StartRunStep
<1>2. CASE BeginAttempt
  BY <1>2, BeginStep
<1>3. CASE LoadFresh \/ LoadRefused \/ LoadSucceeded \/ LoadPending
  BY <1>3, LoadStep
<1>4. CASE reserveNonce
  BY <1>4, ReserveStep
<1>5. CASE freezeIntent
  BY <1>5, FreezeStep
<1>6. CASE SpoolSigned
  BY <1>6, SpoolStep
<1>7. CASE RecordSigned
  BY <1>7, RecordStep
<1>8. CASE CheckReceipt
  BY <1>8, CheckStep
<1>9. CASE broadcast
  BY <1>9, BroadcastStep
<1>10. CASE ObserveSubmitted
  BY <1>10, SubmittedStep
<1>11. CASE awaitReceipt
  BY <1>11, AwaitStep
<1>12. CASE spoolReceipt
  BY <1>12, ReceiptStep
<1>13. CASE CloseAction
  BY <1>13, CloseStep
<1>14. CASE VerifyStage
  BY <1>14, VerifyStep
<1>15. CASE FinishAttempt
  BY <1>15, FinishStep
<1>16. CASE RecordCompleted
  BY <1>16, CompletedStep
<1>17. CASE RpcFailure
  BY <1>17, RpcFailureStep
<1>18. CASE (\E tx \in pool : Mine(tx) \/ Drop(tx)) \/ Reprice
  BY <1>18, NodeStep
<1>19. CASE UNCHANGED vars
  <2>1. RowsOK' /\ SpoolOK' /\ OutcomeIsOnChain'
    BY <1>19, LedgerFrame DEF vars
  <2>2. TypeOK'
    BY <1>19 DEF vars, LedgerInv, TypeOK
  <2>3. ProcOK'
    BY <1>19 DEF vars, LedgerInv, ProcOK, MinedTx, Current, Stored, Succeeded, Signed
  <2>4. NoncesOK'
    BY <1>19 DEF vars, LedgerInv, NoncesOK, NonceSpentOnce, Stored, AccountNonces, Current
  <2>5. BroadcastIsDurable' /\ SucceededAttemptIsComplete'
    BY <1>19 DEF vars, LedgerInv, BroadcastIsDurable, SucceededAttemptIsComplete, MinedTx
  <2> QED BY <2>1, <2>2, <2>3, <2>4, <2>5 DEF LedgerInv
<1> QED
  BY <1>1, <1>2, <1>3, <1>4, <1>5, <1>6, <1>7, <1>8, <1>9, <1>10, <1>11, <1>12, <1>13, <1>14,
     <1>15, <1>16, <1>17, <1>18, <1>19 DEF Next, ProcessStep

-----------------------------------------------------------------------------
(* The inductive invariant holds of every run of the runtime. *)
THEOREM LedgerInvariant == Spec => []LedgerInv
<1>1. Init => LedgerInv
  BY LedgerInit
<1>2. LedgerInv /\ [Next]_vars => LedgerInv'
  BY LedgerStep
<1> QED BY <1>1, <1>2, PTL DEF Spec

(* The ledger, the spool, the process and the node keep their types, and   *)
(* the process never walks past the last stage or attempt.                 *)
THEOREM LedgerTypeCorrect == Spec => []TypeOK
<1>1. LedgerInv => TypeOK
  BY DEF LedgerInv
<1> QED BY <1>1, LedgerInvariant, PTL

(* Nothing reaches the node that the ledger and the spool do not hold      *)
(* (Execute, ensureSigned), wherever the process died.                     *)
THEOREM BroadcastDurable == Spec => []BroadcastIsDurable
<1>1. LedgerInv => BroadcastIsDurable
  BY DEF LedgerInv
<1> QED BY <1>1, LedgerInvariant, PTL

(* An action is only ever signed one way (ensureSigned, frozenRequest).    *)
THEOREM ActionSignedOnce == Spec => []SignedOnce
<1>1. LedgerInv => SignedOnce
  BY DEF LedgerInv, SpoolOK, SignedOnce
<1> QED BY <1>1, LedgerInvariant, PTL

(* No account nonce is spent twice, across restarts (reserveNonce).        *)
THEOREM NonceUnique == Spec => []NonceSpentOnce
<1>1. LedgerInv => NonceSpentOnce
  BY DEF LedgerInv, NoncesOK
<1> QED BY <1>1, LedgerInvariant, PTL

(* A final state in the ledger is the outcome on chain (Execute, Succeed). *)
THEOREM OutcomeOnChain == Spec => []OutcomeIsOnChain
<1>1. LedgerInv => OutcomeIsOnChain
  BY DEF LedgerInv
<1> QED BY <1>1, LedgerInvariant, PTL

(* A succeeded attempt has only succeeded actions (runAttempt,             *)
(* FinishAttempt).                                                         *)
THEOREM AttemptComplete == Spec => []SucceededAttemptIsComplete
<1>1. LedgerInv => SucceededAttemptIsComplete
  BY DEF LedgerInv
<1> QED BY <1>1, LedgerInvariant, PTL

(* The ledger tells the truth about actions and attempts: no outcome that  *)
(* the chain does not have, no attempt that is not complete.               *)
THEOREM OutcomesTrue == Spec => []OutcomesHold
BY OutcomeOnChain, AttemptComplete, PTL DEF OutcomesHold

-----------------------------------------------------------------------------
(* The record nonces of the roots.                                         *)

(* A root creation the ledger holds, and the account that signs them all.  *)
Root(a) == a \in Actions /\ a[2] = 1 /\ Stored(a)

RootAccount == AccountOf[1]

(* Every number below n is the record nonce of some root. *)
Filled(n) == \A m \in 0..(n - 1) : \E b \in Actions : Root(b) /\ ledger[b].record = m

(* The reserved record nonces have no gaps and follow the account nonces.  *)
RootsInOrder ==
    /\ \A a \in Actions : Root(a) => Filled(ledger[a].record)
    /\ \A a, b \in Actions : Root(a) /\ Root(b) /\ ledger[a].nonce < ledger[b].nonce
           => ledger[a].record < ledger[b].record

(* The gateway's records are the roots the chain has passed, each under    *)
(* the record nonce it reserved.                                           *)
RootsOnChain ==
    /\ \A i \in DOMAIN records :
          /\ Root(records[i]) /\ ledger[records[i]].record = i - 1
          /\ ledger[records[i]].nonce < chainNonce[RootAccount]
    /\ \A a \in Actions : Root(a) /\ ledger[a].nonce < chainNonce[RootAccount]
           => \E i \in DOMAIN records : records[i] = a

(* The root in hand is above all others: in its record nonce once that is  *)
(* chosen, and in its account nonce once that is reserved.                 *)
RootInHand ==
    /\ nonceNext[RootAccount] = Unseeded \/ nonceNext[RootAccount] >= chainNonce[RootAccount]
    /\ proc.pc \in {"reserve", "freeze"} /\ proc.stage = 1 =>
          /\ Filled(proc.record)
          /\ \A b \in Actions : Root(b) => ledger[b].record < proc.record
    /\ proc.pc = "freeze" /\ proc.stage = 1 =>
          /\ proc.nonce >= chainNonce[RootAccount]
          /\ \A b \in Actions : Root(b) => ledger[b].nonce < proc.nonce

(* The inductive invariant of the record nonces. *)
RootInv == RootsInOrder /\ RootsOnChain /\ RootInHand

(* What the types say of the roots. *)
LEMMA RootFacts ==
    ASSUME LedgerInv
    PROVE  /\ RootAccount \in Accounts
           /\ chainNonce[RootAccount] \in Nat
           /\ nonceNext[RootAccount] \in Nat \cup {Unseeded}
           /\ proc.nonce \in Nat /\ proc.record \in Nat
           /\ records \in Seq(Actions)
           /\ \A a \in Actions : /\ ledger[a].nonce \in Nat /\ ledger[a].record \in Nat
                                 /\ a[2] = 1 => Account(a) = RootAccount
<1>1. RootAccount \in Accounts
  BY LedgerConstants DEF RootAccount
<1>2. proc.nonce \in Nat /\ proc.record \in Nat
  BY DEF LedgerInv, TypeOK, Process
<1>3. \A a \in Actions : ledger[a].nonce \in Nat /\ ledger[a].record \in Nat
  BY DEF LedgerInv, TypeOK, Row
<1> QED BY <1>1, <1>2, <1>3 DEF LedgerInv, TypeOK, Account, RootAccount

(* Two roots with the same account nonce, or the same record nonce, are    *)
(* one.                                                                    *)
LEMMA RootsDiffer ==
    ASSUME LedgerInv, RootsInOrder, NEW a \in Actions, NEW b \in Actions, Root(a), Root(b)
    PROVE  /\ ledger[a].nonce = ledger[b].nonce => a = b
           /\ ledger[a].record = ledger[b].record => a = b
<1>1. ledger[a].nonce = ledger[b].nonce => a = b
  BY RootFacts DEF Root, LedgerInv, NoncesOK, NonceSpentOnce
<1>2. ASSUME ledger[a].record = ledger[b].record PROVE ledger[a].nonce = ledger[b].nonce
  BY <1>2, RootFacts DEF RootsInOrder
<1> QED BY <1>1, <1>2

(* The record nonces keep their order under a step that stores no row,     *)
(* changes no frozen field, and leaves the roots in hand and the chain as  *)
(* they are.                                                               *)
LEMMA RootFrame ==
    ASSUME LedgerInv, RootInv,
           \A a \in Actions : /\ Stored(a)' <=> Stored(a)
                              /\ ledger'[a].nonce = ledger[a].nonce
                              /\ ledger'[a].record = ledger[a].record,
           UNCHANGED <<chainNonce, records>>,
           nonceNext' = nonceNext \/ nonceNext'[RootAccount] = Unseeded,
           proc'.pc \notin {"reserve", "freeze"}
    PROVE  RootInv'
<1>1. \A a \in Actions : Root(a)' <=> Root(a)
  BY DEF Root
<1>2. \A n \in Nat : Filled(n) => Filled(n)'
  BY <1>1 DEF Filled
<1>3. RootsInOrder'
  BY <1>1, <1>2, RootFacts DEF RootInv, RootsInOrder
<1>4. RootsOnChain'
  <2>1. \A i \in DOMAIN records : records[i] \in Actions
    BY RootFacts
  <2> QED BY <1>1, <2>1 DEF RootInv, RootsOnChain, RootAccount
<1>5. RootInHand'
  BY DEF RootInv, RootInHand, RootAccount
<1> QED BY <1>3, <1>4, <1>5 DEF RootInv

(* A step that leaves the ledger alone is such a step. *)
LEMMA RootQuiet ==
    ASSUME LedgerInv, RootInv, UNCHANGED <<ledger, chainNonce, records>>,
           nonceNext' = nonceNext \/ nonceNext' = [c \in Accounts |-> Unseeded],
           proc'.pc \notin {"reserve", "freeze"}
    PROVE  RootInv'
<1>1. nonceNext' = nonceNext \/ nonceNext'[RootAccount] = Unseeded
  BY RootFacts
<1>2. \A a \in Actions : Stored(a)' <=> Stored(a)
  BY DEF Stored
<1> QED BY <1>1, <1>2, RootFrame

(* So is one that advances the state of the current, stored row. *)
LEMMA RootUpdate ==
    ASSUME LedgerInv, RootInv, proc.pc \notin {"stopped", "begin"}, Stored(Current),
           NEW st \in States \ {"absent"}, NEW raw,
           \/ ledger' = [ledger EXCEPT ![Current].state = st]
           \/ ledger' = [ledger EXCEPT ![Current].state = st, ![Current].raw = raw],
           UNCHANGED <<chainNonce, records, nonceNext>>,
           proc'.pc \notin {"reserve", "freeze"}
    PROVE  RootInv'
<1>1. Current \in Actions
  BY CurrentIsAction
<1>2. \A a \in Actions : /\ ledger'[a].nonce = ledger[a].nonce /\ ledger'[a].record = ledger[a].record
                         /\ a # Current => ledger'[a].state = ledger[a].state
  BY <1>1 DEF LedgerInv, TypeOK, Row
<1>3. ledger'[Current].state = st
  BY <1>1 DEF LedgerInv, TypeOK, Row
<1>4. \A a \in Actions : Stored(a)' <=> Stored(a)
  BY <1>2, <1>3 DEF Stored
<1> QED BY <1>2, <1>4, RootFrame

(* Where the loop goes when it leaves an attempt or moves on. *)
LEMMA MovedOn ==
    ASSUME LedgerInv, NEW pc \in PCs \ {"reserve", "freeze"},
           proc' \in {NextAttempt, Stopped, Goto(pc)}
    PROVE  proc'.pc \notin {"reserve", "freeze"}
<1>1. NextAttempt.pc = "begin" /\ Stopped.pc = "stopped" /\ Goto(pc).pc = pc
  BY ProcFacts DEF NextAttempt, Stopped, Goto
<1> QED BY <1>1

(* A fresh root gets a record nonce above all that are reserved or on      *)
(* chain, with none left out below it (rootNonce, NextReservedRootNonce).  *)
LEMMA RootLoadStep == ASSUME LedgerInv, RootInv, LoadFresh PROVE RootInv'
<1> USE DEF durable, node
<1>1. PICK n \in 0..MaxNonce :
         /\ proc.stage = 1 => IsRootNonce(n)
         /\ proc' = [proc EXCEPT !.pc = "reserve", !.record = n]
  BY DEF LoadFresh
<1>2. n \in Nat /\ proc'.pc = "reserve" /\ proc'.stage = proc.stage /\ proc'.record = n
  BY <1>1, MaxNonceIsNat, ProcFacts
<1>3. UNCHANGED <<ledger, chainNonce, records, nonceNext>>
  BY DEF LoadFresh
<1>4. \A m \in Nat : Filled(m)' <=> Filled(m)
  BY <1>3 DEF Filled, Root, Stored
<1>5. \A a \in Actions : Root(a)' <=> Root(a)
  BY <1>3 DEF Root, Stored
<1>6. ASSUME proc.stage = 1
      PROVE  Filled(n) /\ \A b \in Actions : Root(b) => ledger[b].record < n
  <2>1. /\ n = Len(records) \/ n \in ReservedRecords
        /\ \A m \in ReservedRecords : n >= m
    BY <1>1, <1>6 DEF IsRootNonce
  <2>2. ASSUME NEW b \in Actions, Root(b) PROVE ledger[b].record < n
    <3>1. ledger[b].record + 1 \in ReservedRecords
      BY <2>2 DEF ReservedRecords, Root
    <3> QED BY <3>1, <2>1, <1>2, RootFacts
  <2>3. ASSUME n = Len(records) PROVE Filled(n)
    <3> SUFFICES ASSUME NEW m \in 0..(n - 1)
                 PROVE  \E b \in Actions : Root(b) /\ ledger[b].record = m
      BY DEF Filled
    <3>1. m + 1 \in DOMAIN records /\ records[m + 1] \in Actions
      BY <2>3, <1>2, RootFacts
    <3>2. Root(records[m + 1]) /\ ledger[records[m + 1]].record = m
      BY <3>1, <1>2 DEF RootInv, RootsOnChain
    <3> QED BY <3>1, <3>2
  <2>4. ASSUME n \in ReservedRecords PROVE Filled(n)
    <3>1. PICK b \in Actions : Root(b) /\ n = ledger[b].record + 1
      BY <2>4 DEF ReservedRecords, Root
    <3>2. Filled(ledger[b].record) /\ ledger[b].record \in Nat
      BY <3>1, RootFacts DEF RootInv, RootsInOrder
    <3> SUFFICES ASSUME NEW m \in 0..(n - 1)
                 PROVE  \E d \in Actions : Root(d) /\ ledger[d].record = m
      BY DEF Filled
    <3>3. CASE m = ledger[b].record
      BY <3>1, <3>3
    <3>4. CASE m # ledger[b].record
      <4>1. m \in 0..(ledger[b].record - 1)
        BY <3>1, <3>2, <3>4
      <4> QED BY <3>2, <4>1 DEF Filled
    <3> QED BY <3>3, <3>4
  <2> QED BY <2>1, <2>2, <2>3, <2>4
<1>7. RootsInOrder' /\ RootsOnChain'
  BY <1>3, <1>4, <1>5, RootFacts DEF RootInv, RootsInOrder, RootsOnChain, RootAccount
<1>8. RootInHand'
  BY <1>2, <1>3, <1>4, <1>5, <1>6 DEF RootInv, RootInHand, RootAccount
<1> QED BY <1>7, <1>8 DEF RootInv

(* The account nonce in hand is above those of the stored roots and not    *)
(* below the chain's (reserveNonce).                                       *)
LEMMA RootReserveStep == ASSUME LedgerInv, RootInv, reserveNonce PROVE RootInv'
<1> USE DEF durable, node
<1> DEFINE c == Account(Current)
<1>0. proc.stage = 1 => c = RootAccount
  BY CurrentIsAction, RootFacts DEF reserveNonce
<1>1. PICK n \in 0..MaxNonce :
         /\ IF nonceNext[c] = Unseeded THEN IsSeed(c, n) ELSE n = nonceNext[c]
         /\ nonceNext' = [nonceNext EXCEPT ![c] = n + 1]
         /\ proc' = [proc EXCEPT !.pc = "freeze", !.nonce = n]
  BY DEF reserveNonce
<1>2. /\ n \in Nat /\ proc'.pc = "freeze" /\ proc'.stage = proc.stage
      /\ proc'.record = proc.record /\ proc'.nonce = n
  BY <1>1, MaxNonceIsNat, ProcFacts
<1>3. UNCHANGED <<ledger, chainNonce, records>> /\ proc.pc = "reserve"
  BY DEF reserveNonce
<1>4. \A m \in Nat : Filled(m)' <=> Filled(m)
  BY <1>3 DEF Filled, Root, Stored
<1>5. \A a \in Actions : Root(a)' <=> Root(a)
  BY <1>3 DEF Root, Stored
<1>6. c = RootAccount => n >= chainNonce[RootAccount]
  <2>1. CASE c = RootAccount /\ nonceNext[c] = Unseeded
    <3>1. PICK pending \in 0..MaxNonce : IsPending(c, pending) /\ n >= pending
      BY <1>1, <2>1 DEF IsSeed
    <3>2. pending \in Nat /\ pending >= chainNonce[RootAccount]
      BY <3>1, <2>1, MaxNonceIsNat DEF IsPending
    <3> QED BY <3>1, <3>2, <1>2, RootFacts
  <2>2. CASE c = RootAccount /\ nonceNext[c] # Unseeded
    BY <1>1, <2>2 DEF RootInv, RootInHand
  <2> QED BY <2>1, <2>2
<1>7. ASSUME NEW a \in Actions, Root(a), c = RootAccount PROVE ledger[a].nonce < n
  <2>1. Stored(a) /\ Account(a) = c /\ ledger[a].nonce \in Nat
    BY <1>7, RootFacts DEF Root
  <2>2. CASE nonceNext[c] = Unseeded
    <3>1. ledger[a].nonce \in AccountNonces(c)
      BY <2>1 DEF AccountNonces
    <3>2. \A m \in AccountNonces(c) : n >= m + 1
      BY <1>1, <2>2 DEF IsSeed
    <3> QED BY <3>1, <3>2, <2>1, <1>2
  <2>3. CASE nonceNext[c] # Unseeded
    BY <1>1, <2>1, <2>3 DEF LedgerInv, NoncesOK
  <2> QED BY <2>2, <2>3
<1>8. nonceNext'[RootAccount] = Unseeded \/ nonceNext'[RootAccount] >= chainNonce[RootAccount]
  <2>1. CASE c = RootAccount
    <3>1. nonceNext'[RootAccount] = n + 1
      BY <1>1, <2>1, RootFacts DEF LedgerInv, TypeOK
    <3> QED BY <3>1, <2>1, <1>2, <1>6, RootFacts
  <2>2. CASE c # RootAccount
    BY <1>1, <2>2, RootFacts DEF LedgerInv, TypeOK, RootInv, RootInHand
  <2> QED BY <2>1, <2>2
<1> HIDE DEF c
<1>9. RootsInOrder' /\ RootsOnChain'
  BY <1>3, <1>4, <1>5, RootFacts DEF RootInv, RootsInOrder, RootsOnChain, RootAccount
<1>10. RootInHand'
  <2>1. RootAccount' = RootAccount
    BY DEF RootAccount
  <2>2. proc.stage = 1 => Filled(proc.record)' /\ \A b \in Actions : Root(b) => ledger[b].record < proc.record
    BY <1>2, <1>3, <1>4, RootFacts DEF RootInv, RootInHand
  <2> QED BY <1>0, <1>2, <1>3, <1>5, <1>6, <1>7, <1>8, <2>1, <2>2 DEF RootInHand
<1> QED BY <1>9, <1>10 DEF RootInv

(* A stored root continues the sequence of the others (freezeIntent). *)
LEMMA RootFreezeStep == ASSUME LedgerInv, RootInv, freezeIntent PROVE RootInv'
<1> USE DEF node
<1>k. PICK k : k = Current
  OBVIOUS
<1>0. /\ k \in Actions /\ k[2] = proc.stage /\ ~Stored(k) /\ proc.pc = "freeze"
      /\ proc.nonce \in Nat /\ proc.record \in Nat
  BY <1>k, CurrentIsAction, RootFacts DEF freezeIntent, LedgerInv, ProcOK
<1>1. UNCHANGED <<chainNonce, records, nonceNext>>
  BY DEF freezeIntent
<1>2. CASE proc' = NextAttempt /\ UNCHANGED ledger
  <2>1. "sign" \in PCs \ {"reserve", "freeze"}
    BY DEF PCs
  <2>2. proc'.pc \notin {"reserve", "freeze"}
    BY <1>2, <2>1, MovedOn
  <2> QED BY <1>1, <1>2, <2>2, RootQuiet
<1>3. CASE /\ ledger' = [ledger EXCEPT ![k] =
                            [state |-> "intended", nonce |-> proc.nonce, price |-> price,
                             record |-> proc.record, raw |-> NoTx]]
           /\ proc' = Goto("sign")
  <2>1. "sign" \in PCs \ {"reserve", "freeze"}
    BY DEF PCs
  <2>2. proc'.pc \notin {"reserve", "freeze"}
    BY <1>3, <2>1, MovedOn
  <2>3. /\ ledger'[k].state = "intended" /\ ledger'[k].nonce = proc.nonce
        /\ ledger'[k].record = proc.record
        /\ \A a \in Actions : a # k => ledger'[a] = ledger[a]
    BY <1>0, <1>3 DEF LedgerInv, TypeOK
  <2>4. /\ \A a \in Actions : a # k => (Root(a)' <=> Root(a))
        /\ Root(k)' <=> proc.stage = 1
        /\ \A a \in Actions : Root(a) => a # k
    <3>1. \A a \in Actions : (Root(a)' <=> a[2] = 1 /\ ledger'[a].state # "absent")
      BY DEF Root, Stored
    <3> QED BY <1>0, <3>1, <2>3 DEF Root, Stored
  <2>5. ASSUME NEW n \in Nat, Filled(n) PROVE Filled(n)'
    BY <2>3, <2>4, <2>5 DEF Filled
  <2>6. RootsInOrder'
    <3>1. ASSUME NEW a \in Actions, Root(a)' PROVE Filled(ledger[a].record)'
      <4>1. CASE a = k
        BY <1>0, <2>3, <2>4, <2>5, <3>1, <4>1 DEF RootInv, RootInHand
      <4>2. CASE a # k
        BY <2>3, <2>4, <2>5, <3>1, <4>2, RootFacts DEF RootInv, RootsInOrder
      <4> QED BY <4>1, <4>2
    <3>2. ASSUME NEW a \in Actions, NEW b \in Actions, Root(a)', Root(b)',
                 ledger'[a].nonce < ledger'[b].nonce
          PROVE  ledger'[a].record < ledger'[b].record
      <4>1. CASE a = k /\ b = k
        BY <1>0, <2>3, <3>2, <4>1
      <4>2. CASE a = k /\ b # k
        <5>1. proc.stage = 1 /\ Root(b) /\ proc.nonce < ledger[b].nonce
          BY <2>3, <2>4, <3>2, <4>2
        <5> QED BY <1>0, <5>1, RootFacts DEF RootInv, RootInHand
      <4>3. CASE a # k /\ b = k
        <5>1. proc.stage = 1 /\ Root(a)
          BY <2>4, <3>2, <4>3
        <5> QED BY <1>0, <2>3, <4>3, <5>1 DEF RootInv, RootInHand
      <4>4. CASE a # k /\ b # k
        <5>1. Root(a) /\ Root(b) /\ ledger'[a] = ledger[a] /\ ledger'[b] = ledger[b]
          BY <2>3, <2>4, <3>2, <4>4
        <5> QED BY <3>2, <5>1 DEF RootInv, RootsInOrder
      <4> QED BY <4>1, <4>2, <4>3, <4>4
    <3> QED BY <3>1, <3>2 DEF RootsInOrder
  <2>7. RootsOnChain'
    <3>1. ASSUME NEW i \in DOMAIN records, NEW b, b = records[i]
          PROVE  /\ Root(b)' /\ ledger'[b].record = i - 1
                 /\ ledger'[b].nonce < chainNonce[RootAccount]
      <4>1. b \in Actions
        BY <3>1, RootFacts
      <4>2. Root(b) /\ ledger[b].record = i - 1 /\ ledger[b].nonce < chainNonce[RootAccount]
        BY <3>1 DEF RootInv, RootsOnChain
      <4>3. Root(b)' /\ ledger'[b] = ledger[b]
        BY <2>3, <2>4, <4>1, <4>2
      <4> QED BY <4>2, <4>3
    <3>2. ASSUME NEW b \in Actions, Root(b)', ledger'[b].nonce < chainNonce[RootAccount]
          PROVE  \E i \in DOMAIN records : records[i] = b
      <4>1. CASE b = k
        <5>1. proc.stage = 1 /\ ledger'[b].nonce = proc.nonce
          BY <2>3, <2>4, <3>2, <4>1
        <5>2. proc.nonce >= chainNonce[RootAccount]
          BY <1>0, <5>1 DEF RootInv, RootInHand
        <5> QED BY <1>0, <3>2, <5>1, <5>2, RootFacts
      <4>2. CASE b # k
        BY <2>3, <2>4, <3>2, <4>2 DEF RootInv, RootsOnChain
      <4> QED BY <4>1, <4>2
    <3>3. RootAccount' = RootAccount
      BY DEF RootAccount
    <3> QED BY <1>1, <3>1, <3>2, <3>3 DEF RootsOnChain
  <2>8. RootInHand'
    BY <1>1, <2>2 DEF RootInv, RootInHand, RootAccount
  <2> QED BY <2>6, <2>7, <2>8 DEF RootInv
<1> QED BY <1>k, <1>2, <1>3 DEF freezeIntent

(* The chain passes a nonce: if it is a root's, that root is the next one  *)
(* of the gateway's records.                                               *)
LEMMA RootMineStep ==
    ASSUME 1 \notin MayRevert, LedgerInv, RootInv, NEW tx \in pool, Mine(tx)
    PROVE  RootInv'
<1> USE LedgerConstants DEF durable
<1> DEFINE a == tx.action
           k == Len(records)
           N == chainNonce[RootAccount]
<1>1. UNCHANGED <<ledger, nonceNext, proc>>
  BY DEF Mine
<1>2. /\ a \in Actions /\ Stored(a) /\ tx.nonce = ledger[a].nonce
      /\ tx.nonce = chainNonce[Account(a)]
  <2>1. tx \in Tx /\ tx \in spool
    BY DEF LedgerInv, TypeOK, BroadcastIsDurable
  <2>2. Stored(a) /\ tx = Signed(a) /\ a \in Actions
    BY <2>1 DEF LedgerInv, SpoolOK, Tx
  <2>3. Signed(a).nonce = ledger[a].nonce
    BY DEF Signed
  <2> QED BY <2>2, <2>3 DEF Mine
<1>3. chainNonce' = [chainNonce EXCEPT ![Account(a)] = @ + 1]
  BY DEF Mine
<1>4. records' = IF a[2] = 1 THEN Append(records, a) ELSE records
  <2>1. PICK ok \in {TRUE} \cup (IF a[2] \in MayRevert THEN {FALSE} ELSE {}) :
           records' = IF ok /\ a[2] = 1 THEN Append(records, a) ELSE records
    BY DEF Mine
  <2>2. a[2] = 1 => ok = TRUE
    BY <2>1
  <2> QED BY <2>1, <2>2
<1> HIDE DEF a
<1>5. \A b \in Actions : Root(b)' <=> Root(b)
  BY <1>1 DEF Root, Stored
<1>6. \A m \in Nat : Filled(m)' <=> Filled(m)
  BY <1>1 DEF Filled, Root, Stored
<1>7. RootsInOrder'
  BY <1>1, <1>5, <1>6, RootFacts DEF RootInv, RootsInOrder
<1>8. /\ N \in Nat /\ k \in Nat /\ RootAccount \in Accounts /\ RootAccount' = RootAccount
      /\ \A b \in Actions : /\ ledger[b].nonce \in Nat /\ ledger[b].record \in Nat
                            /\ b[2] = 1 => Account(b) = RootAccount
  BY RootFacts DEF RootAccount
<1>9. \/ Account(a) = RootAccount /\ chainNonce'[RootAccount] = N + 1
      \/ Account(a) # RootAccount /\ chainNonce'[RootAccount] = N
  BY <1>3, <1>8 DEF LedgerInv, TypeOK
<1>10. ASSUME Account(a) = RootAccount, NEW b \in Actions, Root(b), ledger[b].nonce = N
       PROVE  a = b
  BY <1>2, <1>8, <1>10 DEF Root, LedgerInv, NoncesOK, NonceSpentOnce
<1>11. ASSUME a[2] = 1 PROVE Root(a) /\ Account(a) = RootAccount /\ ledger[a].nonce = N
  BY <1>2, <1>8, <1>11 DEF Root
<1>12. ASSUME a[2] = 1 PROVE ledger[a].record = k
  <2>1. Root(a) /\ ledger[a].nonce = N /\ ledger[a].record \in Nat
    BY <1>2, <1>8, <1>11, <1>12
  <2>2. CASE ledger[a].record < k
    <3> DEFINE i == ledger[a].record + 1
    <3>1. i \in DOMAIN records /\ records[i] \in Actions
      BY <2>1, <2>2, <1>8, RootFacts
    <3>2. Root(records[i]) /\ ledger[records[i]].record = i - 1 /\ ledger[records[i]].nonce < N
      BY <3>1 DEF RootInv, RootsOnChain
    <3>3. ledger[records[i]].record < ledger[a].record
      BY <1>2, <2>1, <3>1, <3>2 DEF RootInv, RootsInOrder
    <3> QED BY <2>1, <3>2, <3>3
  <2>3. CASE ledger[a].record > k
    <3>1. PICK b \in Actions : Root(b) /\ ledger[b].record = k
      <4>1. k \in 0..(ledger[a].record - 1)
        BY <1>8, <2>1, <2>3
      <4>2. Filled(ledger[a].record)
        BY <1>2, <2>1 DEF RootInv, RootsInOrder
      <4> HIDE DEF k
      <4> QED BY <4>1, <4>2 DEF Filled
    <3>2. ledger[b].nonce < N
      BY <1>2, <1>8, <2>1, <2>3, <3>1, RootsDiffer DEF RootInv, RootsInOrder
    <3>3. PICK i \in DOMAIN records : records[i] = b
      BY <3>1, <3>2 DEF RootInv, RootsOnChain
    <3>4. ledger[b].record = i - 1 /\ i \in 1..k
      BY <3>3, RootFacts DEF RootInv, RootsOnChain
    <3> QED BY <3>1, <3>4, <1>8
  <2> QED BY <2>1, <2>2, <2>3, <1>8
<1>13. RootsOnChain'
  <2>1. CASE a[2] = 1
    <3>1. /\ DOMAIN records' = 1..(k + 1) /\ records'[k + 1] = a
          /\ \A i \in 1..k : records'[i] = records[i] /\ records[i] \in Actions /\ i \in DOMAIN records
      BY <1>2, <1>4, <2>1, RootFacts
    <3>2. chainNonce'[RootAccount] = N + 1
      BY <1>9, <1>11, <2>1
    <3>3. ASSUME NEW i \in DOMAIN records', NEW b, b = records'[i]
          PROVE  /\ b \in Actions /\ Root(b) /\ ledger[b].record = i - 1
                 /\ ledger[b].nonce < N + 1
      <4>1. CASE i = k + 1
        <5>1. Root(a) /\ ledger[a].record = k /\ ledger[a].nonce = N
          BY <1>11, <1>12, <2>1
        <5>2. b = a
          BY <3>1, <3>3, <4>1
        <5> QED BY <1>2, <1>8, <4>1, <5>1, <5>2
      <4>2. CASE i # k + 1
        <5>1. i \in 1..k
          BY <1>8, <3>1, <3>3, <4>2
        <5>2. b \in Actions /\ records[i] = b /\ i \in DOMAIN records
          BY <3>1, <3>3, <5>1
        <5>3. Root(b) /\ ledger[b].record = i - 1 /\ ledger[b].nonce < N
          BY <5>2 DEF RootInv, RootsOnChain
        <5> QED BY <1>8, <5>2, <5>3
      <4> QED BY <4>1, <4>2
    <3>4. ASSUME NEW b \in Actions, Root(b), ledger[b].nonce < N + 1
          PROVE  \E i \in DOMAIN records' : records'[i] = b
      <4>1. CASE ledger[b].nonce = N
        BY <1>8, <1>10, <1>11, <2>1, <3>1, <3>4, <4>1
      <4>2. CASE ledger[b].nonce # N
        <5>1. ledger[b].nonce < N
          BY <1>8, <3>4, <4>2
        <5>2. PICK i \in DOMAIN records : records[i] = b
          BY <3>4, <5>1 DEF RootInv, RootsOnChain
        <5>3. i \in 1..k
          BY <5>2, RootFacts
        <5> QED BY <1>8, <3>1, <5>2, <5>3
      <4> QED BY <4>1, <4>2
    <3>5. \A i \in DOMAIN records' :
             /\ Root(records[i])' /\ ledger'[records'[i]].record = i - 1
             /\ ledger'[records'[i]].nonce < chainNonce'[RootAccount]
      BY <1>1, <1>5, <3>2, <3>3
    <3>6. \A b \in Actions : Root(b)' /\ ledger'[b].nonce < chainNonce'[RootAccount]
             => \E i \in DOMAIN records' : records'[i] = b
      BY <1>1, <1>5, <3>2, <3>4
    <3> QED BY <1>8, <3>5, <3>6 DEF RootsOnChain
  <2>2. CASE a[2] # 1
    <3>1. records' = records
      BY <1>4, <2>2
    <3>2. ASSUME NEW b \in Actions, Root(b), ledger[b].nonce < chainNonce'[RootAccount]
          PROVE  ledger[b].nonce < N
      <4>1. CASE ledger[b].nonce = N
        <5>1. Account(a) = RootAccount
          BY <1>9, <3>2, <4>1, <1>8
        <5>2. a = b
          BY <1>10, <3>2, <4>1, <5>1
        <5> QED BY <2>2, <3>2, <5>2 DEF Root
      <4>2. CASE ledger[b].nonce # N
        BY <1>8, <1>9, <3>2, <4>2
      <4> QED BY <4>1, <4>2
    <3>3. \A i \in DOMAIN records : records[i] \in Actions
      BY RootFacts
    <3>4. N <= chainNonce'[RootAccount] /\ chainNonce'[RootAccount] \in Nat
      BY <1>8, <1>9
    <3>5. \A i \in DOMAIN records' :
             /\ Root(records[i])' /\ ledger'[records'[i]].record = i - 1
             /\ ledger'[records'[i]].nonce < chainNonce'[RootAccount]
      <4>1. ASSUME NEW i \in DOMAIN records
            PROVE  /\ Root(records[i]) /\ ledger[records[i]].record = i - 1
                   /\ ledger[records[i]].nonce < chainNonce'[RootAccount]
        BY <1>8, <3>3, <3>4 DEF RootInv, RootsOnChain
      <4> QED BY <1>1, <1>5, <3>1, <3>3, <4>1
    <3>6. \A b \in Actions : Root(b)' /\ ledger'[b].nonce < chainNonce'[RootAccount]
             => \E i \in DOMAIN records' : records'[i] = b
      BY <1>1, <1>5, <3>1, <3>2 DEF RootInv, RootsOnChain
    <3> QED BY <1>8, <3>5, <3>6 DEF RootsOnChain
  <2> QED BY <2>1, <2>2
<1>14. RootInHand'
  <2>1. nonceNext[RootAccount] = Unseeded \/ nonceNext[RootAccount] >= chainNonce'[RootAccount]
    <3>1. nonceNext[RootAccount] = Unseeded \/ nonceNext[RootAccount] >= N
      BY DEF RootInv, RootInHand
    <3>2. Account(a) = RootAccount => nonceNext[RootAccount] = Unseeded \/ N < nonceNext[RootAccount]
      BY <1>2 DEF LedgerInv, NoncesOK
    <3> QED BY <1>8, <1>9, <3>1, <3>2, RootFacts
  <2>2. ASSUME proc.pc = "freeze", proc.stage = 1 PROVE proc.nonce >= chainNonce'[RootAccount]
    <3>1. Current \in Actions /\ Account(Current) = RootAccount /\ proc.nonce \in Nat /\ proc.nonce >= N
      BY <2>2, CurrentIsAction, RootFacts DEF RootInv, RootInHand
    <3>2. CASE Account(a) = RootAccount
      <4>1. N \in AccountNonces(RootAccount)
        BY <1>2, <3>2 DEF AccountNonces
      <4>2. proc.nonce # N
        BY <2>2, <3>1, <4>1 DEF LedgerInv, NoncesOK, NonceSpentOnce
      <4> QED BY <1>8, <1>9, <3>1, <3>2, <4>2
    <3>3. CASE Account(a) # RootAccount
      BY <1>9, <3>1, <3>3
    <3> QED BY <3>2, <3>3
  <2>3. proc.record \in Nat
    BY RootFacts
  <2> QED BY <1>1, <1>5, <1>6, <1>8, <2>1, <2>2, <2>3 DEF RootInv, RootInHand
<1> QED BY <1>7, <1>13, <1>14 DEF RootInv

(* No root at first. *)
LEMMA RootInit == ASSUME Init PROVE RootInv
<1>1. \A a \in Actions : ~Root(a)
  BY DEF Init, Root, Stored, NoRow
<1>2. records = <<>> /\ proc.pc = "stopped"
  BY DEF Init, Stopped
<1>3. nonceNext[RootAccount] = Unseeded
  BY LedgerConstants DEF Init, RootAccount
<1> QED BY <1>1, <1>2, <1>3 DEF RootInv, RootsInOrder, RootsOnChain, RootInHand

(* Every step keeps the order of the roots. *)
LEMMA RootStep ==
    ASSUME 1 \notin MayRevert, LedgerInv, RootInv, [Next]_vars
    PROVE  RootInv'
<1> USE DEF durable, node
<1>0. /\ "stage" \in PCs \ {"reserve", "freeze"} /\ "verify" \in PCs \ {"reserve", "freeze"}
      /\ "sign" \in PCs \ {"reserve", "freeze"} /\ "check" \in PCs \ {"reserve", "freeze"}
      /\ "send" \in PCs \ {"reserve", "freeze"} /\ "submitted" \in PCs \ {"reserve", "freeze"}
      /\ "await" \in PCs \ {"reserve", "freeze"} /\ "receipt" \in PCs \ {"reserve", "freeze"}
      /\ "close" \in PCs \ {"reserve", "freeze"} /\ "finish" \in PCs \ {"reserve", "freeze"}
      /\ "complete" \in PCs \ {"reserve", "freeze"}
  BY DEF PCs
<1>1. CASE StartRun \/ EndRun \/ Crash
  <2>1. proc'.pc \notin {"reserve", "freeze"}
    BY <1>1 DEF StartRun, EndRun, Crash, Stopped
  <2> QED BY <1>1, <2>1, RootQuiet DEF StartRun, EndRun, Crash
<1>2. CASE BeginAttempt
  <2>1. proc'.pc \notin {"reserve", "freeze"}
    BY <1>2, ProcFacts DEF BeginAttempt, NextAttempt
  <2> QED BY <1>2, <2>1, RootQuiet DEF BeginAttempt
<1>3. CASE LoadFresh
  BY <1>3, RootLoadStep
<1>4. CASE LoadRefused \/ LoadSucceeded
  <2>1. proc'.pc \notin {"reserve", "freeze"}
    BY <1>0, <1>4, MovedOn DEF LoadRefused, LoadSucceeded
  <2> QED BY <1>4, <2>1, RootQuiet DEF LoadRefused, LoadSucceeded
<1>5. CASE LoadPending
  <2>1. proc'.pc \notin {"reserve", "freeze"}
    BY <1>5, ProcFacts DEF LoadPending, Goto
  <2> QED BY <1>5, <2>1, RootQuiet DEF LoadPending
<1>6. CASE reserveNonce
  BY <1>6, RootReserveStep
<1>7. CASE freezeIntent
  BY <1>7, RootFreezeStep
<1>8. CASE SpoolSigned
  <2>1. proc'.pc \notin {"reserve", "freeze"}
    BY <1>8, ProcFacts DEF SpoolSigned
  <2> QED BY <1>8, <2>1, RootQuiet DEF SpoolSigned
<1>9. CASE RecordSigned
  <2>1. Stored(Current) /\ "signed" \in States \ {"absent"}
    BY <1>9 DEF RecordSigned, LedgerInv, ProcOK, Stored, States
  <2>2. proc'.pc \notin {"reserve", "freeze"}
    BY <1>0, <1>9, MovedOn DEF RecordSigned
  <2>3. CASE ledger' = [ledger EXCEPT ![Current].state = "signed", ![Current].raw = proc.tx]
    BY <1>9, <2>1, <2>2, <2>3, RootUpdate DEF RecordSigned
  <2>4. CASE UNCHANGED ledger
    BY <1>9, <2>2, <2>4, RootQuiet DEF RecordSigned
  <2> QED BY <1>9, <2>3, <2>4 DEF RecordSigned
<1>10. CASE CheckReceipt \/ ObserveSubmitted \/ CloseAction
  <2>1. Stored(Current) /\ proc.pc \notin {"stopped", "begin"}
    BY <1>10 DEF CheckReceipt, ObserveSubmitted, CloseAction, LedgerInv, ProcOK, Stored
  <2>2. /\ UNCHANGED <<nonceNext, chainNonce, records>>
        /\ \/ UNCHANGED ledger
           \/ \E st \in {"submitted", "succeeded", "failed"} :
                 ledger' = [ledger EXCEPT ![Current].state = st]
    BY <1>10 DEF CheckReceipt, ObserveSubmitted, CloseAction, Observe
  <2>3. proc'.pc \notin {"reserve", "freeze"}
    <3>1. \E pc \in PCs \ {"reserve", "freeze"} : proc' \in {NextAttempt, Stopped, Goto(pc)}
      BY <1>0, <1>10 DEF CheckReceipt, ObserveSubmitted, CloseAction, Observe
    <3> QED BY <3>1, MovedOn
  <2>4. CASE UNCHANGED ledger
    BY <2>2, <2>3, <2>4, RootQuiet
  <2>5. ASSUME NEW st \in {"submitted", "succeeded", "failed"},
               ledger' = [ledger EXCEPT ![Current].state = st]
        PROVE  RootInv'
    <3>1. st \in States \ {"absent"}
      BY DEF States
    <3> QED BY <2>1, <2>2, <2>3, <2>5, <3>1, RootUpdate
  <2> QED BY <2>2, <2>4, <2>5
<1>11. CASE broadcast \/ awaitReceipt \/ spoolReceipt
  <2>1. proc'.pc \notin {"reserve", "freeze"}
    BY <1>0, <1>11, MovedOn DEF broadcast, awaitReceipt, spoolReceipt
  <2> QED BY <1>11, <2>1, RootQuiet DEF broadcast, awaitReceipt, spoolReceipt
<1>12. CASE VerifyStage
  <2>1. proc'.pc \notin {"reserve", "freeze"}
    BY <1>12, ProcFacts DEF VerifyStage, NextAttempt, Goto
  <2> QED BY <1>12, <2>1, RootQuiet DEF VerifyStage
<1>13. CASE FinishAttempt \/ RecordCompleted \/ RpcFailure
  <2>1. proc'.pc \notin {"reserve", "freeze"}
    BY <1>0, <1>13, MovedOn DEF FinishAttempt, RecordCompleted, RpcFailure
  <2> QED BY <1>13, <2>1, RootQuiet DEF FinishAttempt, RecordCompleted, RpcFailure
<1>14. ASSUME NEW tx \in pool, Mine(tx) PROVE RootInv'
  BY <1>14, RootMineStep
<1>15. CASE (\E tx \in pool : Drop(tx)) \/ Reprice \/ UNCHANGED vars
  <2>1. UNCHANGED <<ledger, chainNonce, records, nonceNext, proc>>
    BY <1>15 DEF Drop, Reprice, vars
  <2>2. \A m \in Nat : Filled(m)' <=> Filled(m)
    BY <2>1 DEF Filled, Root, Stored
  <2>3. \A a : Root(a)' <=> Root(a)
    BY <2>1 DEF Root, Stored
  <2> QED BY <2>1, <2>2, <2>3, RootFacts
          DEF RootInv, RootsInOrder, RootsOnChain, RootInHand, RootAccount
<1> QED
  BY <1>1, <1>2, <1>3, <1>4, <1>5, <1>6, <1>7, <1>8, <1>9, <1>10, <1>11, <1>12, <1>13, <1>14, <1>15
     DEF Next, ProcessStep

(* The record nonce a root creation froze is the one the gateway gives it, *)
(* in any run in which root creations do not revert: intents frozen before *)
(* a crash, or stuck behind another, keep their place (rootNonce,          *)
(* NextReservedRootNonce, reserveNonce).                                   *)
THEOREM RootNonceKept ==
    ASSUME 1 \notin MayRevert
    PROVE  Spec => []RootNonceAgrees
<1>1. Init => RootInv
  BY RootInit
<1>2. LedgerInv /\ RootInv /\ [Next]_vars => RootInv'
  BY RootStep
<1>3. RootInv => RootNonceAgrees
  BY DEF RootInv, RootsOnChain, RootNonceAgrees
<1> QED BY <1>1, <1>2, <1>3, LedgerInvariant, PTL DEF Spec
=============================================================================
