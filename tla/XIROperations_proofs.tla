------------------------ MODULE XIROperations_proofs ------------------------
(***************************************************************************)
(* Proofs about XIROperations for every deployment and configuration plan, *)
(* every set of executors and every number of faults, and about            *)
(* XIRApprovals for all approvals, callers, files and edits.               *)
(***************************************************************************)
EXTENDS XIROperations, XIRApprovals, FiniteSetTheorems, TLAPS

(* What the account did on a chain: a transaction sits at the place of its *)
(* nonce, and its bytes are in the spool.                                  *)
Blocks == [tx : {0} \cup Txs, status : {0, 1}]

ChainTyped ==
  /\ chain \in [PlannedChains -> Seq(Blocks)] /\ final \in [PlannedChains -> Nat]
  /\ \A c \in PlannedChains : final[c] <= Len(chain[c])

ChainPlaced ==
  \A c \in PlannedChains : \A i \in 1..Len(chain[c]) : chain[c][i].tx # 0 =>
    /\ chain[c][i].tx \in spool /\ ChainOf(chain[c][i].tx) = c
    /\ i = Nonce(chain[c][i].tx) + 1

(* A transaction succeeded in a final block, at the place of its nonce.    *)
Good(t) ==
  /\ Nonce(t) + 1 <= final[ChainOf(t)]
  /\ chain[ChainOf(t)][Nonce(t) + 1] = [tx |-> t, status |-> 1]

AsPredicted(t) == Creates(t) => CreateAddress(account, t) = Predicted(t)

(* The earlier transactions of the batch succeeded in final blocks.        *)
Earned(t) == \A u \in BatchOf(OpOf(t)) : u < t => Good(u)

(* Only what is earned is ever signed; nodes and chains hold nothing else. *)
SpoolInv ==
  /\ spool \subseteq Txs /\ pool \subseteq spool /\ lost \subseteq spool
  /\ \A t \in spool : Earned(t)

(* A journal, or a copy of one, however old: what it says was sent was     *)
(* signed, and what it says is final is final.                             *)
DocTrue(doc) ==
  \A t \in Txs :
    /\ doc[t].state # "planned" => t \in spool
    /\ doc[t].state = "finalized" => Good(t) /\ AsPredicted(t)

Stages == {"idle", "sign", "reference", "send", "broadcast", "answer", "nonce", "blocked",
           "included", "finalized"}

ProcTrue(p) ==
  \/ p = Idle
  \/ /\ p \in [at : Stages \ {"idle"}, tx : Txs, doc : Doc, taken : BOOLEAN]
     /\ DocTrue(p.doc)
     /\ p.at = "sign" => Earned(p.tx)
     /\ p.at # "sign" => p.tx \in spool
     /\ p.at = "finalized" => Good(p.tx) /\ AsPredicted(p.tx)

WorkInv ==
  /\ journal \in Doc /\ DocTrue(journal)
  /\ DOMAIN proc = Executors /\ \A e \in Executors : ProcTrue(proc[e])

OrderInv == ChainTyped /\ ChainPlaced /\ SpoolInv /\ WorkInv

OtherTypes ==
  opened \subseteq Ops /\ identity \in {"none", "pass", "blocked"} /\ faults \in 0..MaxFaults

-----------------------------------------------------------------------------
(* Facts about the plans.                                                  *)

(* Every transaction has a chain and a nonce.                              *)
LEMMA PlanFacts ==
  ASSUME NEW t \in Txs
  PROVE  t \in Nat /\ t # 0 /\ ChainOf(t) \in PlannedChains /\ Nonce(t) \in Nat
<1>1. t \in Nat /\ t # 0
  BY PlansAssumption DEF Txs
<1>2. Target(t) \in 1..Len(Creations)
  <2>1. CASE t <= Len(Creations)
    BY <1>1, <2>1, PlansAssumption DEF Target, Creates
  <2>2. CASE ~(t <= Len(Creations))
    <3>1. t - Len(Creations) \in 1..Len(Settings)
      BY <1>1, <2>2, PlansAssumption DEF Txs
    <3> QED
      BY <2>2, <3>1, PlansAssumption DEF Target, Creates
  <2> QED
    BY <2>1, <2>2
<1>3. ChainOf(t) \in PlannedChains
  BY <1>2, PlansAssumption DEF ChainOf, PlannedChains
<1>4. Nonce(t) \in Nat
  <2>1. IsFiniteSet(1..(t - 1))
    BY <1>1, FS_Interval
  <2>2. IsFiniteSet({u \in 1..(t - 1) : ChainOf(u) = ChainOf(t)})
    BY <2>1, FS_Subset
  <2> QED
    BY <2>2, FS_CardinalityType DEF Nonce
<1> QED
  BY <1>1, <1>3, <1>4

(* The receipt of a transaction is the block at the place of its nonce.    *)
LEMMA BlockPlace ==
  ASSUME ChainTyped, ChainPlaced, NEW t \in Txs, NEW i \in 1..Len(chain[ChainOf(t)]),
         chain[ChainOf(t)][i].tx = t
  PROVE  i = Nonce(t) + 1 /\ BlockOf(t) = chain[ChainOf(t)][i]
<1> DEFINE c == ChainOf(t)
<1> DEFINE S == {chain[c][j] : j \in DOMAIN chain[c]}
<1>1. c \in PlannedChains /\ t # 0 /\ DOMAIN chain[c] = 1..Len(chain[c])
  BY PlanFacts DEF ChainTyped
<1>2. \A j \in 1..Len(chain[c]) : chain[c][j].tx = t => j = Nonce(t) + 1
  BY <1>1 DEF ChainPlaced
<1>3. \A b \in S : b.tx = t => b = chain[c][i]
  BY <1>1, <1>2
<1>4. chain[c][i] \in S /\ chain[c][i].tx = t
  BY <1>1
<1>5. BlockOf(t) = CHOOSE b \in S : b.tx = t
  BY DEF BlockOf
<1>6. BlockOf(t) = chain[c][i]
  <2> HIDE DEF S, c
  <2> QED
    BY <1>3, <1>4, <1>5
<1> QED
  BY <1>2, <1>6

(* What is good is final and succeeded.                                    *)
LEMMA GoodIsFinal ==
  ASSUME ChainTyped, ChainPlaced, NEW t \in Txs, Good(t)
  PROVE  Final(t) /\ BlockOf(t).status = 1
<1> DEFINE c == ChainOf(t)
<1>1. c \in PlannedChains /\ Nonce(t) \in Nat /\ final[c] \in Nat /\ final[c] <= Len(chain[c])
      /\ Len(chain[c]) \in Nat
  BY PlanFacts DEF ChainTyped
<1>2. Nonce(t) + 1 \in 1..final[c] /\ Nonce(t) + 1 \in 1..Len(chain[c])
  BY <1>1 DEF Good
<1>3. chain[c][Nonce(t) + 1] = [tx |-> t, status |-> 1]
  BY DEF Good
<1>4. chain[c][Nonce(t) + 1].tx = t /\ chain[c][Nonce(t) + 1].status = 1
  BY <1>3
<1>5. BlockOf(t) = chain[c][Nonce(t) + 1]
  BY <1>2, <1>4, BlockPlace
<1> QED
  BY <1>2, <1>4, <1>5 DEF Final

(* What is final and succeeded is good.                                    *)
LEMMA FinalIsGood ==
  ASSUME ChainTyped, ChainPlaced, NEW t \in Txs, Final(t), BlockOf(t).status = 1
  PROVE  Good(t)
<1> DEFINE c == ChainOf(t)
<1>1. c \in PlannedChains /\ final[c] \in Nat /\ final[c] <= Len(chain[c]) /\ chain[c] \in Seq(Blocks)
  BY PlanFacts DEF ChainTyped
<1>2. PICK i \in 1..final[c] : chain[c][i].tx = t
  BY DEF Final
<1>3. i \in 1..Len(chain[c])
  BY <1>1
<1>4. i = Nonce(t) + 1 /\ BlockOf(t) = chain[c][i]
  BY <1>2, <1>3, BlockPlace
<1>5. chain[c][i] \in Blocks
  BY <1>1, <1>3
<1>6. chain[c][i] = [tx |-> t, status |-> 1]
  BY <1>2, <1>4, <1>5 DEF Blocks
<1> QED
  BY <1>2, <1>4, <1>6, <1>1 DEF Good
-----------------------------------------------------------------------------
(* What a step keeps.                                                      *)

Kept ==
  /\ spool \subseteq spool' /\ account' = account
  /\ \A t \in Txs : Good(t) => Good(t)'

(* Final blocks stay where they are.                                       *)
LEMMA GoodKept ==
  ASSUME ChainTyped,
         \A c \in PlannedChains : /\ final'[c] \in Nat /\ final[c] <= final'[c]
                           /\ \A i \in 1..final[c] : chain'[c][i] = chain[c][i]
  PROVE  \A t \in Txs : Good(t) => Good(t)'
<1> SUFFICES ASSUME NEW t \in Txs, Good(t) PROVE Good(t)'
  OBVIOUS
<1> DEFINE c == ChainOf(t)
<1>1. c \in PlannedChains /\ Nonce(t) \in Nat /\ final[c] \in Nat /\ final'[c] \in Nat /\ final[c] <= final'[c]
  BY PlanFacts DEF ChainTyped
<1>2. Nonce(t) + 1 <= final[c] /\ chain[c][Nonce(t) + 1] = [tx |-> t, status |-> 1]
  BY DEF Good
<1>3. Nonce(t) + 1 \in 1..final[c]
  BY <1>1, <1>2
<1>4. chain'[c][Nonce(t) + 1] = [tx |-> t, status |-> 1] /\ Nonce(t) + 1 <= final'[c]
  BY <1>1, <1>2, <1>3
<1> QED
  BY <1>4 DEF Good

(* What was earned stays earned.                                           *)
LEMMA EarnedKept ==
  ASSUME Kept, NEW t \in Txs, Earned(t)
  PROVE  Earned(t)'
BY DEF Kept, Earned, BatchOf

(* A copy of the journal ages well.                                        *)
LEMMA DocKept ==
  ASSUME Kept, NEW doc, DocTrue(doc)
  PROVE  DocTrue(doc)'
BY DEF Kept, DocTrue, AsPredicted

(* An executor that does nothing keeps what it holds.                      *)
LEMMA ProcKept ==
  ASSUME Kept, NEW p, ProcTrue(p)
  PROVE  ProcTrue(p)'
<1>1. CASE p = Idle
  BY <1>1 DEF ProcTrue
<1>2. CASE p # Idle
  <2>1. p.tx \in Txs /\ DocTrue(p.doc)
    BY <1>2 DEF ProcTrue
  <2>2. DocTrue(p.doc)'
    BY <2>1, DocKept
  <2>3. Earned(p.tx) => Earned(p.tx)'
    BY <2>1, EarnedKept
  <2>4. Good(p.tx) /\ AsPredicted(p.tx) => Good(p.tx)' /\ AsPredicted(p.tx)'
    BY <2>1 DEF Kept, AsPredicted
  <2>5. p.tx \in spool => p.tx \in spool'
    BY DEF Kept
  <2> QED
    BY <1>2, <2>2, <2>3, <2>4, <2>5 DEF ProcTrue
<1> QED
  BY <1>1, <1>2

(* A step of the chains leaves the executors' facts alone.                 *)
LEMMA WorkFrame ==
  ASSUME WorkInv, Kept, UNCHANGED <<journal, proc>>
  PROVE  WorkInv'
<1>1. journal' \in Doc /\ DOMAIN proc' = Executors
  BY DEF WorkInv
<1>2. DocTrue(journal)'
  <2>1. DocTrue(journal)
    BY DEF WorkInv
  <2> QED
    BY <2>1 DEF DocTrue, Kept, AsPredicted
<1>3. ASSUME NEW e \in Executors PROVE ProcTrue(proc[e])'
  <2>1. PICK p : p = proc[e]
    OBVIOUS
  <2>2. ProcTrue(p)
    BY <2>1 DEF WorkInv
  <2>3. ProcTrue(p)'
    BY <2>2, ProcKept
  <2>4. proc'[e] = p
    BY <2>1
  <2> QED
    BY <2>3, <2>4 DEF ProcTrue
<1> QED
  BY <1>1, <1>2, <1>3 DEF WorkInv
-----------------------------------------------------------------------------
(* The chains' own steps.                                                  *)

FinalStays ==
  \A c \in PlannedChains : /\ final'[c] \in Nat /\ final[c] <= final'[c]
                    /\ \A i \in 1..final[c] : chain'[c][i] = chain[c][i]

(* A step of the chains that moves no final block keeps the order.         *)
LEMMA ChainChange ==
  ASSUME OrderInv, UNCHANGED <<journal, spool, proc, account>>, FinalStays,
         ChainTyped', ChainPlaced', pool' \subseteq spool, lost' \subseteq spool
  PROVE  OrderInv'
<1>1. Kept
  <2>1. \A t \in Txs : Good(t) => Good(t)'
    BY GoodKept DEF OrderInv, FinalStays
  <2> QED
    BY <2>1 DEF Kept
<1>2. WorkInv'
  BY <1>1, WorkFrame DEF OrderInv
<1>3. SpoolInv'
  <2>1. \A t \in spool : Earned(t)'
    BY <1>1, EarnedKept DEF OrderInv, SpoolInv
  <2> QED
    BY <2>1 DEF OrderInv, SpoolInv
<1> QED
  BY <1>2, <1>3 DEF OrderInv

(* A chain grows by a block at the place of its transaction's nonce.       *)
LEMMA AppendBlock ==
  ASSUME ChainTyped, ChainPlaced, NEW c \in PlannedChains, NEW b \in Blocks,
         b.tx # 0 => b.tx \in spool /\ ChainOf(b.tx) = c /\ Nonce(b.tx) = Len(chain[c]),
         chain' = [chain EXCEPT ![c] = Append(@, b)], final' = final, spool' = spool
  PROVE  ChainTyped' /\ ChainPlaced' /\ FinalStays
<1>1. chain[c] \in Seq(Blocks) /\ chain \in [PlannedChains -> Seq(Blocks)] /\ final \in [PlannedChains -> Nat]
      /\ \A d \in PlannedChains : final[d] <= Len(chain[d])
  BY DEF ChainTyped
<1>2. chain'[c] = Append(chain[c], b) /\ \A d \in PlannedChains : d # c => chain'[d] = chain[d]
  BY <1>1
<1>3. /\ Append(chain[c], b) \in Seq(Blocks)
      /\ Len(chain'[c]) = Len(chain[c]) + 1 /\ chain'[c][Len(chain[c]) + 1] = b
      /\ \A i \in 1..Len(chain[c]) : chain'[c][i] = chain[c][i]
  BY <1>1, <1>2
<1>4. chain' \in [PlannedChains -> Seq(Blocks)]
  BY <1>1, <1>3
<1>5. \A d \in PlannedChains : Len(chain[d]) \in Nat /\ Len(chain[d]) <= Len(chain'[d])
                        /\ Len(chain'[d]) \in Nat
  BY <1>1, <1>2, <1>3
<1>6. ChainTyped'
  <2>1. \A d \in PlannedChains : final'[d] <= Len(chain'[d])
    BY <1>1, <1>5
  <2> QED
    BY <1>1, <1>4, <2>1 DEF ChainTyped
<1>7. ChainPlaced'
  <2> SUFFICES ASSUME NEW d \in PlannedChains, NEW i \in 1..Len(chain'[d]), chain'[d][i].tx # 0
               PROVE  /\ chain'[d][i].tx \in spool' /\ ChainOf(chain'[d][i].tx) = d
                      /\ i = Nonce(chain'[d][i].tx) + 1
    BY DEF ChainPlaced
  <2>1. CASE d = c /\ i = Len(chain[c]) + 1
    BY <1>3, <2>1
  <2>2. CASE d # c
    BY <1>2, <2>2 DEF ChainPlaced
  <2>3. CASE d = c /\ i # Len(chain[c]) + 1
    <3>1. i \in 1..Len(chain[c])
      BY <1>1, <1>3, <2>3
    <3>2. chain'[d][i] = chain[d][i]
      BY <1>3, <2>3, <3>1
    <3> QED
      BY <2>3, <3>1, <3>2 DEF ChainPlaced
  <2> QED
    BY <2>1, <2>2, <2>3
<1>8. FinalStays
  <2> SUFFICES ASSUME NEW d \in PlannedChains, NEW i \in 1..final[d] PROVE chain'[d][i] = chain[d][i]
    BY <1>1 DEF FinalStays
  <2>1. i \in 1..Len(chain[d])
    BY <1>1
  <2> QED
    BY <1>2, <1>3, <2>1
<1> QED
  BY <1>6, <1>7, <1>8

(* A block that is not final may go.                                       *)
LEMMA RemoveBlock ==
  ASSUME ChainTyped, ChainPlaced, NEW c \in PlannedChains, final[c] < Len(chain[c]),
         chain' = [chain EXCEPT ![c] = SubSeq(@, 1, Len(@) - 1)], final' = final, spool' = spool
  PROVE  ChainTyped' /\ ChainPlaced' /\ FinalStays
<1>1. chain[c] \in Seq(Blocks) /\ chain \in [PlannedChains -> Seq(Blocks)] /\ final \in [PlannedChains -> Nat]
      /\ \A d \in PlannedChains : final[d] <= Len(chain[d])
  BY DEF ChainTyped
<1>2. chain'[c] = SubSeq(chain[c], 1, Len(chain[c]) - 1)
      /\ \A d \in PlannedChains : d # c => chain'[d] = chain[d]
  BY <1>1
<1> DEFINE n == Len(chain[c]) - 1
<1>3. n \in Nat /\ n + 1 = Len(chain[c]) /\ final[c] <= n
  BY <1>1
<1>4. /\ chain'[c] \in Seq(Blocks) /\ Len(chain'[c]) = n
      /\ \A i \in 1..n : chain'[c][i] = chain[c][i]
  <2>1. PICK q \in Seq(Blocks) : q = chain[c]
    BY <1>1
  <2>2. Len(q) = n + 1
    BY <1>3, <2>1
  <2> HIDE DEF n
  <2>3. /\ Len(SubSeq(q, 1, n)) = n
        /\ \A i \in 1..n : SubSeq(q, 1, n)[i] = q[i]
    BY <1>3, <2>2
  <2>4. SubSeq(q, 1, n) \in Seq(Blocks)
    BY <1>3, <2>2
  <2>5. chain'[c] = SubSeq(q, 1, n)
    BY <1>2, <2>1 DEF n
  <2> QED
    BY <2>1, <2>3, <2>4, <2>5
<1>5. chain' \in [PlannedChains -> Seq(Blocks)]
  BY <1>1, <1>4
<1>6. ChainTyped'
  <2>1. \A d \in PlannedChains : final'[d] <= Len(chain'[d])
    BY <1>1, <1>2, <1>3, <1>4
  <2> QED
    BY <1>1, <1>5, <2>1 DEF ChainTyped
<1>7. \A d \in PlannedChains : \A i \in 1..Len(chain'[d]) : i \in 1..Len(chain[d]) /\ chain'[d][i] = chain[d][i]
  BY <1>1, <1>2, <1>3, <1>4
<1>8. ChainPlaced'
  BY <1>7 DEF ChainPlaced
<1>9. FinalStays
  <2> SUFFICES ASSUME NEW d \in PlannedChains, NEW i \in 1..final[d] PROVE chain'[d][i] = chain[d][i]
    BY <1>1 DEF FinalStays
  <2>1. final[d] \in Nat /\ final[d] <= Len(chain'[d])
    BY <1>1, <1>6 DEF ChainTyped
  <2>2. Len(chain'[d]) \in Nat
    BY <1>5
  <2>3. i \in 1..Len(chain'[d])
    BY <2>1, <2>2
  <2> QED
    BY <1>7, <2>3
<1> QED
  BY <1>6, <1>8, <1>9

(* A transaction of the pool is mined at its nonce.                        *)
LEMMA MineStep ==
  ASSUME OrderInv, NEW t \in Txs, Mine(t)
  PROVE  OrderInv'
<1>1. t \in spool /\ ChainOf(t) \in PlannedChains /\ pool' \subseteq spool /\ lost' \subseteq spool
  BY PlanFacts DEF OrderInv, SpoolInv, Mine
<1>2. PICK s \in {0, 1} : chain' = [chain EXCEPT ![ChainOf(t)] = Append(@, [tx |-> t, status |-> s])]
  BY DEF Mine
<1>3. [tx |-> t, status |-> s] \in Blocks
  BY DEF Blocks
<1>4. UNCHANGED <<journal, spool, proc, account>> /\ final' = final /\ Nonce(t) = Len(chain[ChainOf(t)])
  BY DEF Mine, outside
<1>5. ChainTyped' /\ ChainPlaced' /\ FinalStays
  <2> DEFINE b == [tx |-> t, status |-> s]
  <2>1. b.tx = t /\ b \in Blocks
    BY <1>3
  <2>2. chain' = [chain EXCEPT ![ChainOf(t)] = Append(@, b)] /\ final' = final /\ spool' = spool
    BY <1>2, <1>4
  <2> HIDE DEF b
  <2> QED
    BY <1>1, <1>4, <2>1, <2>2, AppendBlock DEF OrderInv
<1> QED
  BY <1>1, <1>4, <1>5, ChainChange

(* A block becomes final.                                                  *)
LEMMA FinaliseStep ==
  ASSUME OrderInv, NEW c \in PlannedChains, Finalise(c)
  PROVE  OrderInv'
<1>1. /\ final[c] < Len(chain[c]) /\ final' = [final EXCEPT ![c] = @ + 1]
      /\ UNCHANGED <<journal, spool, proc, account>> /\ chain' = chain /\ pool' = pool /\ lost' = lost
      /\ spool' = spool
  BY DEF Finalise, outside
<1>2. /\ chain \in [PlannedChains -> Seq(Blocks)] /\ final \in [PlannedChains -> Nat]
      /\ \A d \in PlannedChains : final[d] <= Len(chain[d])
  BY DEF OrderInv, ChainTyped
<1>3. final' \in [PlannedChains -> Nat] /\ \A d \in PlannedChains : final'[d] = IF d = c THEN final[c] + 1 ELSE final[d]
  BY <1>1, <1>2
<1>4. ChainTyped'
  <2>1. \A d \in PlannedChains : final'[d] <= Len(chain'[d])
    BY <1>1, <1>2, <1>3
  <2> QED
    BY <1>1, <1>2, <1>3, <2>1 DEF ChainTyped
<1>5. ChainPlaced'
  BY <1>1 DEF OrderInv, ChainPlaced
<1>6. FinalStays
  BY <1>1, <1>2, <1>3 DEF FinalStays
<1> QED
  BY <1>1, <1>4, <1>5, <1>6, ChainChange DEF OrderInv, SpoolInv

(* Another use of the account takes a nonce.                               *)
LEMMA ForeignUseStep ==
  ASSUME OrderInv, NEW c \in PlannedChains, ForeignUse(c)
  PROVE  OrderInv'
<1> DEFINE b == [tx |-> 0, status |-> 1]
<1>1. /\ chain' = [chain EXCEPT ![c] = Append(@, b)] /\ final' = final /\ spool' = spool
      /\ UNCHANGED <<journal, spool, proc, account>>
  BY DEF ForeignUse, outside
<1>2. pool' \subseteq spool /\ lost' \subseteq spool
  BY DEF ForeignUse, OrderInv, SpoolInv
<1>3. b \in Blocks /\ b.tx = 0
  BY DEF Blocks
<1>4. ChainTyped' /\ ChainPlaced' /\ FinalStays
  <2> HIDE DEF b
  <2> QED
    BY <1>1, <1>3, AppendBlock DEF OrderInv
<1> QED
  BY <1>1, <1>2, <1>4, ChainChange

(* The last block is replaced.                                             *)
LEMMA ReorganiseStep ==
  ASSUME OrderInv, NEW c \in PlannedChains, NEW kept \in BOOLEAN, Reorganise(c, kept)
  PROVE  OrderInv'
<1>1. /\ final[c] < Len(chain[c]) /\ chain' = [chain EXCEPT ![c] = SubSeq(@, 1, Len(@) - 1)]
      /\ final' = final /\ spool' = spool
      /\ UNCHANGED <<journal, spool, proc, account>>
  BY DEF Reorganise, outside
<1>2. ChainTyped' /\ ChainPlaced' /\ FinalStays
  BY <1>1, RemoveBlock DEF OrderInv
<1>3. chain[c][Len(chain[c])].tx # 0 => chain[c][Len(chain[c])].tx \in spool
  <2>1. Len(chain[c]) \in Nat /\ final[c] \in Nat
    BY DEF OrderInv, ChainTyped
  <2>2. Len(chain[c]) \in 1..Len(chain[c])
    BY <1>1, <2>1
  <2> QED
    BY <2>2 DEF OrderInv, ChainPlaced
<1>4. pool' \subseteq spool /\ lost' \subseteq spool
  BY <1>3 DEF Reorganise, OrderInv, SpoolInv
<1> QED
  BY <1>1, <1>2, <1>4, ChainChange

(* A node forgets a transaction.                                           *)
LEMMA DropStep ==
  ASSUME OrderInv, NEW t \in Txs, DropFromPool(t)
  PROVE  OrderInv'
<1>1. /\ UNCHANGED <<journal, spool, proc, account>> /\ spool' = spool
      /\ chain' = chain /\ final' = final
  BY DEF DropFromPool, outside
<1>2. pool' \subseteq spool /\ lost' \subseteq spool
  BY DEF DropFromPool, OrderInv, SpoolInv
<1>3. ChainTyped' /\ ChainPlaced' /\ FinalStays
  BY <1>1 DEF OrderInv, ChainTyped, ChainPlaced, FinalStays
<1> QED
  BY <1>1, <1>2, <1>3, ChainChange
-----------------------------------------------------------------------------
(* The executors' steps: none of them moves a chain.                       *)

StillChain == chain' = chain /\ final' = final /\ account' = account /\ lost' = lost

(* An executor writes the journal and goes on as p.                        *)
LEMMA ExecutorWrites ==
  ASSUME OrderInv, StillChain, NEW e \in Executors, NEW p, NEW j \in Doc,
         spool \subseteq spool', spool' \subseteq Txs, \A t \in spool' : Earned(t),
         pool' \subseteq spool', journal' = j, DocTrue(j),
         proc' = [proc EXCEPT ![e] = p], ProcTrue(p)'
  PROVE  OrderInv'
<1>1. Kept
  BY DEF Kept, StillChain, Good
<1>2. SpoolInv'
  <2>1. \A t \in spool' : Earned(t)'
    BY <1>1, EarnedKept
  <2>2. lost' \subseteq spool'
    BY DEF StillChain, OrderInv, SpoolInv
  <2> QED
    BY <2>1, <2>2 DEF SpoolInv
<1>3. WorkInv'
  <2>1. DocTrue(j)'
    BY <1>1, DocKept
  <2>2. DocTrue(journal)'
    BY <2>1 DEF DocTrue
  <2>3. DOMAIN proc = Executors /\ \A x \in Executors : ProcTrue(proc[x])
    BY DEF OrderInv, WorkInv
  <2>4. ASSUME NEW x \in Executors PROVE ProcTrue(proc[x])'
    <3>1. PICK q : q = proc'[x]
      OBVIOUS
    <3>2. ProcTrue(q)'
      <4>1. CASE x = e
        <5>1. q = p
          BY <2>3, <3>1, <4>1
        <5> QED
          BY <5>1
      <4>2. CASE x # e
        <5>1. q = proc[x]
          BY <2>3, <3>1, <4>2
        <5>2. ProcTrue(q)
          BY <2>3, <5>1
        <5> QED
          BY <1>1, <5>2, ProcKept
      <4> QED
        BY <4>1, <4>2
    <3> QED
      BY <3>1, <3>2 DEF ProcTrue
  <2>5. DOMAIN proc' = Executors
    BY <2>3
  <2> QED
    BY <2>2, <2>4, <2>5 DEF WorkInv
<1>4. ChainTyped' /\ ChainPlaced'
  BY DEF OrderInv, ChainTyped, ChainPlaced, StillChain
<1> QED
  BY <1>2, <1>3, <1>4 DEF OrderInv

(* An executor that signs nothing keeps the spool.                         *)
LEMMA ExecutorGoes ==
  ASSUME OrderInv, StillChain, NEW e \in Executors, NEW p, NEW j \in Doc, spool' = spool,
         pool' \subseteq spool, journal' = j, DocTrue(j),
         proc' = [proc EXCEPT ![e] = p], ProcTrue(p)
  PROVE  OrderInv'
<1>1. Kept
  BY DEF Kept, StillChain, Good
<1>2. ProcTrue(p)'
  BY <1>1, ProcKept
<1>3. spool \subseteq spool' /\ spool' \subseteq Txs /\ (\A t \in spool' : Earned(t)) /\ pool' \subseteq spool'
  BY DEF OrderInv, SpoolInv
<1> QED
  BY <1>2, <1>3, ExecutorWrites

(* An executor replaces the file with its copy and one new record.         *)
LEMMA PersistStep ==
  ASSUME OrderInv, NEW e \in Executors, NEW r \in [state : States, proven : BOOLEAN],
         NEW at \in {"idle", "send", "broadcast"}, proc[e].at \notin {"idle", "sign"},
         r.state = "finalized" => Good(proc[e].tx) /\ AsPredicted(proc[e].tx),
         Persist(e, r, at)
  PROVE  OrderInv'
<1>1. PICK p : p = proc[e]
  OBVIOUS
<1>2. p # Idle /\ ProcTrue(p)
  BY <1>1 DEF OrderInv, WorkInv, Idle
<1>3. /\ p \in [at : Stages \ {"idle"}, tx : Txs, doc : Doc, taken : BOOLEAN]
      /\ DocTrue(p.doc) /\ p.tx \in spool
  BY <1>1, <1>2 DEF ProcTrue
<1>4. PICK d : d = [p.doc EXCEPT ![p.tx] = r]
  OBVIOUS
<1>5. d \in Doc /\ \A u \in Txs : d[u] = IF u = p.tx THEN r ELSE p.doc[u]
  BY <1>3, <1>4 DEF Doc
<1>6. DocTrue(d)
  BY <1>1, <1>3, <1>5 DEF DocTrue
<1>7. PICK j : j = [u \in Txs |-> IF OpOf(u) = OpOf(p.tx) THEN d[u] ELSE journal[u]]
  OBVIOUS
<1>8. journal \in Doc /\ DocTrue(journal)
  BY DEF OrderInv, WorkInv
<1>9. j \in Doc
  BY <1>5, <1>7, <1>8 DEF Doc
<1>10. DocTrue(j)
  BY <1>6, <1>7, <1>8 DEF DocTrue
<1>11. PICK q : q = IF at = "idle" THEN Idle ELSE [p EXCEPT !.doc = d, !.at = at]
  OBVIOUS
<1>12. ProcTrue(q)
  <2>1. CASE at = "idle"
    BY <1>11, <2>1 DEF ProcTrue
  <2>2. CASE at # "idle"
    <3>1. /\ q \in [at : Stages \ {"idle"}, tx : Txs, doc : Doc, taken : BOOLEAN]
          /\ q.doc = d /\ q.at = at /\ q.tx = p.tx
      BY <1>3, <1>5, <1>11, <2>2 DEF Stages
    <3> QED
      BY <1>3, <1>6, <2>2, <3>1 DEF ProcTrue
  <2> QED
    BY <2>1, <2>2
<1>13. journal' = j
  BY <1>1, <1>4, <1>7 DEF Persist
<1>14. proc' = [proc EXCEPT ![e] = q]
  BY <1>1, <1>4, <1>11 DEF Persist
<1>15. StillChain /\ spool' = spool /\ pool' \subseteq spool
  BY DEF Persist, executor, StillChain, OrderInv, SpoolInv
<1> QED
  BY <1>9, <1>10, <1>12, <1>13, <1>14, <1>15, ExecutorGoes

(* An executor takes up a transaction with a fresh copy of the journal.    *)
LEMMA TakeUp ==
  ASSUME OrderInv, StillChain, UNCHANGED <<journal, spool, pool>>, NEW e \in Executors,
         NEW t \in Txs, NEW at \in Stages \ {"idle"},
         at = "sign" => Earned(t), at # "sign" => t \in spool,
         at = "finalized" => Good(t) /\ AsPredicted(t),
         proc' = [proc EXCEPT ![e] = [at |-> at, tx |-> t, doc |-> journal, taken |-> FALSE]]
  PROVE  OrderInv'
<1>1. PICK j : j = journal
  OBVIOUS
<1>2. j \in Doc /\ DocTrue(j)
  BY <1>1 DEF OrderInv, WorkInv
<1>3. PICK p : p = [at |-> at, tx |-> t, doc |-> j, taken |-> FALSE]
  OBVIOUS
<1>4. /\ p \in [at : Stages \ {"idle"}, tx : Txs, doc : Doc, taken : BOOLEAN]
      /\ p.at = at /\ p.tx = t /\ p.doc = j
  BY <1>2, <1>3
<1>5. ProcTrue(p)
  BY <1>2, <1>4 DEF ProcTrue
<1>6. spool' = spool /\ pool' \subseteq spool /\ journal' = j
  BY <1>1 DEF OrderInv, SpoolInv
<1>7. proc' = [proc EXCEPT ![e] = p]
  BY <1>1, <1>3
<1> QED
  BY <1>2, <1>5, <1>6, <1>7, ExecutorGoes

(* An executor ends, in whatever way.                                      *)
LEMMA EndStep ==
  ASSUME OrderInv, StillChain, UNCHANGED <<journal, spool, pool>>, NEW e \in Executors,
         proc' = [proc EXCEPT ![e] = Idle]
  PROVE  OrderInv'
<1>1. PICK j : j = journal
  OBVIOUS
<1>2. j \in Doc /\ DocTrue(j)
  BY <1>1 DEF OrderInv, WorkInv
<1>3. ProcTrue(Idle)
  BY DEF ProcTrue
<1>4. spool' = spool /\ pool' \subseteq spool /\ journal' = j
  BY <1>1 DEF OrderInv, SpoolInv
<1> QED
  BY <1>2, <1>3, <1>4, ExecutorGoes

(* Nothing the order is about changes.                                     *)
LEMMA OrderFrame ==
  ASSUME OrderInv, UNCHANGED <<journal, spool, proc, account, pool, chain, final, lost>>
  PROVE  OrderInv'
<1>1. ChainTyped' /\ ChainPlaced' /\ FinalStays
  BY DEF OrderInv, ChainTyped, ChainPlaced, FinalStays
<1>2. UNCHANGED <<journal, spool, proc, account>> /\ pool' \subseteq spool /\ lost' \subseteq spool
  BY DEF OrderInv, SpoolInv
<1> QED
  BY <1>1, <1>2, ChainChange

(* What an executor that is at work holds.                                 *)
LEMMA AtWork ==
  ASSUME OrderInv, NEW e \in Executors, proc[e].at # "idle"
  PROVE  /\ proc[e] \in [at : Stages \ {"idle"}, tx : Txs, doc : Doc, taken : BOOLEAN]
         /\ DocTrue(proc[e].doc)
         /\ proc[e].at = "sign" => Earned(proc[e].tx)
         /\ proc[e].at # "sign" => proc[e].tx \in spool
         /\ proc[e].at = "finalized" => Good(proc[e].tx) /\ AsPredicted(proc[e].tx)
<1>1. proc[e] # Idle /\ ProcTrue(proc[e])
  BY DEF OrderInv, WorkInv, Idle
<1> QED
  BY <1>1 DEF ProcTrue

(* A journal in which the predecessors are final was earned.               *)
LEMMA AdvanceStep ==
  ASSUME OrderInv, NEW e \in Executors, NEW t \in Txs, Advance(e, t)
  PROVE  OrderInv'
<1>1. DocTrue(journal)
  BY DEF OrderInv, WorkInv
<1>2. Earned(t)
  <2> SUFFICES ASSUME NEW u \in BatchOf(OpOf(t)), u < t PROVE Good(u)
    BY DEF Earned
  <2>1. u \in Txs /\ journal[u].state = "finalized"
    BY DEF Advance, InOrder, BatchOf
  <2> QED
    BY <1>1, <2>1 DEF DocTrue
<1>3. PICK at : at = IF journal[t].state = "planned" THEN "sign" ELSE "send"
  OBVIOUS
<1>4. at \in Stages \ {"idle"} /\ (at # "sign" => t \in spool) /\ at # "finalized"
  BY <1>1, <1>3 DEF Stages, DocTrue
<1>5. proc' = [proc EXCEPT ![e] = [at |-> at, tx |-> t, doc |-> journal, taken |-> FALSE]]
  BY <1>3 DEF Advance
<1>6. StillChain /\ UNCHANGED <<journal, spool, pool>>
  BY DEF Advance, executor, StillChain
<1> QED
  BY <1>2, <1>4, <1>5, <1>6, TakeUp

(* Only what was earned is signed.                                         *)
LEMMA SignStep ==
  ASSUME OrderInv, NEW e \in Executors, SignToSpool(e)
  PROVE  OrderInv'
<1>1. PICK p : p = proc[e]
  OBVIOUS
<1>2. p.at = "sign"
  BY <1>1 DEF SignToSpool, At
<1>3. /\ p \in [at : Stages \ {"idle"}, tx : Txs, doc : Doc, taken : BOOLEAN]
      /\ DocTrue(p.doc) /\ Earned(p.tx)
  BY <1>1, <1>2, AtWork
<1>4. PICK q : q = [p EXCEPT !.at = "reference"]
  OBVIOUS
<1>5. /\ q \in [at : Stages \ {"idle"}, tx : Txs, doc : Doc, taken : BOOLEAN]
      /\ q.at = "reference" /\ q.tx = p.tx /\ q.doc = p.doc
  BY <1>3, <1>4 DEF Stages
<1>6. StillChain /\ journal' = journal /\ pool' = pool /\ spool' = spool \cup {p.tx}
      /\ proc' = [proc EXCEPT ![e] = q]
  BY <1>1, <1>4 DEF SignToSpool, executor, StillChain, Goto
<1>7. /\ spool \subseteq spool' /\ spool' \subseteq Txs /\ (\A t \in spool' : Earned(t))
      /\ pool' \subseteq spool'
  BY <1>3, <1>6 DEF OrderInv, SpoolInv
<1>8. ProcTrue(q)'
  <2>1. Kept
    BY <1>6, <1>7 DEF Kept, StillChain, Good
  <2>2. DocTrue(q.doc)'
    BY <1>3, <1>5, <2>1, DocKept
  <2>3. q.tx \in spool'
    BY <1>5, <1>6
  <2> QED
    BY <1>5, <2>2, <2>3 DEF ProcTrue
<1>9. PICK j : j = journal
  OBVIOUS
<1>10. j \in Doc /\ DocTrue(j) /\ journal' = j
  BY <1>6, <1>9 DEF OrderInv, WorkInv
<1> QED
  BY <1>6, <1>7, <1>8, <1>10, ExecutorWrites

(* The writes before the bytes leave.                                      *)
LEMMA ReferenceStep ==
  ASSUME OrderInv, NEW e \in Executors, PersistReference(e) \/ PersistUnknown(e)
  PROVE  OrderInv'
<1>1. CASE PersistReference(e)
  <2> DEFINE r == [state |-> "signed_hash_persisted", proven |-> FALSE]
  <2>1. r \in [state : States, proven : BOOLEAN] /\ r.state # "finalized"
    BY DEF States
  <2>2. proc[e].at \notin {"idle", "sign"} /\ Persist(e, r, "send")
    BY <1>1 DEF PersistReference, At
  <2> HIDE DEF r
  <2> QED
    BY <2>1, <2>2, PersistStep
<1>2. CASE PersistUnknown(e)
  <2> DEFINE r == [state |-> "broadcast_unknown", proven |-> FALSE]
  <2>1. r \in [state : States, proven : BOOLEAN] /\ r.state # "finalized"
    BY DEF States
  <2>2. proc[e].at \notin {"idle", "sign"} /\ Persist(e, r, "broadcast")
    BY <1>2 DEF PersistUnknown, At
  <2> HIDE DEF r
  <2> QED
    BY <2>1, <2>2, PersistStep
<1> QED
  BY <1>1, <1>2

(* The bytes of the spool reach a node.                                    *)
LEMMA BroadcastStep ==
  ASSUME OrderInv, NEW e \in Executors, Broadcast(e)
  PROVE  OrderInv'
<1>1. PICK p : p = proc[e]
  OBVIOUS
<1>2. p.at = "broadcast" /\ p.tx \in spool
  BY <1>1 DEF Broadcast, At
<1>3. /\ p \in [at : Stages \ {"idle"}, tx : Txs, doc : Doc, taken : BOOLEAN]
      /\ DocTrue(p.doc)
  BY <1>1, <1>2, AtWork
<1>4. PICK answer \in BOOLEAN : proc' = [proc EXCEPT ![e].at = "answer", ![e].taken = answer]
  BY DEF Broadcast
<1>5. PICK q : q = [p EXCEPT !.at = "answer", !.taken = answer]
  OBVIOUS
<1>6. /\ q \in [at : Stages \ {"idle"}, tx : Txs, doc : Doc, taken : BOOLEAN]
      /\ q.at = "answer" /\ q.tx = p.tx /\ q.doc = p.doc
  BY <1>3, <1>5 DEF Stages
<1>7. ProcTrue(q)
  BY <1>2, <1>3, <1>6 DEF ProcTrue
<1>8. DOMAIN proc = Executors
  BY DEF OrderInv, WorkInv
<1>9. proc' = [proc EXCEPT ![e] = q]
  BY <1>1, <1>4, <1>5, <1>8
<1>10. StillChain /\ spool' = spool /\ journal' = journal
  BY DEF Broadcast, executor, StillChain
<1>11. pool' \subseteq spool
  BY <1>1, <1>2 DEF Broadcast, OrderInv, SpoolInv
<1>12. PICK j : j = journal
  OBVIOUS
<1>13. j \in Doc /\ DocTrue(j) /\ journal' = j
  BY <1>10, <1>12 DEF OrderInv, WorkInv
<1> QED
  BY <1>7, <1>9, <1>10, <1>11, <1>13, ExecutorGoes

(* The node's answer is written, or the record stays as it is.             *)
LEMMA AcknowledgeStep ==
  ASSUME OrderInv, NEW e \in Executors, Acknowledge(e)
  PROVE  OrderInv'
<1>1. CASE proc[e].taken
  <2> DEFINE r == [state |-> "submitted", proven |-> FALSE]
  <2>1. r \in [state : States, proven : BOOLEAN] /\ r.state # "finalized"
    BY DEF States
  <2>2. proc[e].at \notin {"idle", "sign"} /\ Persist(e, r, "idle")
    BY <1>1 DEF Acknowledge, At
  <2> HIDE DEF r
  <2> QED
    BY <2>1, <2>2, PersistStep
<1>2. CASE ~proc[e].taken
  <2>1. /\ StillChain /\ UNCHANGED <<journal, spool, pool>>
        /\ proc' = [proc EXCEPT ![e] = Idle]
    BY <1>2 DEF Acknowledge, Done, executor, StillChain
  <2> QED
    BY <2>1, EndStep
<1> QED
  BY <1>1, <1>2

(* An exact repeat needs a record that says the bytes may be out.          *)
LEMMA RepeatStep ==
  ASSUME OrderInv, NEW e \in Executors, NEW t \in Txs, RepeatExactBroadcast(e, t)
  PROVE  OrderInv'
<1>1. journal[t].state = "broadcast_unknown" /\ DocTrue(journal)
  BY DEF RepeatExactBroadcast, OrderInv, WorkInv
<1>2. t \in spool
  BY <1>1 DEF DocTrue
<1>3. /\ StillChain /\ UNCHANGED <<journal, spool, pool>>
      /\ proc' = [proc EXCEPT ![e] = [at |-> "broadcast", tx |-> t, doc |-> journal, taken |-> FALSE]]
  BY DEF RepeatExactBroadcast, executor, StillChain
<1>4. "broadcast" \in Stages \ {"idle"}
  BY DEF Stages
<1> QED
  BY <1>2, <1>3, <1>4, TakeUp

(* A receipt that says finalized says what the chain says.                 *)
LEMMA ReconcileStep ==
  ASSUME OrderInv, NEW e \in Executors, NEW t \in Txs, Reconcile(e, t)
  PROVE  OrderInv'
<1>1. StillChain /\ UNCHANGED <<journal, spool, pool>>
  BY DEF Reconcile, executor, StillChain
<1>2. DocTrue(journal)
  BY DEF OrderInv, WorkInv
<1>3. CASE Observable(t) /\ proc' = [proc EXCEPT ![e] = [at |-> ReceiptState(t), tx |-> t,
                                                       doc |-> journal, taken |-> FALSE]]
  <2>1. PICK at : at = ReceiptState(t)
    OBVIOUS
  <2>2. at \in Stages \ {"idle"} /\ at # "sign"
    BY <2>1 DEF ReceiptState, Stages
  <2>3. at = "finalized" => Good(t) /\ AsPredicted(t)
    <3> SUFFICES ASSUME at = "finalized" PROVE Good(t) /\ AsPredicted(t)
      OBVIOUS
    <3>1. Final(t) /\ BlockOf(t).status = 1 /\ (Creates(t) => CreateAddress(account, t) = Predicted(t))
      BY <2>1 DEF ReceiptState
    <3> QED
      BY <3>1, FinalIsGood DEF OrderInv, AsPredicted
  <2>4. t \in spool
    BY <1>2, <1>3 DEF Observable, DocTrue
  <2>5. proc' = [proc EXCEPT ![e] = [at |-> at, tx |-> t, doc |-> journal, taken |-> FALSE]]
    BY <1>3, <2>1
  <2> QED
    BY <1>1, <2>2, <2>3, <2>4, <2>5, TakeUp
<1>4. CASE /\ journal[t].state = "broadcast_unknown"
           /\ proc' = [proc EXCEPT ![e] = [at |-> "nonce", tx |-> t, doc |-> journal, taken |-> FALSE]]
  <2>1. t \in spool
    BY <1>2, <1>4 DEF DocTrue
  <2>2. "nonce" \in Stages \ {"idle"}
    BY DEF Stages
  <2> QED
    BY <1>1, <1>4, <2>1, <2>2, TakeUp
<1> QED
  BY <1>3, <1>4 DEF Reconcile

(* The receipt is written some time after it was read.                     *)
LEMMA ReceiptStep ==
  ASSUME OrderInv, NEW e \in Executors, PersistReceipt(e)
  PROVE  OrderInv'
<1>1. proc[e].at \in {"blocked", "included", "finalized"}
  BY DEF PersistReceipt
<1>2. PICK r : r = [state |-> proc[e].at, proven |-> FALSE]
  OBVIOUS
<1>3. r \in [state : States, proven : BOOLEAN] /\ r.state = proc[e].at
  BY <1>1, <1>2 DEF States
<1>4. Persist(e, r, "idle") /\ proc[e].at \notin {"idle", "sign"}
  BY <1>1, <1>2 DEF PersistReceipt
<1>5. proc[e].at = "finalized" => Good(proc[e].tx) /\ AsPredicted(proc[e].tx)
  BY <1>1, AtWork
<1> QED
  BY <1>3, <1>4, <1>5, PersistStep

(* What the account's nonce tells about an absent receipt.                 *)
LEMMA NonceStep ==
  ASSUME OrderInv, NEW e \in Executors, LookupNonce(e) \/ NonceUnavailable(e)
  PROVE  OrderInv'
<1>1. PICK r \in [state : {"blocked", "broadcast_unknown"}, proven : BOOLEAN] : Persist(e, r, "idle")
  <2>1. CASE LookupNonce(e)
    BY <2>1 DEF LookupNonce
  <2>2. CASE NonceUnavailable(e)
    BY <2>2 DEF NonceUnavailable
  <2> QED
    BY <2>1, <2>2
<1>2. r \in [state : States, proven : BOOLEAN] /\ r.state # "finalized"
  BY DEF States
<1>3. proc[e].at \notin {"idle", "sign"}
  BY DEF LookupNonce, NonceUnavailable, At
<1> QED
  BY <1>1, <1>2, <1>3, PersistStep

(* A crash loses what the executor held, and nothing else.                 *)
LEMMA CrashStep ==
  ASSUME OrderInv, NEW e \in Executors, Crash(e)
  PROVE  OrderInv'
<1>1. /\ StillChain /\ UNCHANGED <<journal, spool, pool>>
      /\ proc' = [proc EXCEPT ![e] = Idle]
  BY DEF Crash, Done, outside, StillChain
<1> QED
  BY <1>1, EndStep

(* A new journal and the recollection leave executors and chains alone.    *)
LEMMA PlanLeaves ==
  ASSUME (\E op \in Ops : Initialize(op)) \/ RecollectIdentity \/ UNCHANGED ovars
  PROVE  UNCHANGED <<journal, spool, proc, account, pool, chain, final, lost>>
<1>1. CASE \E op \in Ops : Initialize(op)
  BY <1>1, Zenon DEF Initialize, world
<1>2. CASE RecollectIdentity
  BY <1>2 DEF RecollectIdentity, world
<1>3. CASE UNCHANGED ovars
  BY <1>3 DEF ovars, world
<1> QED
  BY <1>1, <1>2, <1>3

(* At the start nothing is signed and no chain has a block.                *)
LEMMA InitOrder ==
  ASSUME OperationsInit
  PROVE  OrderInv
<1>1. ChainTyped
  BY DEF OperationsInit, ChainTyped
<1>2. ChainPlaced
  BY DEF OperationsInit, ChainPlaced
<1>3. SpoolInv
  BY DEF OperationsInit, SpoolInv
<1>4. WorkInv
  <2>1. journal \in Doc
    BY DEF OperationsInit, Doc, Planned, States
  <2>2. DocTrue(journal)
    BY DEF OperationsInit, DocTrue, Planned
  <2>3. DOMAIN proc = Executors /\ \A e \in Executors : ProcTrue(proc[e])
    BY DEF OperationsInit, ProcTrue
  <2> QED
    BY <2>1, <2>2, <2>3 DEF WorkInv
<1> QED
  BY <1>1, <1>2, <1>3, <1>4 DEF OrderInv

(* Every step keeps the order.                                             *)
LEMMA NextOrder ==
  ASSUME OrderInv, [OperationsNext]_ovars
  PROVE  OrderInv'
<1>1. CASE (\E op \in Ops : Initialize(op)) \/ RecollectIdentity \/ UNCHANGED ovars
  BY <1>1, PlanLeaves, OrderFrame
<1>2. CASE ChainStep
  <2>1. ASSUME NEW t \in Txs, Mine(t) \/ DropFromPool(t) PROVE OrderInv'
    BY <2>1, MineStep, DropStep
  <2>2. ASSUME NEW c \in PlannedChains, Finalise(c) \/ ForeignUse(c) \/ \E kept \in BOOLEAN : Reorganise(c, kept)
        PROVE  OrderInv'
    BY <2>2, FinaliseStep, ForeignUseStep, ReorganiseStep
  <2> QED
    BY <1>2, <2>1, <2>2 DEF ChainStep
<1>3. ASSUME NEW e \in Executors, Work(e) PROVE OrderInv'
  BY <1>3, SignStep, ReferenceStep, BroadcastStep, AcknowledgeStep, ReceiptStep, NonceStep DEF Work
<1>4. ASSUME NEW e \in Executors, NonceUnavailable(e) \/ Crash(e) PROVE OrderInv'
  BY <1>4, NonceStep, CrashStep
<1>5. ASSUME NEW e \in Executors, NEW t \in Txs, Call(e, t) PROVE OrderInv'
  BY <1>5, AdvanceStep, ReconcileStep, RepeatStep DEF Call
<1> QED
  BY <1>1, <1>2, <1>3, <1>4, <1>5 DEF OperationsNext

(* Whatever executors, crashes and reorganisations do: what was signed had *)
(* every predecessor in a final block, and no copy of the journal calls    *)
(* final what is not (ApprovedOperationExecutor).                          *)
THEOREM OrderInvariant == OperationsSpec => []OrderInv
<1>1. OperationsInit => OrderInv
  BY InitOrder
<1>2. OrderInv /\ [OperationsNext]_ovars => OrderInv'
  BY NextOrder
<1> QED
  BY <1>1, <1>2, PTL DEF OperationsSpec
-----------------------------------------------------------------------------
(* What the journal and the chains say of each other.                      *)

(* A step counts one fault at most, and only below the bound.              *)
LEMMA FaultsStep ==
  ASSUME [OperationsNext]_ovars
  PROVE  faults' = faults \/ (faults < MaxFaults /\ faults' = faults + 1)
<1>1. ASSUME NEW op, Initialize(op) PROVE faults' = faults
  BY <1>1, Zenon DEF Initialize
<1>2. CASE RecollectIdentity \/ UNCHANGED ovars
  BY <1>2, Zenon DEF RecollectIdentity, ovars
<1>3. CASE ChainStep
  <2>1. ASSUME NEW t, Mine(t) \/ DropFromPool(t)
        PROVE  faults' = faults \/ (faults < MaxFaults /\ faults' = faults + 1)
    BY <2>1, Zenon DEF Mine, DropFromPool
  <2>2. ASSUME NEW c, NEW k, Finalise(c) \/ ForeignUse(c) \/ Reorganise(c, k)
        PROVE  faults' = faults \/ (faults < MaxFaults /\ faults' = faults + 1)
    BY <2>2, Zenon DEF Finalise, ForeignUse, Reorganise
  <2> QED
    BY <1>3, <2>1, <2>2 DEF ChainStep
<1>4. ASSUME NEW e, Work(e) PROVE faults' = faults
  BY <1>4, Zenon DEF Work, SignToSpool, PersistReference, PersistUnknown, Broadcast, Acknowledge,
     PersistReceipt, LookupNonce
<1>5. ASSUME NEW e, NonceUnavailable(e) \/ Crash(e)
      PROVE  faults < MaxFaults /\ faults' = faults + 1
  BY <1>5, Zenon DEF NonceUnavailable, Crash
<1>6. ASSUME NEW e, NEW t, Call(e, t)
      PROVE  faults' = faults \/ (faults < MaxFaults /\ faults' = faults + 1)
  BY <1>6, Zenon DEF Call, Advance, Reconcile, RepeatExactBroadcast, Start
<1> QED
  BY <1>1, <1>2, <1>3, <1>4, <1>5, <1>6 DEF OperationsNext

prepared == <<opened, identity>>

(* Only a new journal and the recollection change what was prepared.       *)
LEMMA PreparedStep ==
  ASSUME [OperationsNext]_ovars, ~RecollectIdentity, ~\E op \in Ops : Initialize(op)
  PROVE  prepared' = prepared
<1>1. CASE UNCHANGED ovars
  BY <1>1, Zenon DEF ovars, prepared
<1>3. CASE ChainStep
  <2>1. ASSUME NEW t, Mine(t) \/ DropFromPool(t) PROVE prepared' = prepared
    BY <2>1, Zenon DEF Mine, DropFromPool, outside, prepared
  <2>2. ASSUME NEW c, NEW k, Finalise(c) \/ ForeignUse(c) \/ Reorganise(c, k)
        PROVE  prepared' = prepared
    BY <2>2, Zenon DEF Finalise, ForeignUse, Reorganise, outside, prepared
  <2> QED
    BY <1>3, <2>1, <2>2 DEF ChainStep
<1>4. ASSUME NEW e, NEW r, NEW at, Persist(e, r, at) PROVE prepared' = prepared
  BY <1>4, Zenon DEF Persist, executor, prepared
<1>5. ASSUME NEW e, Work(e) \/ NonceUnavailable(e) \/ Crash(e) PROVE prepared' = prepared
  <2>1. CASE SignToSpool(e) \/ Broadcast(e) \/ Crash(e)
    BY <2>1, Zenon DEF SignToSpool, Broadcast, Crash, executor, outside, prepared
  <2>2. CASE PersistReference(e) \/ PersistUnknown(e) \/ PersistReceipt(e) \/ LookupNonce(e)
             \/ NonceUnavailable(e)
    BY <1>4, <2>2, Zenon DEF PersistReference, PersistUnknown, PersistReceipt, LookupNonce, NonceUnavailable
  <2>3. CASE Acknowledge(e)
    BY <1>4, <2>3, Zenon DEF Acknowledge, executor, prepared
  <2> QED
    BY <1>5, <2>1, <2>2, <2>3 DEF Work
<1>6. ASSUME NEW e, NEW t, Call(e, t) PROVE prepared' = prepared
  BY <1>6, Zenon DEF Call, Advance, Reconcile, RepeatExactBroadcast, executor, prepared
<1> QED
  BY <1>1, <1>3, <1>5, <1>6 DEF OperationsNext

(* The remaining types.                                                    *)
LEMMA OtherTypesInvariant == OperationsSpec => []OtherTypes
<1>1. OperationsInit => OtherTypes
  BY PlansAssumption DEF OperationsInit, OtherTypes
<1>2. OtherTypes /\ [OperationsNext]_ovars => OtherTypes'
  <2> SUFFICES ASSUME OtherTypes, [OperationsNext]_ovars PROVE OtherTypes'
    OBVIOUS
  <2>1. faults' \in 0..MaxFaults
    BY FaultsStep, PlansAssumption DEF OtherTypes
  <2>2. opened' \subseteq Ops /\ identity' \in {"none", "pass", "blocked"}
    <3>1. CASE RecollectIdentity
      BY <3>1 DEF RecollectIdentity, OtherTypes
    <3>2. CASE \E op \in Ops : Initialize(op)
      BY <3>2 DEF Initialize, OtherTypes
    <3>3. CASE ~RecollectIdentity /\ ~\E op \in Ops : Initialize(op)
      BY <3>3, PreparedStep DEF OtherTypes, prepared
    <3> QED
      BY <3>1, <3>2, <3>3
  <2> QED
    BY <2>1, <2>2 DEF OtherTypes
<1> QED
  BY <1>1, <1>2, PTL DEF OperationsSpec

(* The invariants give the types.                                          *)
LEMMA TypesHold ==
  ASSUME OrderInv, OtherTypes
  PROVE  OperationsTypeOK
<1>1. opened \subseteq Ops
  BY DEF OtherTypes
<1>2. journal \in Doc
  BY DEF OrderInv, WorkInv
<1>3. spool \subseteq Txs /\ pool \subseteq spool /\ lost \subseteq spool
  BY DEF OrderInv, SpoolInv
<1>4. \A e \in Executors : proc[e] = Idle \/ (proc[e].tx \in Txs /\ proc[e].doc \in Doc)
  BY DEF OrderInv, WorkInv, ProcTrue
<1>5. \A c \in PlannedChains : final[c] \in 0..Len(chain[c])
  <2>1. \A c \in PlannedChains : final[c] \in Nat /\ Len(chain[c]) \in Nat /\ final[c] <= Len(chain[c])
    BY DEF OrderInv, ChainTyped
  <2> QED
    BY <2>1
<1>6. identity \in {"none", "pass", "blocked"} /\ faults \in 0..MaxFaults
  BY DEF OtherTypes
<1> QED
  BY <1>1, <1>2, <1>3, <1>4, <1>5, <1>6, Zenon DEF OperationsTypeOK

(* What the nodes and the chains hold was earned.                          *)
LEMMA ChainsHoldOrder ==
  ASSUME OrderInv
  PROVE  OrderedOnChain
<1> SUFFICES ASSUME NEW t \in Txs, t \in pool \/ Mined(t), NEW u \in BatchOf(OpOf(t)), u < t
             PROVE  Final(u) /\ BlockOf(u).status = 1
  BY DEF OrderedOnChain
<1>1. t \in spool
  <2>1. CASE t \in pool
    BY <2>1 DEF OrderInv, SpoolInv
  <2>2. CASE Mined(t)
    <3>1. ChainOf(t) \in PlannedChains /\ t # 0
      BY PlanFacts
    <3>2. PICK i \in 1..Len(chain[ChainOf(t)]) : chain[ChainOf(t)][i].tx = t
      BY <2>2, <3>1 DEF Mined, OrderInv, ChainTyped
    <3> QED
      BY <3>1, <3>2 DEF OrderInv, ChainPlaced
  <2> QED
    BY <2>1, <2>2
<1>2. Good(u) /\ u \in Txs
  BY <1>1 DEF OrderInv, SpoolInv, Earned, BatchOf
<1> QED
  BY <1>2, GoodIsFinal DEF OrderInv

(* A record that says finalized is true.                                   *)
LEMMA RecordsAreTrue ==
  ASSUME OrderInv
  PROVE  FinalIsTrue
<1> SUFFICES ASSUME NEW t \in Txs, journal[t].state = "finalized"
             PROVE  /\ Final(t) /\ BlockOf(t).status = 1
                    /\ Creates(t) => CreateAddress(account, t) = Predicted(t)
  BY DEF FinalIsTrue
<1>1. Good(t) /\ AsPredicted(t)
  BY DEF OrderInv, WorkInv, DocTrue
<1>2. Final(t) /\ BlockOf(t).status = 1
  BY <1>1, GoodIsFinal DEF OrderInv
<1> QED
  BY <1>1, <1>2 DEF AsPredicted

(* No transaction of a batch reaches a node before every earlier one has   *)
(* succeeded in a final block, and a journal that says finalized tells the *)
(* truth, for any number of executors over one journal without a lock      *)
(* (ApprovedOperationExecutor.advance and reconcile).                      *)
THEOREM JournalSafe == OperationsSpec => []JournalHolds
<1>1. OrderInv /\ OtherTypes => JournalHolds
  BY TypesHold, ChainsHoldOrder, RecordsAreTrue DEF JournalHolds
<1> QED
  BY <1>1, OrderInvariant, OtherTypesInvariant, PTL
-----------------------------------------------------------------------------
(* Approvals and live commands.                                            *)

(* What a command holds: unless a file was edited since it started, what   *)
(* every file says; from the envelope on, inputs that are correlated.      *)
CommandTrue ==
  /\ ~command.edited => \A n \in DOMAIN command.got : command.got[n] = files[FileOf[n]]
  /\ "envelope" \in DOMAIN command.got => Correlated(command.operation, command.got)

AuthorityInv == ApprovalsTypeOK /\ LedgerMonotone /\ CommandTrue /\ ConfirmedAsApproved

(* A row may follow the others when its sequence is above its issuer's and *)
(* it consumes nothing that is revoked or consumed.                        *)
LEMMA RowAppended ==
  ASSUME entries \in Seq(Rows), LedgerMonotone, NEW r \in Rows, entries' = Append(entries, r),
         \A i \in 1..Len(entries) :
            /\ entries[i].issuer = r.issuer => entries[i].seq < r.seq
            /\ r.kind = "consumed" => entries[i].approval # r.approval
  PROVE  entries' \in Seq(Rows) /\ LedgerMonotone'
<1>1. /\ entries' \in Seq(Rows) /\ Len(entries') = Len(entries) + 1 /\ Len(entries) \in Nat
      /\ entries'[Len(entries) + 1] = r /\ DOMAIN entries' = 1..(Len(entries) + 1)
      /\ \A i \in 1..Len(entries) : entries'[i] = entries[i]
      /\ DOMAIN entries = 1..Len(entries)
  OBVIOUS
<1>2. LedgerMonotone'
  <2> SUFFICES ASSUME NEW i \in 1..(Len(entries) + 1), NEW j \in 1..(Len(entries) + 1), i < j
               PROVE  /\ entries'[i].issuer = entries'[j].issuer => entries'[i].seq < entries'[j].seq
                      /\ entries'[j].kind = "consumed" => entries'[i].approval # entries'[j].approval
    BY <1>1 DEF LedgerMonotone
  <2>1. i \in 1..Len(entries) /\ entries'[i] = entries[i]
    BY <1>1
  <2>2. CASE j = Len(entries) + 1
    BY <1>1, <2>1, <2>2
  <2>3. CASE j # Len(entries) + 1
    <3>1. j \in 1..Len(entries) /\ entries'[j] = entries[j]
      BY <1>1, <2>3
    <3> QED
      BY <1>1, <2>1, <3>1 DEF LedgerMonotone
  <2> QED
    BY <2>2, <2>3
<1> QED
  BY <1>1, <1>2

(* A step of the ledger that leaves files and command alone.               *)
LEMMA LedgerChange ==
  ASSUME AuthorityInv, entries' \in Seq(Rows), LedgerMonotone', expired' \subseteq Approvals,
         caller' \in [Callers -> SUBSET Approvals], edits' \in 0..MaxEdits,
         UNCHANGED <<files, commandVars>>
  PROVE  AuthorityInv'
<1>1. command' = command /\ files' = files /\ held' = held /\ reached' = reached
  BY DEF commandVars
<1>2. ApprovalsTypeOK'
  BY <1>1 DEF AuthorityInv, ApprovalsTypeOK, IsCommand
<1>3. CommandTrue'
  BY <1>1 DEF AuthorityInv, CommandTrue
<1>4. ConfirmedAsApproved'
  BY <1>1 DEF AuthorityInv, ConfirmedAsApproved
<1> QED
  BY <1>2, <1>3, <1>4 DEF AuthorityInv

LEMMA VerifyStep ==
  ASSUME AuthorityInv, NEW p \in Callers, NEW a \in Approvals, Verify(p, a)
  PROVE  AuthorityInv'
<1>1. /\ entries' \in Seq(Rows) /\ expired' \subseteq Approvals /\ edits' \in 0..MaxEdits
      /\ caller' \in [Callers -> SUBSET Approvals] /\ UNCHANGED <<files, commandVars>>
  BY DEF AuthorityInv, ApprovalsTypeOK, Verify
<1>2. LedgerMonotone'
  BY DEF AuthorityInv, LedgerMonotone, Verify
<1> QED
  BY <1>1, <1>2, LedgerChange

(* The transaction that writes re-reads what the verification read.        *)
LEMMA ConsumeStep ==
  ASSUME AuthorityInv, NEW p \in Callers, Consume(p)
  PROVE  AuthorityInv'
<1>1. PICK a \in caller[p] :
         entries' = IF ConsumeAllowed(a) THEN Append(entries, Row("consumed", a, a.issuer, a.seq))
                   ELSE entries
  BY DEF Consume
<1>2. a \in Approvals /\ entries \in Seq(Rows)
  BY DEF AuthorityInv, ApprovalsTypeOK
<1>3. a.issuer \in STRING /\ a.seq \in Nat
  BY <1>2, ApprovalsAssumption DEF Documents
<1>4. entries' \in Seq(Rows) /\ LedgerMonotone'
  <2>1. CASE ConsumeAllowed(a)
    <3>1. PICK r : r = Row("consumed", a, a.issuer, a.seq)
      OBVIOUS
    <3>2. r \in Rows /\ r.kind = "consumed" /\ r.approval = a /\ r.issuer = a.issuer /\ r.seq = a.seq
      BY <1>2, <1>3, <3>1 DEF Row, Rows
    <3>3. ASSUME NEW i \in 1..Len(entries)
          PROVE  /\ entries[i].issuer = r.issuer => entries[i].seq < r.seq
                 /\ entries[i].approval # r.approval
      <4>1. i \in DOMAIN entries /\ entries[i] \in Rows
        BY <1>2
      <4>2. entries[i].kind \in {"consumed", "revoked"}
        BY <4>1 DEF Rows
      <4> QED
        BY <2>1, <3>2, <4>1, <4>2 DEF ConsumeAllowed, Monotonic, Consumed, Revoked
    <3>4. entries' = Append(entries, r)
      BY <1>1, <2>1, <3>1
    <3> QED
      BY <1>2, <3>2, <3>3, <3>4, RowAppended DEF AuthorityInv
  <2>2. CASE ~ConsumeAllowed(a)
    <3>1. entries' = entries
      BY <1>1, <2>2
    <3> QED
      BY <1>2, <3>1 DEF AuthorityInv, LedgerMonotone
  <2> QED
    BY <2>1, <2>2
<1>5. /\ expired' \subseteq Approvals /\ edits' \in 0..MaxEdits
      /\ caller' \in [Callers -> SUBSET Approvals] /\ UNCHANGED <<files, commandVars>>
  BY DEF AuthorityInv, ApprovalsTypeOK, Consume, Nobody
<1> QED
  BY <1>4, <1>5, LedgerChange

LEMMA RevokeStep ==
  ASSUME AuthorityInv, NEW w \in Revocations, VerifyAndRecordRevocation(w)
  PROVE  AuthorityInv'
<1>1. w.approval \in Approvals /\ w.issuer \in STRING /\ w.seq \in Nat
  BY ApprovalsAssumption DEF Withdrawals
<1>2. PICK r : r = Row("revoked", w.approval, w.issuer, w.seq)
  OBVIOUS
<1>3. r \in Rows /\ r.kind = "revoked" /\ r.issuer = w.issuer /\ r.seq = w.seq
  BY <1>1, <1>2 DEF Row, Rows
<1>4. entries' = Append(entries, r) /\ Monotonic(w)
  BY <1>2 DEF VerifyAndRecordRevocation
<1>5. entries \in Seq(Rows) /\ DOMAIN entries = 1..Len(entries)
  BY DEF AuthorityInv, ApprovalsTypeOK
<1>6. entries' \in Seq(Rows) /\ LedgerMonotone'
  <2>1. ASSUME NEW i \in 1..Len(entries)
        PROVE  /\ entries[i].issuer = r.issuer => entries[i].seq < r.seq
               /\ r.kind # "consumed"
    BY <1>3, <1>4, <1>5 DEF Monotonic
  <2>2. r \in Rows /\ entries \in Seq(Rows) /\ entries' = Append(entries, r)
    BY <1>3, <1>4, <1>5
  <2>3. LedgerMonotone
    BY DEF AuthorityInv
  <2> QED
    BY <2>1, <2>2, <2>3, RowAppended
<1>7. /\ expired' \subseteq Approvals /\ edits' \in 0..MaxEdits
      /\ caller' \in [Callers -> SUBSET Approvals] /\ UNCHANGED <<files, commandVars>>
  BY DEF AuthorityInv, ApprovalsTypeOK, VerifyAndRecordRevocation
<1> QED
  BY <1>6, <1>7, LedgerChange

LEMMA LapseStep ==
  ASSUME AuthorityInv, NEW a \in Approvals, Expire(a)
  PROVE  AuthorityInv'
<1>1. /\ entries' \in Seq(Rows) /\ expired' \subseteq Approvals
      /\ caller' \in [Callers -> SUBSET Approvals] /\ UNCHANGED <<files, commandVars>>
  BY DEF AuthorityInv, ApprovalsTypeOK, Expire
<1>2. edits' \in 0..MaxEdits
  BY ApprovalsAssumption DEF AuthorityInv, ApprovalsTypeOK, Expire
<1>3. LedgerMonotone'
  BY DEF AuthorityInv, LedgerMonotone, Expire
<1> QED
  BY <1>1, <1>2, <1>3, LedgerChange

(* A command that has read nothing holds nothing.                          *)
LEMMA FreshCommand ==
  ASSUME NEW c, NEW op, c = [operation |-> op, at |-> 0, got |-> <<>>, edited |-> FALSE]
  PROVE  IsCommand(c) /\ DOMAIN c.got = {}
<1>1. DOMAIN c.got = {} /\ {Reads[i] : i \in 1..c.at} = {}
  OBVIOUS
<1>2. c.at \in 0..Len(Reads) /\ c.edited \in BOOLEAN
  BY DEF Reads
<1> QED
  BY <1>1, <1>2 DEF IsCommand

(* A step of the command that leaves the ledger and the files alone.       *)
LEMMA CommandChange ==
  ASSUME AuthorityInv, UNCHANGED <<ledgerVars, files, edits>>, IsCommand(command'),
         CommandTrue', ConfirmedAsApproved', \A x \in reached' : IsCommand(x)
  PROVE  AuthorityInv'
<1>1. entries' = entries /\ expired' = expired /\ caller' = caller /\ files' = files /\ edits' = edits
  BY DEF ledgerVars
<1>2. ApprovalsTypeOK' /\ LedgerMonotone'
  BY <1>1 DEF AuthorityInv, ApprovalsTypeOK, LedgerMonotone, IsCommand
<1> QED
  BY <1>2 DEF AuthorityInv

(* A command ends and nothing is let through.                              *)
LEMMA CommandFresh ==
  ASSUME AuthorityInv, NEW op, UNCHANGED <<ledgerVars, files, held, reached, edits>>,
         command' = [operation |-> op, at |-> 0, got |-> <<>>, edited |-> FALSE]
  PROVE  AuthorityInv'
<1>1. IsCommand(command') /\ DOMAIN command'.got = {}
  BY FreshCommand
<1>2. CommandTrue'
  BY <1>1 DEF CommandTrue
<1>3. ConfirmedAsApproved' /\ \A x \in reached' : IsCommand(x)
  BY DEF AuthorityInv, ConfirmedAsApproved, ApprovalsTypeOK
<1> QED
  BY <1>1, <1>2, <1>3, CommandChange

LEMMA StartStep ==
  ASSUME AuthorityInv, NEW op, StartCommand(op)
  PROVE  AuthorityInv'
<1>1. command' = [operation |-> op, at |-> 0, got |-> <<>>, edited |-> FALSE]
  BY DEF StartCommand, NoCommand
<1> QED
  BY <1>1, CommandFresh DEF StartCommand

(* Every file has a value of its kind.                                     *)
LEMMA FileKinds ==
  ASSUME files \in Files, NEW i \in 1..Len(Reads)
  PROVE  files[FileOf[Reads[i]]] \in Contents[FileOf[Reads[i]]]
<1>1. /\ files.config \in Configs /\ files.profile \in Profiles
      /\ files.preflight \in Approvals /\ files.approval \in Approvals
  BY DEF Files
<1>2. Len(Reads) = 6
  BY DEF Reads
<1>3. i \in {1, 2, 3, 4, 5, 6}
  BY <1>2
<1>4. Reads[i] \in {"config", "profile", "digest", "preflight", "envelope", "document"}
  BY <1>3 DEF Reads
<1>5. FileOf[Reads[i]] \in {"config", "profile", "preflight", "approval"}
  BY <1>4 DEF FileOf
<1> QED
  BY <1>1, <1>5 DEF Contents

(* A read that is accepted adds the current value of its file.             *)
LEMMA ReadStep ==
  ASSUME AuthorityInv, ReadNext
  PROVE  AuthorityInv'
<1> DEFINE name == Reads[command.at + 1]
           got == [n \in DOMAIN command.got \cup {name} |->
                     IF n = name THEN files[FileOf[name]] ELSE command.got[n]]
<1>1. IsCommand(command) /\ files \in Files /\ CommandTrue
  BY DEF AuthorityInv, ApprovalsTypeOK
<1>2. command.at \in Nat /\ command.at + 1 \in 1..Len(Reads)
  <2>1. Len(Reads) \in Nat
    BY DEF Reads
  <2> QED
    BY <1>1, <2>1 DEF IsCommand, ReadNext
<1>3. UNCHANGED <<ledgerVars, files, edits>> /\ held' = held /\ reached' = reached
  BY DEF ReadNext
<1>4. CASE ~Accepts(command.operation, got)
  <2>1. command' = NoCommand
    BY <1>4 DEF ReadNext
  <2> QED
    BY <1>3, <2>1, CommandFresh DEF NoCommand
<1>5. CASE Accepts(command.operation, got)
  <2>1. command' = [command EXCEPT !.at = @ + 1, !.got = got]
    BY <1>5 DEF ReadNext
  <2>2. command' = [operation |-> command.operation, at |-> command.at + 1, got |-> got,
                    edited |-> command.edited]
    <3>1. PICK c : c = command
      OBVIOUS
    <3>2. c = [operation |-> c.operation, at |-> c.at, got |-> c.got, edited |-> c.edited]
      BY <1>1, <3>1 DEF IsCommand
    <3>3. PICK g : g = got
      OBVIOUS
    <3> HIDE DEF got
    <3>4. command' = [c EXCEPT !.at = @ + 1, !.got = g]
      BY <2>1, <3>1, <3>3
    <3>5. command' = [operation |-> c.operation, at |-> c.at + 1, got |-> g, edited |-> c.edited]
      BY <3>2, <3>4
    <3> QED
      BY <3>1, <3>3, <3>5
  <2>3. DOMAIN got = {Reads[i] : i \in 1..(command.at + 1)}
    <3>1. DOMAIN command.got = {Reads[i] : i \in 1..command.at}
      BY <1>1 DEF IsCommand
    <3>2. 1..(command.at + 1) = (1..command.at) \cup {command.at + 1}
      BY <1>2
    <3> QED
      BY <3>1, <3>2
  <2>4. \A n \in DOMAIN got : got[n] \in Contents[FileOf[n]]
    BY <1>1, <1>2, FileKinds DEF IsCommand
  <2>5. IsCommand(command')
    <3>1. PICK g : g = got
      OBVIOUS
    <3>2. command'.at = command.at + 1 /\ command'.got = g /\ command'.edited = command.edited
          /\ command'.operation = command.operation
      BY <2>2, <3>1
    <3>3. command' = [operation |-> command'.operation, at |-> command'.at, got |-> command'.got,
                      edited |-> command'.edited]
      BY <2>2, <3>1, <3>2
    <3>4. DOMAIN g = {Reads[i] : i \in 1..command'.at} /\ \A n \in DOMAIN g : g[n] \in Contents[FileOf[n]]
      BY <2>3, <2>4, <3>1, <3>2
    <3>5. command'.at \in 0..Len(Reads) /\ command'.edited \in BOOLEAN
      BY <1>1, <1>2, <3>2 DEF IsCommand
    <3> QED
      BY <3>2, <3>3, <3>4, <3>5 DEF IsCommand
  <2>6. CommandTrue'
    <3>1. command'.got = got /\ command'.edited = command.edited /\ command'.operation = command.operation
      BY <2>2
    <3>2. "envelope" \in DOMAIN got => Correlated(command.operation, got)
      BY <1>5 DEF Accepts
    <3>3. ~command.edited => \A n \in DOMAIN got : got[n] = files[FileOf[n]]
      BY <1>1 DEF CommandTrue
    <3> HIDE DEF got
    <3> QED
      BY <1>3, <3>1, <3>2, <3>3 DEF CommandTrue
  <2>7. ConfirmedAsApproved' /\ \A x \in reached' : IsCommand(x)
    BY <1>3 DEF AuthorityInv, ConfirmedAsApproved, ApprovalsTypeOK
  <2> QED
    BY <1>3, <2>5, <2>6, <2>7, CommandChange
<1> QED
  BY <1>4, <1>5

(* A command that read everything and none of whose files was edited holds *)
(* the approved and digested values.                                       *)
LEMMA ReadAsApproved ==
  ASSUME AuthorityInv, command.at = Len(Reads), ~command.edited
  PROVE  /\ command.got.profile = command.got.digest
         /\ command.got.document = command.got.envelope
         /\ command.got.config = command.got.document.config
         /\ command.got.digest = command.got.document.profile
<1>1. DOMAIN command.got = {Reads[i] : i \in 1..6}
  BY DEF AuthorityInv, ApprovalsTypeOK, IsCommand, Reads
<1>2. {"profile", "digest", "envelope", "document"} \subseteq DOMAIN command.got
  <2>1. Reads[2] = "profile" /\ Reads[3] = "digest" /\ Reads[5] = "envelope" /\ Reads[6] = "document"
    BY DEF Reads
  <2>2. 2 \in 1..6 /\ 3 \in 1..6 /\ 5 \in 1..6 /\ 6 \in 1..6
    OBVIOUS
  <2>3. \A i \in 1..6 : Reads[i] \in DOMAIN command.got
    BY <1>1
  <2> QED
    BY <2>1, <2>2, <2>3
<1>3. /\ command.got.profile = files.profile /\ command.got.digest = files.profile
      /\ command.got.envelope = files.approval /\ command.got.document = files.approval
  <2>1. \A n \in DOMAIN command.got : command.got[n] = files[FileOf[n]]
    BY DEF AuthorityInv, CommandTrue
  <2>2. /\ FileOf["profile"] = "profile" /\ FileOf["digest"] = "profile"
        /\ FileOf["envelope"] = "approval" /\ FileOf["document"] = "approval"
    BY DEF FileOf
  <2> QED
    BY <1>2, <2>1, <2>2
<1>4. Correlated(command.operation, command.got)
  BY <1>2 DEF AuthorityInv, CommandTrue
<1> QED
  BY <1>3, <1>4 DEF Correlated

(* What is let through was shown.                                          *)
LEMMA DispatchStep ==
  ASSUME AuthorityInv, DispatchLive
  PROVE  AuthorityInv'
<1>1. command' = NoCommand /\ UNCHANGED <<ledgerVars, files, edits>>
  BY DEF DispatchLive
<1>2. IsCommand(command') /\ DOMAIN command'.got = {}
  BY <1>1, FreshCommand DEF NoCommand
<1>3. CommandTrue'
  BY <1>2 DEF CommandTrue
<1>4. held \subseteq held'
  BY DEF DispatchLive
<1>5. reached' = reached \/ (reached' = {command} /\ ConfirmationId(command.got) \in held)
  BY DEF DispatchLive
<1>6. \A x \in reached' : IsCommand(x)
  BY <1>5 DEF AuthorityInv, ApprovalsTypeOK
<1>7. ConfirmedAsApproved'
  <2>1. CASE reached' = reached
    BY <1>4, <2>1 DEF AuthorityInv, ConfirmedAsApproved
  <2>2. CASE reached' = {command} /\ ConfirmationId(command.got) \in held
    <3>1. SUFFICES ASSUME ~command.edited
                   PROVE  /\ command.got.profile = command.got.document.profile
                          /\ command.got.config = command.got.document.config
                          /\ \E c \in held' : c.digest = command.got.profile
                                            /\ c.envelope = command.got.document
      BY <2>2 DEF ConfirmedAsApproved
    <3>2. /\ command.got.profile = command.got.digest
          /\ command.got.document = command.got.envelope
          /\ command.got.config = command.got.document.config
          /\ command.got.digest = command.got.document.profile
      BY <3>1, ReadAsApproved DEF DispatchLive
    <3>3. PICK c : c = ConfirmationId(command.got)
      OBVIOUS
    <3>4. c.digest = command.got.digest /\ c.envelope = command.got.envelope /\ c \in held'
      BY <1>4, <2>2, <3>3 DEF ConfirmationId
    <3> QED
      BY <3>2, <3>4
  <2> QED
    BY <1>5, <2>1, <2>2
<1> QED
  BY <1>1, <1>2, <1>3, <1>6, <1>7, CommandChange

(* An edit marks the command that runs.                                    *)
LEMMA EditStep ==
  ASSUME AuthorityInv, NEW f, NEW v, EditFile(f, v), files' \in Files
  PROVE  AuthorityInv'
<1>1. /\ entries' = entries /\ expired' = expired /\ caller' = caller /\ held' = held /\ reached' = reached
      /\ edits < MaxEdits /\ edits' = edits + 1
      /\ command' = IF command = NoCommand THEN command ELSE [command EXCEPT !.edited = TRUE]
  BY DEF EditFile, ledgerVars
<1>2. edits' \in 0..MaxEdits
  BY <1>1, ApprovalsAssumption DEF AuthorityInv, ApprovalsTypeOK
<1>3. IsCommand(command)
  BY DEF AuthorityInv, ApprovalsTypeOK
<1>4. IsCommand(command') /\ CommandTrue'
  <2>1. CASE command = NoCommand
    <3>1. DOMAIN command.got = {} /\ command' = command
      BY <1>1, <2>1, FreshCommand DEF NoCommand
    <3> QED
      BY <1>3, <3>1 DEF CommandTrue
  <2>2. CASE command # NoCommand
    <3>1. PICK c : c = command
      OBVIOUS
    <3>2. c = [operation |-> c.operation, at |-> c.at, got |-> c.got, edited |-> c.edited] /\ IsCommand(c)
      BY <1>3, <3>1 DEF IsCommand
    <3>3. command' = [c EXCEPT !.edited = TRUE]
      BY <1>1, <2>2, <3>1
    <3>4. command' = [operation |-> c.operation, at |-> c.at, got |-> c.got, edited |-> TRUE]
      BY <3>2, <3>3
    <3>5. IsCommand(command')
      BY <3>2, <3>4 DEF IsCommand
    <3>6. "envelope" \in DOMAIN c.got => Correlated(c.operation, c.got)
      BY <3>1 DEF AuthorityInv, CommandTrue
    <3>7. command'.edited /\ command'.got = c.got /\ command'.operation = c.operation
      BY <3>4
    <3> QED
      BY <3>5, <3>6, <3>7 DEF CommandTrue
  <2> QED
    BY <2>1, <2>2
<1>5. ApprovalsTypeOK'
  BY <1>1, <1>2, <1>4 DEF AuthorityInv, ApprovalsTypeOK, IsCommand
<1>6. LedgerMonotone' /\ ConfirmedAsApproved'
  BY <1>1 DEF AuthorityInv, LedgerMonotone, ConfirmedAsApproved
<1> QED
  BY <1>4, <1>5, <1>6 DEF AuthorityInv

LEMMA InitAuthority ==
  ASSUME ApprovalsInit
  PROVE  AuthorityInv
<1>1. IsCommand(command) /\ DOMAIN command.got = {}
  BY FreshCommand DEF ApprovalsInit, NoCommand
<1>2. ApprovalsTypeOK
  BY <1>1, ApprovalsAssumption DEF ApprovalsInit, ApprovalsTypeOK, Nobody
<1>3. LedgerMonotone /\ ConfirmedAsApproved
  BY DEF ApprovalsInit, LedgerMonotone, ConfirmedAsApproved
<1>4. CommandTrue
  BY <1>1 DEF CommandTrue
<1> QED
  BY <1>2, <1>3, <1>4 DEF AuthorityInv

LEMMA NextAuthority ==
  ASSUME AuthorityInv, [ApprovalsNext]_avars
  PROVE  AuthorityInv'
<1>1. CASE LedgerStep
  BY <1>1, VerifyStep, ConsumeStep, RevokeStep, LapseStep DEF LedgerStep
<1>2. CASE CommandStep
  BY <1>2, StartStep, ReadStep, DispatchStep DEF CommandStep
<1>3. CASE Edit
  <2>1. files \in Files
    BY DEF AuthorityInv, ApprovalsTypeOK
  <2>2. PICK f \in {"config", "profile", "preflight", "approval"}, v \in Configs \cup Profiles \cup Approvals :
             EditFile(f, v) /\ v \in Contents[f]
    BY <1>3 DEF Edit, Contents
  <2>3. files' = [files EXCEPT ![f] = v]
    BY <2>2 DEF EditFile
  <2>4. files' \in Files
    BY <2>1, <2>2, <2>3 DEF Files, Contents
  <2> QED
    BY <2>2, <2>4, EditStep
<1>4. CASE UNCHANGED avars
  <2>1. UNCHANGED <<entries, expired, caller, files, edits, commandVars>>
    BY <1>4 DEF avars, ledgerVars
  <2>2. LedgerMonotone' /\ entries' \in Seq(Rows) /\ expired' \subseteq Approvals
        /\ caller' \in [Callers -> SUBSET Approvals] /\ edits' \in 0..MaxEdits
    BY <2>1 DEF AuthorityInv, ApprovalsTypeOK, LedgerMonotone
  <2> QED
    BY <2>1, <2>2, LedgerChange
<1> QED
  BY <1>1, <1>2, <1>3, <1>4 DEF ApprovalsNext

(* Whoever verifies, revokes, edits and runs commands in whatever order:   *)
(* the ledger stays in order, and unless its files were edited meanwhile a *)
(* command holds what they say, correlated (approvals.py,                  *)
(* load_live_context).                                                     *)
THEOREM AuthorityInvariant == ApprovalsSpec => []AuthorityInv
<1>1. ApprovalsInit => AuthorityInv
  BY InitAuthority
<1>2. AuthorityInv /\ [ApprovalsNext]_avars => AuthorityInv'
  BY NextAuthority
<1> QED
  BY <1>1, <1>2, PTL DEF ApprovalsSpec

(* An approval is consumed at most once, never after its revocation, and   *)
(* in its issuer's sequence; a command none of whose files was edited      *)
(* while it ran goes through only with the config and the profile that     *)
(* were approved and shown (verify_and_consume, dispatch_live).            *)
THEOREM AuthoritySafe == ApprovalsSpec => []AuthorityHolds
<1>1. AuthorityInv => AuthorityHolds
  BY DEF AuthorityInv, AuthorityHolds
<1> QED
  BY <1>1, AuthorityInvariant, PTL
=============================================================================
