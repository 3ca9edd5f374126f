-------------------------- MODULE XIRCollector_proofs --------------------------
(***************************************************************************)
(* Proofs about the collectors, for every chain, set of transactions and   *)
(* workers, finality policy and depth of reorganisation below the policy's *)
(* confirmations: what is recorded as final stays canonical, a freeze is   *)
(* about completed stages, and a checkpoint has every event below it.      *)
(***************************************************************************)
EXTENDS XIRCollector, SequenceTheorems, TLAPS

Block == [number : Nat, id : Nat]
ChainBlock == [id : Nat, txns : SUBSET Txns]
Observation == [n : Nat, state : {None, "included", "finalized", "orphaned"}, block : Block]
Pcs == {"idle", "collect", "latest", "included", "set_included", "head", "confirm", "finalized",
        "set_finalized", "next", "recheck", "orphaned", "set_orphaned", "audit",
        "page", "backlog", "advance"}
Ops == {None, "observe", "finalize", "recheck", "audit"}
Job == [pc : Pcs, op : Ops, t : Txns \cup {None}, block : Block, n : Nat, todo : SUBSET (Nat \cup Txns)]
Checkpoint == [height : Nat, state : {"ready", "backlogged"}]
TxnStates == {"submitted", "included", "finalized", "orphaned"}
StageStates == {"in_flight", "completed", "collecting"}

(* The chain is never shorter than its final part, and its blocks have     *)
(* identities that were given out.                                         *)
ChainHolds ==
    /\ chain \in Seq(ChainBlock) /\ peak \in Nat /\ produced \in Nat
    /\ Final <= Height /\ Height <= peak
    /\ \A h \in DOMAIN chain : chain[h].id <= produced

(* What the rows of a transaction say of each other.                       *)
RowHolds(t) ==
    /\ receipt[t].id <= produced
    /\ latest[t].state # None => receipt[t] # NoBlock /\ latest[t].block = receipt[t]
    /\ latest[t].state = "finalized" => Canonical(receipt[t]) /\ receipt[t].number <= Final
    /\ txn[t] = "finalized" => stage[t] = "completed"
    /\ stage[t] = "completed" => latest[t].state = "finalized"
    /\ frozen => stage[t] = "completed"

RowsHold ==
    /\ receipt \in [Txns -> Block] /\ latest \in [Txns -> Observation]
    /\ txn \in [Txns -> TxnStates] /\ stage \in [Txns -> StageStates]
    /\ \A t \in Txns : RowHolds(t)

(* A checkpoint is below the final part, with its events recorded.         *)
CheckpointsHold ==
    /\ checkpoints \in Seq(Checkpoint)
    /\ \A v \in DOMAIN checkpoints :
          checkpoints[v].height <= Final /\ EventsIn(1, checkpoints[v].height) \subseteq events

(* What a worker that observes transaction r.t still knows of it, however  *)
(* much was written and mined since it read.                               *)
ObserverFits(r) ==
    /\ r.pc \in {"latest", "included", "set_included", "head", "confirm", "finalized",
                 "set_finalized", "recheck", "orphaned", "set_orphaned"}
          => r.t \in Txns /\ receipt[r.t] # NoBlock /\ r.block = receipt[r.t]
    /\ r.pc = "collect"
          => r.t \in Txns /\ r.block # NoBlock /\ r.block.id <= produced
    /\ r.pc = "included"
          => /\ r.n <= latest[r.t].n
             /\ r.n = latest[r.t].n => latest[r.t].state # "finalized"
    /\ r.pc \in {"confirm", "finalized", "set_finalized"} => r.block.number <= Final
    /\ r.pc \in {"finalized", "set_finalized"} => Canonical(r.block)
    /\ r.pc = "set_finalized" => latest[r.t].state = "finalized"
    /\ r.pc \in {"orphaned", "set_orphaned"} => ~Canonical(r.block)
    /\ r.pc = "audit" => \A t \in Txns : stage[t] = "completed"

(* What a worker that scans knows: every event up to its last page.        *)
ScannerFits(r) ==
    /\ r.pc \in {"page", "advance"}
          => \E target \in r.todo :
                /\ r.todo = {target} /\ target \in Nat /\ target <= Final
                /\ r.pc = "page" => /\ r.block.number <= target
                                    /\ EventsIn(1, r.block.number) \subseteq events
                /\ r.pc = "advance" => EventsIn(1, target) \subseteq events
    /\ r.pc \in {"page", "backlog"} => r.n \in DOMAIN checkpoints

WorkersHold ==
    /\ worker \in [Workers -> Job]
    /\ \A w \in Workers : ObserverFits(worker[w]) /\ ScannerFits(worker[w])

CollectorInv == ChainHolds /\ RowsHold /\ CheckpointsHold /\ WorkersHold
-----------------------------------------------------------------------------
(* The chain. *)

(* The heights of the chain are numbers. *)
LEMMA FinalBelow == ASSUME ChainHolds PROVE Final \in Nat /\ Height \in Nat /\ Depth \in Nat
BY CollectorConstants, LenProperties DEF ChainHolds, Final, Height

(* What every step of the chain leaves as it was.                          *)
ChainKept ==
    /\ ChainHolds' /\ produced <= produced' /\ Final <= Final'
    /\ \A h \in 1..Final : h \in DOMAIN chain /\ h \in DOMAIN chain' /\ chain'[h] = chain[h]
    /\ \A b \in Block : b.id <= produced /\ Canonical(b)' => Canonical(b)

(* A new block leaves the final part of the chain alone. *)
LEMMA MineKeeps ==
    ASSUME ChainHolds, NEW S \in SUBSET Txns, Mine(S)
    PROVE  ChainKept
<1>1. /\ produced' = produced + 1 /\ chain' = Append(chain, [id |-> produced + 1, txns |-> S])
      /\ peak' = IF Height + 1 > peak THEN Height + 1 ELSE peak
      /\ chain \in Seq(ChainBlock) /\ peak \in Nat /\ produced \in Nat
      /\ Final <= Height /\ Height <= peak /\ Height \in Nat /\ Final \in Nat /\ Depth \in Nat
  BY FinalBelow DEF Mine, ChainHolds
<1> DEFINE n == [id |-> produced + 1, txns |-> S]
<1>2. n \in ChainBlock
  BY <1>1 DEF ChainBlock
<1>3. /\ chain' \in Seq(ChainBlock) /\ Len(chain') = Len(chain) + 1
      /\ DOMAIN chain = 1..Height /\ DOMAIN chain' = 1..(Height + 1)
      /\ chain'[Height + 1] = n /\ \A h \in 1..Height : chain'[h] = chain[h]
  <2> HIDE DEF n
  <2>1. chain' = Append(chain, n)
    BY <1>1 DEF n
  <2>2. /\ chain' \in Seq(ChainBlock) /\ Len(chain') = Len(chain) + 1
        /\ chain'[Len(chain) + 1] = n /\ \A h \in 1..Len(chain) : chain'[h] = chain[h]
    BY <1>1, <1>2, <2>1, AppendProperties
  <2>3. DOMAIN chain = 1..Len(chain) /\ DOMAIN chain' = 1..Len(chain')
    BY <1>1, <2>2, LenProperties
  <2>4. Height = Len(chain)
    BY DEF Height
  <2>5. chain'[Height + 1] = n
    BY <2>2, <2>4
  <2>6. Height + 1 = Len(chain')
    BY <2>2, <2>4, SMTT(40)
  <2>7. DOMAIN chain = 1..Height /\ DOMAIN chain' = 1..(Height + 1)
    BY <2>3, <2>4, <2>6
  <2>8. \A h \in 1..Height : chain'[h] = chain[h]
    BY <2>2, <2>4
  <2> QED BY <2>2, <2>5, <2>7, <2>8
<1>4. Height' = Height + 1 /\ peak' \in Nat /\ Height' <= peak' /\ peak <= peak'
  BY <1>1, <1>3 DEF Height
<1>5. Final <= Final' /\ Final' <= Height'
  BY <1>1, <1>4 DEF Final
<1>6. \A h \in DOMAIN chain' : chain'[h].id <= produced'
  <2>1. n.id = produced + 1
    OBVIOUS
  <2>2. \A h \in 1..Height : chain[h] \in ChainBlock
    BY <1>1, ElementOfSeq DEF Height
  <2>3. \A h \in 1..Height : chain[h].id \in Nat
    BY <2>2 DEF ChainBlock
  <2>4. \A h \in 1..Height : chain[h].id <= produced
    BY <1>3 DEF ChainHolds
  <2> HIDE DEF n
  <2> QED BY <1>1, <1>3, <2>1, <2>3, <2>4
<1>7. ASSUME NEW b \in Block, b.id <= produced, Canonical(b)' PROVE Canonical(b)
  <2>1. b.number \in DOMAIN chain' /\ chain'[b.number].id = b.id
    BY <1>7 DEF Canonical
  <2>2. b.number # Height + 1
    BY <1>1, <1>3, <1>7, <2>1 DEF Block
  <2> HIDE DEF n
  <2>3. b.number \in 1..Height
    BY <1>1, <1>3, <2>1, <2>2
  <2> QED BY <1>3, <2>1, <2>3 DEF Canonical
<1>8. \A h \in 1..Final : h \in 1..Height /\ h \in 1..(Height + 1)
  BY <1>1
<1> HIDE DEF n
<1> QED BY <1>1, <1>3, <1>4, <1>5, <1>6, <1>7, <1>8 DEF ChainKept, ChainHolds

(* A reorganisation replaces only blocks above the final part. *)
LEMMA ReorganiseKeeps ==
    ASSUME ChainHolds, NEW h \in Nat, Reorganise(h)
    PROVE  ChainKept
<1>1. /\ chain' = SubSeq(chain, 1, h) /\ Final <= h /\ h < Height /\ UNCHANGED <<peak, produced>>
      /\ chain \in Seq(ChainBlock) /\ peak \in Nat /\ produced \in Nat
      /\ Final <= Height /\ Height <= peak /\ Height \in Nat /\ Final \in Nat
  BY FinalBelow DEF Reorganise, ChainHolds
<1>2. /\ chain' \in Seq(ChainBlock) /\ Len(chain') = h
      /\ DOMAIN chain = 1..Height /\ DOMAIN chain' = 1..h
      /\ \A i \in 1..h : chain'[i] = chain[i] /\ i \in 1..Height
  <2>1. \A i \in 1..h : chain[i] \in ChainBlock
    BY <1>1, ElementOfSeq DEF Height
  <2> QED BY <1>1, <2>1, SubSeqProperties, LenProperties DEF Height
<1>3. Height' = h /\ Final' = Final
  BY <1>1, <1>2 DEF Height, Final
<1>4. \A i \in DOMAIN chain' : chain'[i].id <= produced'
  BY <1>1, <1>2 DEF ChainHolds
<1>5. \A b \in Block : Canonical(b)' => Canonical(b)
  BY <1>2 DEF Canonical
<1>6. \A i \in 1..Final : i \in 1..h
  BY <1>1
<1> QED BY <1>1, <1>2, <1>3, <1>4, <1>5, <1>6 DEF ChainKept, ChainHolds
(* The final part of the chain does not change, nor what was mined in it.  *)
LEMMA FinalKept ==
    ASSUME ChainHolds, ChainKept
    PROVE  /\ Final \in Nat /\ Final' \in Nat /\ produced \in Nat /\ produced' \in Nat
           /\ \A b \in Block : b.number <= Final /\ Canonical(b) => Canonical(b)'
           /\ \A h \in Int : h <= Final => EventsIn(1, h)' = EventsIn(1, h)
<1>1. /\ Final \in Nat /\ Height \in Nat /\ DOMAIN chain = 1..Height
      /\ Final' \in Nat /\ Height' \in Nat /\ DOMAIN chain' = 1..Height'
  <2>1. Final \in Nat /\ Height \in Nat
    BY FinalBelow
  <2>2. ChainHolds'
    BY DEF ChainKept
  <2>3. Final' \in Nat /\ Height' \in Nat
    <3>1. chain' \in Seq(ChainBlock) /\ peak' \in Nat /\ Depth \in Nat
      BY <2>2, CollectorConstants DEF ChainHolds, ChainBlock
    <3>2. Len(chain') \in Nat
      BY <3>1, LenProperties
    <3>3. Height' \in Nat
      BY <3>2 DEF Height
    <3>4. Final' \in Nat
      <4>1. peak' \in Nat /\ Depth \in Nat
        BY <3>1
      <4>2. Final' = IF peak' > Depth THEN peak' - Depth ELSE 0
        BY DEF Final
      <4>3. \A p, d \in Nat : (IF p > d THEN p - d ELSE 0) \in Nat
        OBVIOUS
      <4>4. (IF peak' > Depth THEN peak' - Depth ELSE 0) \in Nat
        BY <4>1, <4>3, Zenon
      <4> QED BY <4>2, <4>4, Zenon
    <3> QED BY <3>3, <3>4
  <2>4. DOMAIN chain = 1..Height
    BY LenProperties DEF ChainHolds, Height
  <2>5. DOMAIN chain' = 1..Height'
    <3>1. chain' \in Seq(ChainBlock)
      BY <2>2 DEF ChainHolds, ChainBlock
    <3> QED BY <3>1, LenProperties DEF Height
  <2> QED BY <2>1, <2>3, <2>4, <2>5
<1>2. ASSUME NEW b \in Block, b.number <= Final, Canonical(b) PROVE Canonical(b)'
  <2>1. b.number \in 1..Final
    BY <1>1, <1>2 DEF Canonical, Block
  <2> QED BY <1>2, <2>1 DEF Canonical, ChainKept
<1>3. ASSUME NEW h \in Int, h <= Final PROVE EventsIn(1, h)' = EventsIn(1, h)
  <2>1. \A i \in 1..h : i \in 1..Final
    BY <1>1, <1>3
  <2>2. DOMAIN chain \cap 1..h = 1..h /\ DOMAIN chain' \cap 1..h = 1..h
    BY <2>1 DEF ChainKept
  <2>3. \A i \in 1..h : chain'[i] = chain[i]
    BY <2>1 DEF ChainKept
  <2> QED BY <2>2, <2>3 DEF EventsIn
<1>4. produced \in Nat /\ produced' \in Nat
  BY DEF ChainHolds, ChainKept
<1> QED BY <1>1, <1>2, <1>3, <1>4

(* What no step takes back.                                                *)
RowsKept ==
    /\ \A t \in Txns : /\ receipt[t] # NoBlock => receipt'[t] = receipt[t]
                       /\ latest'[t] = latest[t] \/ latest'[t].n > latest[t].n
                       /\ latest[t].state = "finalized" => latest'[t].state = "finalized"
                       /\ stage[t] = "completed" => stage'[t] = "completed"
    /\ events \subseteq events' /\ DOMAIN checkpoints \subseteq DOMAIN checkpoints'

(* A worker between two of its steps knows what it knew, whatever the      *)
(* others and the chain did.                                               *)
LEMMA FitsKept ==
    ASSUME ChainHolds, RowsHold, RowsHold', ChainKept, RowsKept,
           NEW r \in Job, ObserverFits(r), ScannerFits(r)
    PROVE  ObserverFits(r)' /\ ScannerFits(r)'
<1>1. /\ Final \in Nat /\ Final' \in Nat /\ produced \in Nat /\ produced' \in Nat
      /\ Final <= Final' /\ produced <= produced'
      /\ \A b \in Block : b.number <= Final /\ Canonical(b) => Canonical(b)'
      /\ \A b \in Block : b.id <= produced /\ ~Canonical(b) => ~Canonical(b)'
      /\ \A h \in Int : h <= Final => EventsIn(1, h)' = EventsIn(1, h)
  BY FinalKept DEF ChainKept
<1>2. /\ r.block \in Block /\ r.block.number \in Nat /\ r.block.id \in Nat /\ r.n \in Nat
  BY DEF Job, Block
<1>3. ObserverFits(r)'
  <2>1. ASSUME r.pc \in {"latest", "included", "set_included", "head", "confirm", "finalized",
                         "set_finalized", "recheck", "orphaned", "set_orphaned"}
        PROVE  r.t \in Txns /\ receipt[r.t] # NoBlock /\ r.block = receipt[r.t] /\ receipt'[r.t] = receipt[r.t]
    BY <2>1 DEF ObserverFits, RowsKept
  <2>2. ASSUME r.pc = "collect" PROVE r.t \in Txns /\ r.block # NoBlock /\ r.block.id <= produced'
    BY <1>1, <1>2, <2>2 DEF ObserverFits
  <2>3. ASSUME r.pc = "included"
        PROVE  r.n <= latest'[r.t].n /\ (r.n = latest'[r.t].n => latest'[r.t].state # "finalized")
    <3>1. /\ r.t \in Txns /\ r.n <= latest[r.t].n
          /\ r.n = latest[r.t].n => latest[r.t].state # "finalized"
      BY <2>3 DEF ObserverFits
    <3>2. latest'[r.t] = latest[r.t] \/ latest'[r.t].n > latest[r.t].n
      BY <3>1 DEF RowsKept
    <3>3. latest[r.t].n \in Nat /\ latest'[r.t].n \in Nat
      BY <3>1 DEF RowsHold, Observation
    <3> QED BY <1>2, <3>1, <3>2, <3>3
  <2>4. ASSUME r.pc \in {"confirm", "finalized", "set_finalized"} PROVE r.block.number <= Final'
    BY <1>1, <1>2, <2>4 DEF ObserverFits
  <2>5. ASSUME r.pc \in {"finalized", "set_finalized"} PROVE Canonical(r.block)'
    BY <1>1, <1>2, <2>5 DEF ObserverFits
  <2>6. ASSUME r.pc = "set_finalized" PROVE latest'[r.t].state = "finalized"
    BY <2>1, <2>6 DEF ObserverFits, RowsKept
  <2>7. ASSUME r.pc \in {"orphaned", "set_orphaned"} PROVE ~Canonical(r.block)'
    <3>1. r.t \in Txns /\ r.block = receipt[r.t] /\ ~Canonical(r.block)
      BY <2>7 DEF ObserverFits
    <3>2. r.block.id <= produced
      BY <3>1 DEF RowsHold, RowHolds
    <3> QED BY <1>1, <1>2, <3>1, <3>2
  <2>8. ASSUME r.pc = "audit" PROVE \A t \in Txns : stage'[t] = "completed"
    BY <2>8 DEF ObserverFits, RowsKept
  <2> QED BY <2>1, <2>2, <2>3, <2>4, <2>5, <2>6, <2>7, <2>8 DEF ObserverFits
<1>4. ScannerFits(r)'
  <2>1. ASSUME r.pc \in {"page", "advance"}
        PROVE  \E target \in r.todo :
                 /\ r.todo = {target} /\ target \in Nat /\ target <= Final'
                 /\ r.pc = "page" => /\ r.block.number <= target
                                     /\ EventsIn(1, r.block.number)' \subseteq events'
                 /\ r.pc = "advance" => EventsIn(1, target)' \subseteq events'
    <3>1. PICK target \in r.todo :
             /\ r.todo = {target} /\ target \in Nat /\ target <= Final
             /\ r.pc = "page" => /\ r.block.number <= target
                                 /\ EventsIn(1, r.block.number) \subseteq events
             /\ r.pc = "advance" => EventsIn(1, target) \subseteq events
      BY <2>1 DEF ScannerFits
    <3>2. target <= Final'
      BY <1>1, <3>1
    <3>3. ASSUME r.pc = "page" PROVE EventsIn(1, r.block.number)' \subseteq events'
      <4>1. r.block.number <= Final /\ r.block.number \in Int
        BY <1>1, <1>2, <3>1, <3>3
      <4>2. EventsIn(1, r.block.number)' = EventsIn(1, r.block.number)
        BY <1>1, <4>1
      <4> QED BY <3>1, <3>3, <4>2 DEF RowsKept
    <3>4. ASSUME r.pc = "advance" PROVE EventsIn(1, target)' \subseteq events'
      <4>1. EventsIn(1, target)' = EventsIn(1, target)
        BY <1>1, <3>1
      <4> QED BY <3>1, <3>4, <4>1 DEF RowsKept
    <3> QED BY <3>1, <3>2, <3>3, <3>4
  <2>2. r.pc \in {"page", "backlog"} => r.n \in DOMAIN checkpoints'
    BY DEF ScannerFits, RowsKept
  <2> QED BY <2>1, <2>2 DEF ScannerFits
<1> QED BY <1>3, <1>4
-----------------------------------------------------------------------------
(* Steps, by what they write. *)

(* Nothing is canonical or final by a step that leaves the chain alone. *)
LEMMA StillChain ==
    ASSUME ChainHolds, UNCHANGED external
    PROVE  /\ ChainKept /\ Final' = Final /\ \A b : Canonical(b)' <=> Canonical(b)
           /\ \A h \in Int : EventsIn(1, h)' = EventsIn(1, h)
<1>1. UNCHANGED <<chain, peak, produced>>
  BY DEF external
<1>2. Final' = Final /\ Height' = Height /\ ChainHolds' /\ \A b : Canonical(b)' <=> Canonical(b)
  BY <1>1 DEF Final, Height, ChainHolds, Canonical, ChainBlock
<1>3. Final \in Nat /\ Height \in Nat /\ DOMAIN chain = 1..Height
  BY FinalBelow, LenProperties DEF ChainHolds, Height
<1>4. Final <= Height /\ produced \in Nat
  BY DEF ChainHolds
<1>5. \A h \in 1..Final : h \in 1..Height
  BY <1>3, <1>4
<1>6. ChainKept
  BY <1>1, <1>2, <1>3, <1>4, <1>5 DEF ChainKept
<1>7. \A h \in Int : EventsIn(1, h)' = EventsIn(1, h)
  BY <1>1 DEF EventsIn
<1> QED BY <1>2, <1>6, <1>7

(* The others keep what they know; the worker that moves must know its own. *)
LEMMA WorkerMoves ==
    ASSUME CollectorInv, ChainKept, RowsKept, RowsHold', CheckpointsHold',
           NEW w \in Workers, NEW o \in Job, worker' = [worker EXCEPT ![w] = o],
           ObserverFits(o)', ScannerFits(o)'
    PROVE  CollectorInv'
<1>1. /\ worker \in [Workers -> Job] /\ ChainHolds /\ RowsHold
      /\ \A v \in Workers : ObserverFits(worker[v]) /\ ScannerFits(worker[v])
  BY DEF CollectorInv, WorkersHold
<1>2. /\ worker' \in [Workers -> Job] /\ worker'[w] = o
      /\ \A v \in Workers : v # w => worker'[v] = worker[v]
  <2> HIDE DEF Job
  <2> QED BY <1>1
<1>3. ASSUME NEW r \in Job, ObserverFits(r) /\ ScannerFits(r) PROVE ObserverFits(r)' /\ ScannerFits(r)'
  BY <1>1, <1>3, FitsKept
<1>4. ASSUME NEW v \in Workers PROVE ObserverFits(worker[v])' /\ ScannerFits(worker[v])'
  <2>1. CASE v = w
    BY <1>2, <2>1 DEF ObserverFits, ScannerFits, Canonical, EventsIn, Final
  <2>2. CASE v # w
    <3> DEFINE r == worker[v]
    <3>1. r \in Job /\ ObserverFits(r) /\ ScannerFits(r) /\ worker'[v] = r
      BY <1>1, <1>2, <2>2
    <3>2. PICK q \in Job : q = r /\ ObserverFits(q) /\ ScannerFits(q)
      BY <3>1
    <3>3. ObserverFits(q)' /\ ScannerFits(q)'
      BY <1>3, <3>2
    <3>4. worker'[v] = q
      BY <3>1, <3>2
    <3> QED BY <3>3, <3>4 DEF ObserverFits, ScannerFits, Canonical, EventsIn, Final
  <2> QED BY <2>1, <2>2
<1>5. ChainHolds'
  BY DEF ChainKept
<1>6. WorkersHold'
  <2>1. Job' = Job
    BY DEF Job
  <2> QED BY <1>2, <1>4, <2>1 DEF WorkersHold
<1> QED BY <1>5, <1>6 DEF CollectorInv

(* A step of the chain, or one that moves no worker, keeps what the        *)
(* workers know.                                                           *)
LEMMA OthersKeep ==
    ASSUME CollectorInv, ChainKept, RowsKept, RowsHold', CheckpointsHold', UNCHANGED worker
    PROVE  CollectorInv'
<1>1. ASSUME NEW w \in Workers PROVE CollectorInv'
  <2>1. /\ worker[w] \in Job /\ worker' = [worker EXCEPT ![w] = worker[w]]
        /\ ObserverFits(worker[w]) /\ ScannerFits(worker[w]) /\ ChainHolds /\ RowsHold
    BY DEF CollectorInv, WorkersHold
  <2>2. PICK o \in Job : o = worker[w] /\ ObserverFits(o) /\ ScannerFits(o)
    BY <2>1
  <2>3. ObserverFits(o)' /\ ScannerFits(o)'
    BY <2>1, <2>2, FitsKept
  <2> QED BY <2>1, <2>2, <2>3, WorkerMoves
<1>2. ASSUME Workers = {} PROVE CollectorInv'
  <2>1. ChainHolds' /\ Job' = Job
    BY DEF ChainKept, Job
  <2>2. WorkersHold'
    BY <1>2, <2>1 DEF CollectorInv, WorkersHold
  <2> QED BY <2>1, <2>2 DEF CollectorInv
<1> QED BY <1>1, <1>2

(* Nothing is written: the rows and the checkpoints are what they were.    *)
LEMMA RowsStill ==
    ASSUME CollectorInv, UNCHANGED <<receipt, latest, txn, stage, frozen, external>>
    PROVE  /\ RowsHold'
           /\ \A t \in Txns : /\ receipt[t] # NoBlock => receipt'[t] = receipt[t]
                              /\ latest'[t] = latest[t] \/ latest'[t].n > latest[t].n
                              /\ latest[t].state = "finalized" => latest'[t].state = "finalized"
                              /\ stage[t] = "completed" => stage'[t] = "completed"
<1>1. produced' = produced
  BY DEF external
<1>2. Final' = Final /\ \A b : Canonical(b)' <=> Canonical(b)
  BY StillChain DEF CollectorInv
<1>3. \A t \in Txns : RowHolds(t)
  BY DEF CollectorInv, RowsHold
<1>4. ASSUME NEW t \in Txns PROVE RowHolds(t)'
  <2>1. Canonical(receipt[t])' <=> Canonical(receipt[t])
    BY DEF Canonical, external
  <2> QED BY <1>1, <1>2, <1>3, <2>1 DEF RowHolds
<1>5. RowsHold'
  BY <1>4 DEF CollectorInv, RowsHold, Block, Observation
<1> QED BY <1>5

(* A step of finality alone keeps the checkpoints. *)
LEMMA CheckpointsStill ==
    ASSUME CollectorInv, UNCHANGED <<external, backfill>>
    PROVE  CheckpointsHold' /\ events \subseteq events' /\ DOMAIN checkpoints \subseteq DOMAIN checkpoints'
<1>1. UNCHANGED <<chain, peak, produced, checkpoints, events>>
  BY DEF external, backfill
<1> QED BY <1>1 DEF CollectorInv, CheckpointsHold, EventsIn, Final, Checkpoint

(* A step that only reads.                                                 *)
LEMMA ReadStep ==
    ASSUME CollectorInv, UNCHANGED <<external, backfill>>,
           UNCHANGED <<receipt, latest, txn, stage, frozen>>,
           NEW w \in Workers, NEW o \in Job, worker' = [worker EXCEPT ![w] = o],
           ObserverFits(o), ScannerFits(o)
    PROVE  CollectorInv'
<1>1. ChainHolds /\ RowsHold
  BY DEF CollectorInv
<1>2. ChainKept
  BY <1>1, StillChain
<1>3. RowsHold' /\ CheckpointsHold' /\ RowsKept
  BY RowsStill, CheckpointsStill DEF RowsKept
<1>4. ObserverFits(o)' /\ ScannerFits(o)'
  BY <1>1, <1>2, <1>3, FitsKept
<1> QED BY <1>2, <1>3, <1>4, WorkerMoves

(* A step that writes the rows of one transaction.                         *)
LEMMA RowStep ==
    ASSUME CollectorInv, UNCHANGED <<external, backfill>>, NEW t \in Txns,
           receipt' \in [Txns -> Block], latest' \in [Txns -> Observation],
           txn' \in [Txns -> TxnStates], stage' \in [Txns -> StageStates],
           \A u \in Txns : u # t => /\ receipt'[u] = receipt[u] /\ latest'[u] = latest[u]
                                    /\ txn'[u] = txn[u] /\ stage'[u] = stage[u],
           RowHolds(t)', UNCHANGED frozen,
           receipt[t] # NoBlock => receipt'[t] = receipt[t],
           latest'[t] = latest[t] \/ latest'[t].n > latest[t].n,
           latest[t].state = "finalized" => latest'[t].state = "finalized",
           stage[t] = "completed" => stage'[t] = "completed",
           NEW w \in Workers, NEW o \in Job, worker' = [worker EXCEPT ![w] = o],
           ObserverFits(o)', ScannerFits(o)'
    PROVE  CollectorInv'
<1>1. ChainHolds /\ RowsHold /\ (\A u \in Txns : RowHolds(u)) /\ produced' = produced
  BY DEF CollectorInv, RowsHold, external
<1>2. ChainKept /\ Final' = Final /\ \A b : Canonical(b)' <=> Canonical(b)
  BY <1>1, StillChain
<1>3. CheckpointsHold' /\ events \subseteq events' /\ DOMAIN checkpoints \subseteq DOMAIN checkpoints'
  BY CheckpointsStill
<1>4. ASSUME NEW u \in Txns, u # t PROVE RowHolds(u)'
  <2>1. Canonical(receipt[u])' <=> Canonical(receipt[u])
    BY <1>4 DEF Canonical, external
  <2> QED BY <1>1, <1>2, <1>4, <2>1 DEF RowHolds
<1>5. RowsHold'
  BY <1>4 DEF RowsHold, Block, Observation
<1>6. RowsKept
  BY <1>3 DEF RowsKept
<1> QED BY <1>2, <1>3, <1>5, <1>6, WorkerMoves
-----------------------------------------------------------------------------
(* The steps. *)

Reads == UNCHANGED <<external, backfill>> /\ UNCHANGED <<receipt, latest, txn, stage, frozen>>

(* What the invariant says of one worker. *)
LEMMA WorkerKnows ==
    ASSUME CollectorInv, NEW w \in Workers
    PROVE  /\ worker[w] \in Job /\ ObserverFits(worker[w]) /\ ScannerFits(worker[w])
           /\ ChainHolds /\ RowsHold /\ \A t \in Txns : RowHolds(t)
           /\ Idle \in Job /\ ObserverFits(Idle) /\ ScannerFits(Idle)
           /\ ObserverFits(Idle)' /\ ScannerFits(Idle)'
<1>1. Idle \in Job /\ Idle.pc = "idle"
  BY DEF Idle, Job, Block, NoBlock, None, Pcs, Ops
<1>2. ObserverFits(Idle) /\ ScannerFits(Idle) /\ ObserverFits(Idle)' /\ ScannerFits(Idle)'
  BY <1>1 DEF ObserverFits, ScannerFits
<1>3. worker[w] \in Job
  BY DEF CollectorInv, WorkersHold
<1> QED BY <1>1, <1>2, <1>3 DEF CollectorInv, WorkersHold, RowsHold

(* A method that ends having only read. *)
LEMMA DoneReads ==
    ASSUME CollectorInv, NEW w \in Workers, Reads, Done(w)
    PROVE  CollectorInv'
<1>1. worker' = [worker EXCEPT ![w] = Idle]
  BY DEF Done, Go
<1>2. Idle \in Job /\ ObserverFits(Idle) /\ ScannerFits(Idle)
  BY WorkerKnows
<1> HIDE DEF Idle, Job, ObserverFits, ScannerFits
<1> QED BY <1>1, <1>2, ReadStep DEF Reads

(* Reading the receipt of a transaction from the node. *)
LEMMA ReadReceiptStep ==
    ASSUME CollectorInv, NEW w \in Workers, NEW t \in Txns, ReadReceipt(w, t)
    PROVE  CollectorInv'
<1> DEFINE o == [Idle EXCEPT !.pc = "collect", !.t = t, !.block = BlockOf(t)]
<1>1. Reads /\ worker' = [worker EXCEPT ![w] = o] /\ t \in Mined
  BY DEF ReadReceipt, Reads, finality, Go
<1>2. chain \in Seq(ChainBlock) /\ DOMAIN chain = 1..Height /\ Height \in Nat
      /\ \A h \in DOMAIN chain : chain[h].id <= produced
  BY FinalBelow, LenProperties DEF CollectorInv, ChainHolds, Height
<1>3. PICK h \in DOMAIN chain : BlockOf(t) = [number |-> h, id |-> chain[h].id]
  <2>1. \E i \in DOMAIN chain : t \in chain[i].txns
    BY <1>1 DEF Mined
  <2> QED BY <2>1 DEF BlockOf
<1>4. chain[h] \in ChainBlock /\ h \in Nat /\ h # 0
  <2>1. h \in 1..Len(chain)
    BY <1>2 DEF Height
  <2> QED BY <1>2, <2>1, ElementOfSeq
<1>5. /\ BlockOf(t) \in Block /\ BlockOf(t) # NoBlock /\ BlockOf(t).id <= produced
  BY <1>2, <1>3, <1>4 DEF Block, NoBlock, ChainBlock
<1>6. o \in Job /\ o.pc = "collect" /\ o.t = t /\ o.block = BlockOf(t)
  BY <1>5 DEF Job, Idle, Pcs, Ops, None
<1>7. ObserverFits(o) /\ ScannerFits(o)
  <2> HIDE DEF o
  <2> QED BY <1>5, <1>6 DEF ObserverFits, ScannerFits
<1> HIDE DEF o, Job, ObserverFits, ScannerFits
<1> QED BY <1>1, <1>6, <1>7, ReadStep DEF Reads

(* Reading the stored receipt before observing or finalising. *)
LEMMA CheckReceiptStep ==
    ASSUME CollectorInv, NEW w \in Workers, NEW t \in Txns, NEW op \in {"observe", "finalize"},
           CheckReceipt(w, t, op)
    PROVE  CollectorInv'
<1> DEFINE o == [Idle EXCEPT !.pc = "latest", !.op = op, !.t = t, !.block = receipt[t]]
<1>1. Reads /\ worker' = [worker EXCEPT ![w] = o] /\ receipt[t] # NoBlock
  BY DEF CheckReceipt, Reads, finality, Go
<1>2. receipt[t] \in Block
  BY DEF CollectorInv, RowsHold
<1>3. o \in Job /\ o.pc = "latest" /\ o.t = t /\ o.block = receipt[t]
  BY <1>2 DEF Job, Idle, Pcs, Ops, None
<1>4. ObserverFits(o) /\ ScannerFits(o)
  <2> HIDE DEF o
  <2> QED BY <1>1, <1>3 DEF ObserverFits, ScannerFits
<1> HIDE DEF o, Job, ObserverFits, ScannerFits
<1> QED BY <1>1, <1>3, <1>4, ReadStep DEF Reads

(* Reading the latest observation of the transaction. *)
LEMMA ReadLatestStep ==
    ASSUME CollectorInv, NEW w \in Workers, ReadLatest(w)
    PROVE  CollectorInv'
<1> DEFINE t == worker[w].t
           o == latest[t]
           known == o.state \in {"included", "finalized"} /\ o.block = worker[w].block
<1>1. Reads /\ worker[w].pc = "latest"
  BY DEF ReadLatest, Reads, finality, At
<1>2. /\ worker[w] \in Job /\ t \in Txns /\ receipt[t] # NoBlock /\ worker[w].block = receipt[t]
      /\ latest[t] \in Observation /\ RowHolds(t)
  BY <1>1, WorkerKnows DEF ObserverFits, RowsHold
<1>3. ASSUME NEW pc \in {"included", "head"}, pc = "included" => ~known,
             Go(w, [worker[w] EXCEPT !.pc = pc, !.n = o.n])
      PROVE  CollectorInv'
  <2> DEFINE r == [worker[w] EXCEPT !.pc = pc, !.n = o.n]
  <2>1. o.n \in Nat
    BY <1>2 DEF Observation
  <2>2. r \in Job /\ r.pc = pc /\ r.n = o.n /\ r.t = t /\ r.block = worker[w].block
    BY <1>2, <2>1 DEF Job, Pcs
  <2>3. pc = "included" => latest[t].state # "finalized"
    <3>1. latest[t].state = "finalized" => latest[t].block = receipt[t]
      BY <1>2 DEF RowHolds, None
    <3> QED BY <1>2, <1>3, <3>1
  <2>4. ObserverFits(r) /\ ScannerFits(r)
    <3> HIDE DEF r
    <3> QED BY <1>2, <2>1, <2>2, <2>3 DEF ObserverFits, ScannerFits
  <2>5. worker' = [worker EXCEPT ![w] = r]
    BY <1>3 DEF Go
  <2> HIDE DEF r, Job, ObserverFits, ScannerFits
  <2> QED BY <1>1, <2>2, <2>4, <2>5, ReadStep DEF Reads
<1>4. CASE Done(w)
  BY <1>1, <1>4, DoneReads
<1> QED BY <1>3, <1>4 DEF ReadLatest

(* Storing the receipt that was read. *)
LEMMA RecordReceiptStep ==
    ASSUME CollectorInv, NEW w \in Workers, RecordReceipt(w)
    PROVE  CollectorInv'
<1>1. /\ worker[w].pc = "collect" /\ UNCHANGED <<external, backfill>> /\ UNCHANGED <<latest, stage, frozen>>
      /\ worker' = [worker EXCEPT ![w] = Idle]
  BY DEF RecordReceipt, At, Done, Go
<1>2. /\ worker[w].t \in Txns /\ worker[w].block \in Block /\ worker[w].block # NoBlock
      /\ worker[w].block.id <= produced
      /\ Idle \in Job /\ ObserverFits(Idle)' /\ ScannerFits(Idle)'
  BY <1>1, WorkerKnows DEF ObserverFits, Job
<1>3. PICK t \in Txns, b \in Block : t = worker[w].t /\ b = worker[w].block
  BY <1>2
<1>4. RowHolds(t)
  BY WorkerKnows
<1>5. CASE UNCHANGED <<receipt, txn>>
  BY <1>1, <1>5, DoneReads DEF Reads, Done, Go
<1>6. CASE /\ receipt[t] = NoBlock /\ receipt' = [receipt EXCEPT ![t] = b]
           /\ txn' = [txn EXCEPT ![t] = IF @ \in {"included", "finalized"} THEN @ ELSE "included"]
  <2>1. /\ receipt \in [Txns -> Block] /\ latest \in [Txns -> Observation]
        /\ txn \in [Txns -> TxnStates] /\ stage \in [Txns -> StageStates]
    BY DEF CollectorInv, RowsHold
  <2>2. receipt' \in [Txns -> Block] /\ receipt'[t] = b /\ \A u \in Txns : u # t => receipt'[u] = receipt[u]
    BY <1>6, <2>1
  <2>3. /\ txn' \in [Txns -> TxnStates] /\ \A u \in Txns : u # t => txn'[u] = txn[u]
        /\ txn'[t] = "finalized" => txn[t] = "finalized"
    BY <1>6, <2>1 DEF TxnStates
  <2>4. latest[t].state = None
    BY <1>4, <1>6 DEF RowHolds
  <2>5. RowHolds(t)'
    <3>1. b.id <= produced' /\ UNCHANGED <<latest, stage, frozen>>
      BY <1>1, <1>2, <1>3 DEF external
    <3> QED BY <1>4, <2>2, <2>3, <2>4, <3>1 DEF RowHolds, None
  <2>6. latest'[t] = latest[t] /\ stage'[t] = stage[t]
    BY <1>1
  <2> HIDE DEF Idle, Job, ObserverFits, ScannerFits, RowHolds, Block, NoBlock
  <2> QED BY <1>1, <1>2, <1>6, <2>1, <2>2, <2>3, <2>5, <2>6, RowStep
<1> QED BY <1>3, <1>5, <1>6 DEF RecordReceipt

(* An observation never takes the place of a final one.                    *)
LEMMA AppendStep ==
    ASSUME CollectorInv, NEW w \in Workers,
           NEW state \in {"included", "finalized", "orphaned"},
           NEW next \in {"set_included", "set_finalized", "set_orphaned"},
           AppendObservation(w, state, next),
           UNCHANGED <<external, policy, receipt, txn, stage, frozen, backfill, crashes>>,
           worker[w].t \in Txns, receipt[worker[w].t] # NoBlock, worker[w].block = receipt[worker[w].t],
           state # "finalized" /\ worker[w].n = latest[worker[w].t].n
              => latest[worker[w].t].state # "finalized",
           state = "finalized" => Canonical(worker[w].block) /\ worker[w].block.number <= Final,
           next = "set_finalized" => state = "finalized",
           next = "set_orphaned" => ~Canonical(worker[w].block)
    PROVE  CollectorInv'
<1>1. PICK t \in Txns, n \in Nat, b \in Block :
         /\ t = worker[w].t /\ n = worker[w].n /\ b = worker[w].block /\ b = receipt[t] /\ b # NoBlock
  BY WorkerKnows DEF Job
<1>k. PICK k \in Nat : k = n + 1
  OBVIOUS
<1>2. worker[w] \in Job /\ RowHolds(t) /\ ChainHolds /\ UNCHANGED <<external, backfill>>
  BY WorkerKnows
<1> DEFINE new == [n |-> k, state |-> state, block |-> b]
<1>3. CASE Done(w) /\ UNCHANGED latest
  BY <1>3, DoneReads DEF Reads
<1>4. CASE /\ latest[t].n = n /\ latest' = [latest EXCEPT ![t] = new]
           /\ Go(w, [worker[w] EXCEPT !.pc = next, !.n = k])
  <2>1. /\ receipt \in [Txns -> Block] /\ latest \in [Txns -> Observation]
        /\ txn \in [Txns -> TxnStates] /\ stage \in [Txns -> StageStates]
    BY DEF CollectorInv, RowsHold
  <2>2. new \in Observation /\ new.n > latest[t].n /\ new.state = state /\ new.block = b
    BY <1>4, <1>k DEF Observation
  <2>3. /\ latest' \in [Txns -> Observation] /\ latest'[t] = new
        /\ \A u \in Txns : u # t => latest'[u] = latest[u]
    <3> HIDE DEF new
    <3> QED BY <1>4, <2>1, <2>2
  <2>4. latest[t].state = "finalized" => state = "finalized"
    BY <1>1, <1>4
  <2>5. (\A c : Canonical(c)' <=> Canonical(c)) /\ Final' = Final /\ produced' = produced
    BY <1>2, StillChain DEF external
  <2>6. receipt'[t] = b /\ receipt' = receipt /\ txn'[t] = txn[t] /\ stage'[t] = stage[t] /\ frozen' = frozen
    BY <1>1
  <2>7. RowHolds(t)'
    <3>1. Canonical(b) => Canonical(receipt[t])'
      BY <1>1, <1>2 DEF Canonical, external
    <3>2. stage[t] = "completed" => state = "finalized"
      BY <1>2, <2>4 DEF RowHolds
    <3> HIDE DEF new
    <3>3. latest'[t].state = state /\ latest'[t].block = b
      BY <2>2, <2>3
    <3>4. receipt'[t].id <= produced'
      BY <1>1, <1>2, <2>5, <2>6 DEF RowHolds
    <3>5. state = "finalized" => Canonical(b) /\ receipt'[t].number <= Final'
      BY <1>1, <2>5, <2>6
    <3>6. /\ txn'[t] = "finalized" => stage'[t] = "completed"
          /\ stage'[t] = "completed" => latest'[t].state = "finalized"
          /\ frozen' => stage'[t] = "completed"
      BY <1>2, <2>6, <3>2, <3>3 DEF RowHolds
    <3>7. latest'[t].state = "finalized" => Canonical(receipt[t])' /\ receipt'[t].number <= Final'
      BY <3>1, <3>3, <3>5
    <3>8. latest'[t].state # None => receipt'[t] # NoBlock /\ latest'[t].block = receipt'[t]
      BY <1>1, <2>6, <3>3
    <3> QED BY <3>4, <3>6, <3>7, <3>8 DEF RowHolds
  <2>8. PICK o \in Job : /\ o = [worker[w] EXCEPT !.pc = next, !.n = k]
                         /\ o.pc = next /\ o.t = t /\ o.block = b
    <3> DEFINE r == [worker[w] EXCEPT !.pc = next, !.n = k]
    <3>1. r \in Job /\ r.pc = next /\ r.t = t /\ r.block = b
      BY <1>1, <1>2 DEF Job, Pcs
    <3> HIDE DEF r
    <3>2. \E o \in Job : o = r /\ o.pc = next /\ o.t = t /\ o.block = b
      BY <3>1
    <3> QED BY <3>2 DEF r
  <2>9. worker' = [worker EXCEPT ![w] = o]
    BY <1>4, <2>8 DEF Go
  <2>10. ObserverFits(o)' /\ ScannerFits(o)'
    <3>1. next = "set_finalized" => o.block.number <= Final' /\ Canonical(o.block)'
      BY <1>1, <2>5, <2>8
    <3>2. next = "set_finalized" => latest'[o.t].state = "finalized"
      BY <2>2, <2>3, <2>8
    <3>3. next = "set_orphaned" => ~Canonical(o.block)'
      BY <1>1, <2>5, <2>8
    <3>4. receipt'[o.t] = o.block /\ o.block # NoBlock /\ o.t \in Txns
      BY <1>1, <2>6, <2>8
    <3>5. ObserverFits(o)'
      BY <2>8, <3>1, <3>2, <3>3, <3>4 DEF ObserverFits
    <3>6. ScannerFits(o)'
      BY <2>8 DEF ScannerFits
    <3> QED BY <3>5, <3>6
  <2>11. latest'[t].n > latest[t].n /\ (latest[t].state = "finalized" => latest'[t].state = "finalized")
    BY <2>2, <2>3, <2>4
  <2> HIDE DEF new, Idle, Job, ObserverFits, ScannerFits, RowHolds, Block, NoBlock
  <2>12. UNCHANGED <<receipt, txn, stage, frozen>>
    OBVIOUS
  <2> QED BY <1>2, <2>1, <2>3, <2>6, <2>7, <2>9, <2>10, <2>11, <2>12, RowStep
<1>5. \/ Done(w) /\ UNCHANGED latest
      \/ /\ latest[t].n = n /\ latest' = [latest EXCEPT ![t] = new]
         /\ Go(w, [worker[w] EXCEPT !.pc = next, !.n = k])
  BY <1>1, <1>k DEF AppendObservation
<1> QED BY <1>3, <1>4, <1>5

(* Appending an observation, which may lose against a newer one. *)
LEMMA AppendSteps ==
    ASSUME CollectorInv, NEW w \in Workers, AppendIncluded(w) \/ AppendFinalized(w) \/ AppendOrphaned(w)
    PROVE  CollectorInv'
<1>1. worker[w].pc \in {"included", "finalized", "orphaned"}
  BY DEF AppendIncluded, AppendFinalized, AppendOrphaned, At
<1>2. /\ worker[w].t \in Txns /\ receipt[worker[w].t] # NoBlock
      /\ worker[w].block = receipt[worker[w].t] /\ RowHolds(worker[w].t)
      /\ ObserverFits(worker[w])
  BY <1>1, WorkerKnows DEF ObserverFits
<1>3. UNCHANGED <<external, policy, receipt, txn, stage, frozen, backfill, crashes>>
  BY DEF AppendIncluded, AppendFinalized, AppendOrphaned
<1>4. CASE AppendIncluded(w)
  <2>1. worker[w].n = latest[worker[w].t].n => latest[worker[w].t].state # "finalized"
    BY <1>2, <1>4 DEF AppendIncluded, At, ObserverFits
  <2>2. AppendObservation(w, "included", "set_included")
    BY <1>4 DEF AppendIncluded
  <2> QED BY <1>2, <1>3, <2>1, <2>2, AppendStep
<1>5. CASE AppendFinalized(w)
  <2>1. Canonical(worker[w].block) /\ worker[w].block.number <= Final
    BY <1>2, <1>5 DEF AppendFinalized, At, ObserverFits
  <2>2. AppendObservation(w, "finalized", "set_finalized")
    BY <1>5 DEF AppendFinalized
  <2> QED BY <1>2, <1>3, <2>1, <2>2, AppendStep
<1>6. CASE AppendOrphaned(w)
  <2>1. ~Canonical(worker[w].block)
    BY <1>2, <1>6 DEF AppendOrphaned, At, ObserverFits
  <2>2. latest[worker[w].t].state # "finalized"
    BY <1>2, <2>1 DEF RowHolds
  <2>3. AppendObservation(w, "orphaned", "set_orphaned")
    BY <1>6 DEF AppendOrphaned
  <2> QED BY <1>2, <1>3, <2>1, <2>2, <2>3, AppendStep
<1> QED BY <1>4, <1>5, <1>6

(* The states of a transaction and its stage follow an observation, late.  *)
LEMMA SetStep ==
    ASSUME CollectorInv, NEW w \in Workers, NEW t \in Txns, NEW r \in TxnStates, NEW s \in StageStates,
           SetTransactionState(t, r, s),
           UNCHANGED <<external, backfill>>, UNCHANGED <<receipt, latest, frozen>>,
           s # stage[t] /\ s # "completed" => latest[t].state # "finalized",
           s = "completed" => latest[t].state = "finalized",
           r = "finalized" => s = "completed",
           NEW o \in Job, worker' = [worker EXCEPT ![w] = o], ObserverFits(o), ScannerFits(o),
           o.pc \in {"idle", "head", "next"}
    PROVE  CollectorInv'
<1>1. /\ receipt \in [Txns -> Block] /\ latest \in [Txns -> Observation]
      /\ txn \in [Txns -> TxnStates] /\ stage \in [Txns -> StageStates] /\ RowHolds(t)
  BY DEF CollectorInv, RowsHold
<1>2. /\ txn' \in [Txns -> TxnStates] /\ stage' \in [Txns -> StageStates] /\ txn'[t] = r /\ stage'[t] = s
      /\ \A u \in Txns : u # t => txn'[u] = txn[u] /\ stage'[u] = stage[u]
  BY <1>1 DEF SetTransactionState
<1>3. /\ receipt'[t] = receipt[t] /\ latest'[t] = latest[t] /\ frozen' = frozen
      /\ produced' = produced /\ Final' = Final /\ (Canonical(receipt[t])' <=> Canonical(receipt[t]))
  BY DEF external, Final, Canonical
<1>4. stage[t] = "completed" => s = "completed"
  BY <1>1 DEF RowHolds
<1>5. RowHolds(t)'
  BY <1>1, <1>2, <1>3, <1>4 DEF RowHolds
<1>6. ObserverFits(o)' /\ ScannerFits(o)'
  <2>1. o.pc = "head" => o.t \in Txns /\ receipt'[o.t] # NoBlock /\ o.block = receipt'[o.t]
    BY DEF ObserverFits
  <2> QED BY <2>1 DEF ObserverFits, ScannerFits
<1>7. receipt' = receipt /\ latest' = latest
  OBVIOUS
<1> HIDE DEF Job, ObserverFits, ScannerFits, RowHolds, Block, NoBlock
<1> QED BY <1>1, <1>2, <1>3, <1>4, <1>5, <1>6, <1>7, RowStep

(* Writing the state of the transaction and of its stage after the         *)
(* observation.                                                            *)
LEMMA SetSteps ==
    ASSUME CollectorInv, NEW w \in Workers, SetIncluded(w) \/ SetFinalized(w) \/ SetOrphaned(w)
    PROVE  CollectorInv'
<1>1. worker[w].pc \in {"set_included", "set_finalized", "set_orphaned"}
  BY DEF SetIncluded, SetFinalized, SetOrphaned, At
<1>2. PICK t \in Txns : t = worker[w].t /\ receipt[t] # NoBlock /\ worker[w].block = receipt[t]
  BY <1>1, WorkerKnows DEF ObserverFits
<1>3. /\ RowHolds(t) /\ ObserverFits(worker[w]) /\ worker[w] \in Job /\ stage[t] \in StageStates
      /\ Idle \in Job /\ ObserverFits(Idle) /\ ScannerFits(Idle) /\ Idle.pc = "idle"
  BY WorkerKnows DEF RowsHold, Idle
<1>4. UNCHANGED <<external, backfill>> /\ UNCHANGED <<receipt, latest, frozen>>
  BY DEF SetIncluded, SetFinalized, SetOrphaned
<1>5. CASE SetIncluded(w)
  <2>1. SetTransactionState(t, "included", stage[t]) /\ "included" \in TxnStates
    BY <1>2, <1>5 DEF SetIncluded, TxnStates
  <2>2. stage[t] = "completed" => latest[t].state = "finalized"
    BY <1>3 DEF RowHolds
  <2>3. \E o \in Job : /\ worker' = [worker EXCEPT ![w] = o] /\ ObserverFits(o) /\ ScannerFits(o)
                       /\ o.pc \in {"idle", "head", "next"}
    <3>1. CASE Done(w)
      BY <1>3, <3>1 DEF Done, Go
    <3>2. CASE Step(w, "head")
      <4> DEFINE o == [worker[w] EXCEPT !.pc = "head"]
      <4>1. o \in Job /\ o.pc = "head" /\ o.t = t /\ o.block = worker[w].block
        BY <1>2, <1>3 DEF Job, Pcs
      <4>2. worker' = [worker EXCEPT ![w] = o]
        BY <3>2 DEF Step, Go
      <4> HIDE DEF o
      <4>3. ObserverFits(o) /\ ScannerFits(o)
        BY <1>2, <4>1 DEF ObserverFits, ScannerFits
      <4> QED BY <4>1, <4>2, <4>3
    <3> QED BY <1>5, <3>1, <3>2 DEF SetIncluded
  <2>4. PICK o \in Job : /\ worker' = [worker EXCEPT ![w] = o] /\ ObserverFits(o) /\ ScannerFits(o)
                         /\ o.pc \in {"idle", "head", "next"}
    BY <2>3
  <2> HIDE DEF Job, ObserverFits, ScannerFits
  <2> QED BY <1>3, <1>4, <2>1, <2>2, <2>4, SetStep
<1>6. CASE SetFinalized(w)
  <2>1. SetTransactionState(t, "finalized", "completed") /\ "finalized" \in TxnStates /\ "completed" \in StageStates
    BY <1>2, <1>6 DEF SetFinalized, TxnStates, StageStates
  <2>2. latest[t].state = "finalized"
    BY <1>2, <1>3, <1>6 DEF SetFinalized, At, ObserverFits
  <2>3. worker' = [worker EXCEPT ![w] = Idle]
    BY <1>6 DEF SetFinalized, Done, Go
  <2> HIDE DEF Job, ObserverFits, ScannerFits, Idle
  <2> QED BY <1>3, <1>4, <2>1, <2>2, <2>3, SetStep
<1>7. CASE SetOrphaned(w)
  <2>1. SetTransactionState(t, "orphaned", "collecting") /\ "orphaned" \in TxnStates /\ "collecting" \in StageStates
    BY <1>2, <1>7 DEF SetOrphaned, TxnStates, StageStates
  <2>2. latest[t].state # "finalized"
    <3>1. ~Canonical(receipt[t])
      BY <1>2, <1>3, <1>7 DEF SetOrphaned, At, ObserverFits
    <3> QED BY <1>3, <3>1 DEF RowHolds
  <2> DEFINE o == [worker[w] EXCEPT !.pc = "next", !.op = "recheck"]
  <2>3. o \in Job /\ o.pc = "next"
    BY <1>3 DEF Job, Pcs, Ops
  <2>4. worker' = [worker EXCEPT ![w] = o]
    BY <1>7 DEF SetOrphaned, Go
  <2> HIDE DEF o
  <2>5. ObserverFits(o) /\ ScannerFits(o)
    BY <2>3 DEF ObserverFits, ScannerFits
  <2> HIDE DEF Job, ObserverFits, ScannerFits
  <2> QED BY <1>3, <1>4, <2>1, <2>2, <2>3, <2>4, <2>5, SetStep
<1> QED BY <1>5, <1>6, <1>7

(* Reading the head, by the kind of finality the policy asks for. *)
LEMMA ReadHeadStep ==
    ASSUME CollectorInv, NEW w \in Workers, ReadHead(w)
    PROVE  CollectorInv'
<1>1. Reads /\ worker[w].pc = "head"
  BY DEF ReadHead, Reads, finality, At
<1>2. /\ worker[w] \in Job /\ worker[w].t \in Txns /\ receipt[worker[w].t] # NoBlock
      /\ worker[w].block = receipt[worker[w].t] /\ worker[w].block \in Block
  BY <1>1, WorkerKnows DEF ObserverFits, Job
<1>3. CASE Done(w)
  BY <1>1, <1>3, DoneReads
<1>4. CASE Reached(worker[w].block.number) /\ Step(w, "confirm")
  <2>1. /\ Height \in Nat /\ Final \in Nat /\ peak \in Nat /\ Height <= peak
        /\ Depth \in Nat /\ Confirmations \in Nat /\ Depth < Confirmations
    BY FinalBelow, CollectorConstants DEF CollectorInv, ChainHolds
  <2>2. worker[w].block.number \in Nat
    BY <1>2 DEF Block
  <2>3. worker[w].block.number <= Final
    <3>1. CASE Final >= worker[w].block.number
      BY <2>1, <2>2, <3>1
    <3>2. CASE Height - worker[w].block.number + 1 >= Confirmations
      <4>1. worker[w].block.number <= peak - Depth
        BY <2>1, <2>2, <3>2
      <4> QED BY <2>1, <2>2, <4>1 DEF Final
    <3> QED BY <1>4, <3>1, <3>2 DEF Reached
  <2> DEFINE o == [worker[w] EXCEPT !.pc = "confirm"]
  <2>4. o \in Job /\ o.pc = "confirm" /\ o.t = worker[w].t /\ o.block = worker[w].block
    BY <1>2 DEF Job, Pcs
  <2>5. worker' = [worker EXCEPT ![w] = o]
    BY <1>4 DEF Step, Go
  <2> HIDE DEF o
  <2>6. ObserverFits(o) /\ ScannerFits(o)
    BY <1>2, <2>3, <2>4 DEF ObserverFits, ScannerFits
  <2> HIDE DEF Job, ObserverFits, ScannerFits
  <2> QED BY <1>1, <2>4, <2>5, <2>6, ReadStep DEF Reads
<1> QED BY <1>3, <1>4 DEF ReadHead

(* Comparing the block with the canonical one once more. *)
LEMMA ConfirmCanonicalStep ==
    ASSUME CollectorInv, NEW w \in Workers, ConfirmCanonical(w)
    PROVE  CollectorInv'
<1>1. Reads /\ worker[w].pc = "confirm"
  BY DEF ConfirmCanonical, Reads, finality, At
<1>2. /\ worker[w] \in Job /\ worker[w].t \in Txns /\ receipt[worker[w].t] # NoBlock
      /\ worker[w].block = receipt[worker[w].t] /\ worker[w].block.number <= Final
  BY <1>1, WorkerKnows DEF ObserverFits
<1>3. CASE Done(w)
  BY <1>1, <1>3, DoneReads
<1>4. CASE Canonical(worker[w].block) /\ Step(w, "finalized")
  <2> DEFINE o == [worker[w] EXCEPT !.pc = "finalized"]
  <2>1. o \in Job /\ o.pc = "finalized" /\ o.t = worker[w].t /\ o.block = worker[w].block
    BY <1>2 DEF Job, Pcs
  <2>2. worker' = [worker EXCEPT ![w] = o]
    BY <1>4 DEF Step, Go
  <2> HIDE DEF o
  <2>3. ObserverFits(o) /\ ScannerFits(o)
    BY <1>2, <1>4, <2>1 DEF ObserverFits, ScannerFits
  <2> HIDE DEF Job, ObserverFits, ScannerFits
  <2> QED BY <1>1, <2>1, <2>2, <2>3, ReadStep DEF Reads
<1> QED BY <1>3, <1>4 DEF ConfirmCanonical

(* Collecting the observations to be checked again. *)
LEMMA StartRecheckStep ==
    ASSUME CollectorInv, NEW w \in Workers, NEW op \in {"recheck", "audit"}, StartRecheck(w, op)
    PROVE  CollectorInv'
<1> DEFINE o == [Idle EXCEPT !.pc = "next", !.op = op, !.todo = Txns]
<1>1. Reads /\ worker' = [worker EXCEPT ![w] = o]
  BY DEF StartRecheck, Reads, finality, Go
<1>2. o \in Job /\ o.pc = "next"
  BY DEF Idle, Job, Block, NoBlock, None, Pcs, Ops
<1> HIDE DEF o
<1>3. ObserverFits(o) /\ ScannerFits(o)
  BY <1>2 DEF ObserverFits, ScannerFits
<1> HIDE DEF Job, ObserverFits, ScannerFits
<1> QED BY <1>1, <1>2, <1>3, ReadStep DEF Reads

(* Taking the next observation to be checked again. *)
LEMMA RecheckNextStep ==
    ASSUME CollectorInv, NEW w \in Workers, NEW t \in Txns, RecheckNext(w, t)
    PROVE  CollectorInv'
<1> DEFINE r == [worker[w] EXCEPT !.todo = @ \ {t}]
           o == [r EXCEPT !.pc = "recheck", !.t = t, !.n = latest[t].n, !.block = latest[t].block]
<1>1. Reads /\ worker[w].pc = "next"
  BY DEF RecheckNext, Reads, finality, At
<1>2. /\ worker[w] \in Job /\ RowHolds(t) /\ latest[t] \in Observation
  BY WorkerKnows DEF RowsHold
<1>3. r \in Job /\ r.pc = "next"
  BY <1>1, <1>2 DEF Job
<1>4. CASE Go(w, r)
  <2> HIDE DEF r
  <2>1. ObserverFits(r) /\ ScannerFits(r)
    BY <1>3 DEF ObserverFits, ScannerFits
  <2>2. worker' = [worker EXCEPT ![w] = r]
    BY <1>4 DEF Go
  <2> HIDE DEF Job, ObserverFits, ScannerFits
  <2> QED BY <1>1, <1>3, <2>1, <2>2, ReadStep DEF Reads
<1>5. CASE latest[t].state \in {"included", "finalized"} /\ Go(w, o)
  <2>1. latest[t].n \in Nat /\ latest[t].block \in Block
    BY <1>2 DEF Observation
  <2>2. o \in Job /\ o.pc = "recheck" /\ o.t = t /\ o.block = latest[t].block
    <3> HIDE DEF r
    <3> QED BY <1>3, <2>1 DEF Job, Pcs
  <2> HIDE DEF o
  <2>3. receipt[t] # NoBlock /\ latest[t].block = receipt[t]
    BY <1>2, <1>5 DEF RowHolds, None
  <2>4. ObserverFits(o) /\ ScannerFits(o)
    BY <2>2, <2>3 DEF ObserverFits, ScannerFits
  <2>5. worker' = [worker EXCEPT ![w] = o]
    BY <1>5 DEF Go
  <2> HIDE DEF Job, ObserverFits, ScannerFits
  <2> QED BY <1>1, <2>2, <2>4, <2>5, ReadStep DEF Reads
<1> QED BY <1>4, <1>5 DEF RecheckNext

(* Checking whether its block is still canonical. *)
LEMMA RecheckCanonicalStep ==
    ASSUME CollectorInv, NEW w \in Workers, RecheckCanonical(w)
    PROVE  CollectorInv'
<1>1. Reads /\ worker[w].pc = "recheck"
  BY DEF RecheckCanonical, Reads, finality, At
<1>2. /\ worker[w] \in Job /\ worker[w].t \in Txns /\ receipt[worker[w].t] # NoBlock
      /\ worker[w].block = receipt[worker[w].t]
  BY <1>1, WorkerKnows DEF ObserverFits
<1>3. CASE Done(w)
  BY <1>1, <1>3, DoneReads
<1>4. ASSUME NEW pc \in {"next", "orphaned"}, pc = "orphaned" => ~Canonical(worker[w].block), Step(w, pc)
      PROVE  CollectorInv'
  <2> DEFINE o == [worker[w] EXCEPT !.pc = pc]
  <2>1. o \in Job /\ o.pc = pc /\ o.t = worker[w].t /\ o.block = worker[w].block
    BY <1>2 DEF Job, Pcs
  <2>2. worker' = [worker EXCEPT ![w] = o]
    BY <1>4 DEF Step, Go
  <2> HIDE DEF o
  <2>3. ObserverFits(o) /\ ScannerFits(o)
    BY <1>2, <1>4, <2>1 DEF ObserverFits, ScannerFits
  <2> HIDE DEF Job, ObserverFits, ScannerFits
  <2> QED BY <1>1, <2>1, <2>2, <2>3, ReadStep DEF Reads
<1> QED BY <1>3, <1>4 DEF RecheckCanonical

(* The audit starts its last reading when every transaction is finalised,  *)
(* and so every stage completed.                                           *)
LEMMA EndRecheckStep ==
    ASSUME CollectorInv, NEW w \in Workers, EndRecheck(w)
    PROVE  CollectorInv'
<1>1. Reads
  BY DEF EndRecheck, Reads, finality
<1>2. CASE Done(w)
  BY <1>1, <1>2, DoneReads
<1>3. CASE (\A t \in Txns : txn[t] = "finalized") /\ Step(w, "audit")
  <2> DEFINE o == [worker[w] EXCEPT !.pc = "audit"]
  <2>1. o \in Job /\ o.pc = "audit"
    BY WorkerKnows DEF Job, Pcs
  <2>2. worker' = [worker EXCEPT ![w] = o]
    BY <1>3 DEF Step, Go
  <2>3. \A t \in Txns : stage[t] = "completed"
    BY <1>3, WorkerKnows DEF RowHolds
  <2> HIDE DEF o
  <2>4. ObserverFits(o) /\ ScannerFits(o)
    BY <2>1, <2>3 DEF ObserverFits, ScannerFits
  <2> HIDE DEF Job, ObserverFits, ScannerFits
  <2> QED BY <1>1, <2>1, <2>2, <2>4, ReadStep DEF Reads
<1> QED BY <1>2, <1>3 DEF EndRecheck

(* Freezing the run after the audit. *)
LEMMA AuditForFreezeStep ==
    ASSUME CollectorInv, NEW w \in Workers, AuditForFreeze(w)
    PROVE  CollectorInv'
<1>1. /\ UNCHANGED <<external, backfill>> /\ UNCHANGED <<receipt, latest, txn, stage>>
      /\ worker' = [worker EXCEPT ![w] = Idle] /\ worker[w].pc = "audit"
  BY DEF AuditForFreeze, At, Done, Go
<1>2. /\ ChainHolds /\ RowsHold /\ (\A t \in Txns : RowHolds(t))
      /\ Idle \in Job /\ ObserverFits(Idle)' /\ ScannerFits(Idle)'
      /\ \A t \in Txns : stage[t] = "completed"
  BY <1>1, WorkerKnows DEF ObserverFits
<1>3. ChainKept /\ Final' = Final /\ produced' = produced
  BY <1>1, <1>2, StillChain DEF external
<1>4. ASSUME NEW t \in Txns PROVE RowHolds(t)'
  <2>1. Canonical(receipt[t])' <=> Canonical(receipt[t])
    BY <1>1 DEF Canonical, external
  <2> QED BY <1>1, <1>2, <1>3, <2>1 DEF RowHolds
<1>5. RowsHold'
  BY <1>1, <1>2, <1>4 DEF RowsHold, Block, Observation
<1>6. CheckpointsHold' /\ RowsKept
  BY <1>1, CheckpointsStill DEF RowsKept
<1> QED BY <1>1, <1>2, <1>3, <1>5, <1>6, WorkerMoves
(* The chain acts: what is final stays, what is orphaned stays orphaned.   *)
LEMMA ChainStep ==
    ASSUME CollectorInv, ChainKept, UNCHANGED <<finality, backfill, worker>>
    PROVE  CollectorInv'
<1>1. /\ ChainHolds /\ RowsHold /\ (\A t \in Txns : RowHolds(t)) /\ CheckpointsHold
      /\ UNCHANGED <<receipt, latest, txn, stage, frozen, checkpoints, events>>
  BY DEF CollectorInv, RowsHold, finality, backfill
<1>2. /\ Final \in Nat /\ Final' \in Nat /\ produced \in Nat /\ produced' \in Nat
      /\ Final <= Final' /\ produced <= produced'
      /\ \A b \in Block : b.number <= Final /\ Canonical(b) => Canonical(b)'
      /\ \A h \in Int : h <= Final => EventsIn(1, h)' = EventsIn(1, h)
  BY <1>1, FinalKept DEF ChainKept
<1>3. ASSUME NEW t \in Txns PROVE RowHolds(t)'
  <2>1. PICK b \in Block : b = receipt[t]
    BY <1>1 DEF RowsHold
  <2>2. receipt'[t] = b /\ b.id \in Nat /\ b.number \in Nat
    BY <1>1, <2>1 DEF Block
  <2>3. b.id <= produced'
    BY <1>1, <1>2, <2>1, <2>2 DEF RowHolds
  <2>4. latest'[t].state = "finalized" => Canonical(receipt[t])' /\ receipt'[t].number <= Final'
    <3>1. ASSUME latest[t].state = "finalized" PROVE Canonical(b)' /\ b.number <= Final'
      BY <1>1, <1>2, <2>1, <2>2, <3>1 DEF RowHolds
    <3> QED BY <1>1, <2>2, <3>1 DEF Canonical
  <2> QED BY <1>1, <2>1, <2>2, <2>3, <2>4 DEF RowHolds
<1>4. RowsHold'
  BY <1>1, <1>3 DEF RowsHold, Block, Observation
<1>5. CheckpointsHold'
  <2>1. ASSUME NEW v \in DOMAIN checkpoints
        PROVE  checkpoints[v].height <= Final' /\ EventsIn(1, checkpoints[v].height)' \subseteq events
    <3>1. checkpoints[v].height \in Nat
      <4>1. checkpoints \in Seq(Checkpoint)
        BY <1>1 DEF CheckpointsHold
      <4>2. v \in 1..Len(checkpoints)
        BY <4>1, LenProperties
      <4>3. checkpoints[v] \in Checkpoint
        BY <4>1, <4>2, ElementOfSeq
      <4> QED BY <4>3 DEF Checkpoint
    <3>2. PICK h \in Nat : h = checkpoints[v].height
      BY <3>1
    <3>3. h <= Final /\ EventsIn(1, h) \subseteq events
      BY <1>1, <3>2 DEF CheckpointsHold
    <3>4. h <= Final' /\ EventsIn(1, h)' \subseteq events
      BY <1>2, <3>3
    <3> QED BY <1>1, <3>2, <3>4 DEF EventsIn
  <2> QED BY <1>1, <2>1 DEF CheckpointsHold, EventsIn, Checkpoint
<1>6. RowsKept
  BY <1>1 DEF RowsKept
<1>7. UNCHANGED worker
  OBVIOUS
<1> QED BY <1>4, <1>5, <1>6, <1>7, OthersKeep

-----------------------------------------------------------------------------
(* The backfill. *)

(* A step of the backfill leaves the chain and the rows alone.             *)
LEMMA BackfillFrame ==
    ASSUME CollectorInv, UNCHANGED <<external, finality>>
    PROVE  /\ ChainKept /\ RowsHold' /\ Final' = Final
           /\ \A h \in Int : EventsIn(1, h)' = EventsIn(1, h)
           /\ events \subseteq events' /\ DOMAIN checkpoints \subseteq DOMAIN checkpoints' => RowsKept
<1>1. UNCHANGED <<receipt, latest, txn, stage, frozen, external>>
  BY DEF finality
<1>2. ChainKept /\ Final' = Final /\ \A h \in Int : EventsIn(1, h)' = EventsIn(1, h)
  BY <1>1, StillChain DEF CollectorInv
<1> QED BY <1>1, <1>2, RowsStill DEF RowsKept

(* A checkpoint up to which every event is recorded may be created. *)
LEMMA CreateKeeps ==
    ASSUME CollectorInv, UNCHANGED <<external, finality>>, UNCHANGED events,
           NEW height \in Nat, height <= Final, EventsIn(1, height) \subseteq events,
           CreateCheckpoint(height)
    PROVE  CheckpointsHold' /\ DOMAIN checkpoints \subseteq DOMAIN checkpoints'
<1> DEFINE c == [height |-> height, state |-> "ready"]
<1>1. /\ checkpoints \in Seq(Checkpoint) /\ checkpoints' = Append(checkpoints, c)
      /\ c \in Checkpoint /\ c.height = height
  BY DEF CollectorInv, CheckpointsHold, CreateCheckpoint, Checkpoint
<1> HIDE DEF c
<1>2. /\ checkpoints' \in Seq(Checkpoint) /\ Len(checkpoints') = Len(checkpoints) + 1
      /\ checkpoints'[Len(checkpoints) + 1] = c
      /\ \A v \in 1..Len(checkpoints) : checkpoints'[v] = checkpoints[v]
  BY <1>1, AppendProperties
<1>3. /\ DOMAIN checkpoints = 1..Len(checkpoints) /\ Len(checkpoints) \in Nat
      /\ DOMAIN checkpoints' = 1..Len(checkpoints')
  BY <1>1, <1>2, LenProperties
<1>4. DOMAIN checkpoints' = DOMAIN checkpoints \cup {Len(checkpoints) + 1}
  BY <1>2, <1>3
<1>5. Final' = Final /\ chain' = chain
  BY BackfillFrame DEF external
<1>6. ASSUME NEW v \in DOMAIN checkpoints'
      PROVE  checkpoints'[v].height <= Final' /\ EventsIn(1, checkpoints[v].height)' \subseteq events'
  <2>1. CASE v = Len(checkpoints) + 1
    <3>1. checkpoints'[v].height = height
      BY <1>1, <1>2, <2>1
    <3> QED BY <1>5, <3>1 DEF EventsIn
  <2>2. CASE v \in DOMAIN checkpoints
    <3>1. checkpoints'[v] = checkpoints[v]
      BY <1>2, <1>3, <2>2
    <3>2. checkpoints[v].height <= Final /\ EventsIn(1, checkpoints[v].height) \subseteq events
      BY <2>2 DEF CollectorInv, CheckpointsHold
    <3> QED BY <1>5, <3>1, <3>2 DEF EventsIn
  <2> QED BY <1>4, <2>1, <2>2
<1> QED BY <1>2, <1>4, <1>6 DEF CheckpointsHold, Checkpoint

(* The operator's checkpoint, the first or the one after a backlog. *)
LEMMA NewCheckpointStep ==
    ASSUME CollectorInv, NewCheckpoint PROVE CollectorInv'
<1>1. UNCHANGED <<external, finality>> /\ UNCHANGED events /\ UNCHANGED worker
  BY DEF NewCheckpoint
<1>2. PICK height \in Nat : height <= Final /\ EventsIn(1, height) \subseteq events /\ CreateCheckpoint(height)
  <2>1. CASE CreateCheckpoint(Genesis)
    <3>1. EventsIn(1, 0) = {}
      BY DEF EventsIn
    <3>2. Final \in Nat
      BY FinalBelow DEF CollectorInv
    <3> QED BY <2>1, <3>1, <3>2 DEF Genesis
  <2>2. CASE checkpoints # <<>> /\ CreateCheckpoint(checkpoints[Len(checkpoints)].height)
    <3>1. checkpoints \in Seq(Checkpoint)
      BY DEF CollectorInv, CheckpointsHold
    <3>2. Len(checkpoints) \in 1..Len(checkpoints) /\ DOMAIN checkpoints = 1..Len(checkpoints)
      BY <2>2, <3>1, LenProperties, EmptySeq
    <3>3. checkpoints[Len(checkpoints)] \in Checkpoint
      BY <3>1, <3>2, ElementOfSeq
    <3>4. checkpoints[Len(checkpoints)].height \in Nat
      BY <3>3 DEF Checkpoint
    <3> QED BY <2>2, <3>2, <3>4 DEF CollectorInv, CheckpointsHold
  <2> QED BY <2>1, <2>2 DEF NewCheckpoint
<1>3. CheckpointsHold' /\ DOMAIN checkpoints \subseteq DOMAIN checkpoints'
  BY <1>1, <1>2, CreateKeeps
<1> QED BY <1>1, <1>3, BackfillFrame, OthersKeep

(* What a scanner in the middle of its scan knows of its target. *)
LEMMA TargetOf ==
    ASSUME CollectorInv, NEW w \in Workers, worker[w].pc \in {"page", "advance"}
    PROVE  /\ Target(w) \in Nat /\ Target(w) <= Final /\ worker[w].todo = {Target(w)}
           /\ worker[w].pc = "page" => /\ worker[w].block.number <= Target(w)
                                       /\ EventsIn(1, worker[w].block.number) \subseteq events
                                       /\ worker[w].n \in DOMAIN checkpoints
           /\ worker[w].pc = "advance" => EventsIn(1, Target(w)) \subseteq events
<1>1. ScannerFits(worker[w])
  BY WorkerKnows
<1>2. PICK target \in worker[w].todo :
         /\ worker[w].todo = {target} /\ target \in Nat /\ target <= Final
         /\ worker[w].pc = "page" => /\ worker[w].block.number <= target
                                     /\ EventsIn(1, worker[w].block.number) \subseteq events
         /\ worker[w].pc = "advance" => EventsIn(1, target) \subseteq events
  BY <1>1 DEF ScannerFits
<1>3. Target(w) = target
  BY <1>2 DEF Target
<1> QED BY <1>1, <1>2, <1>3 DEF ScannerFits

(* Starting a scan from the newest checkpoint, with its overlap. *)
LEMMA StartScanStep ==
    ASSUME CollectorInv, NEW w \in Workers, NEW target \in Genesis..Final, StartScan(w, target)
    PROVE  CollectorInv'
<1> DEFINE v == Len(checkpoints)
           h == checkpoints[v].height
           from == FromBlock(h) - 1
           o == [Idle EXCEPT !.pc = "page", !.n = v, !.todo = {target}, !.block = [number |-> from, id |-> 0]]
<1>1. /\ Reads /\ worker' = [worker EXCEPT ![w] = o] /\ checkpoints # <<>>
      /\ h <= target /\ target <= Final
  BY DEF StartScan, Reads, finality, Go
<1>2. checkpoints \in Seq(Checkpoint) /\ Final \in Nat
  BY FinalBelow DEF CollectorInv, CheckpointsHold
<1>3. v \in 1..v /\ v \in Nat /\ DOMAIN checkpoints = 1..v
  BY <1>1, <1>2, LenProperties, EmptySeq
<1>4. h \in Nat
  <2>1. checkpoints[v] \in Checkpoint
    BY <1>2, <1>3, ElementOfSeq
  <2> QED BY <2>1 DEF Checkpoint
<1>5. EventsIn(1, h) \subseteq events
  BY <1>3 DEF CollectorInv, CheckpointsHold
<1>6. from \in Nat /\ from <= h
  <2> HIDE DEF h
  <2> QED BY <1>4, CollectorConstants DEF FromBlock, Genesis
<1>7. EventsIn(1, from) \subseteq events
  <2>1. \A i \in 1..from : i \in 1..h
    <3> HIDE DEF from, h
    <3> QED BY <1>4, <1>6
  <2>2. EventsIn(1, from) \subseteq EventsIn(1, h)
    <3> HIDE DEF from, h
    <3> QED BY <2>1 DEF EventsIn
  <2> QED BY <1>5, <2>2
<1>8. target \in Nat
  BY <1>2 DEF Genesis
<1>9. /\ o \in Job /\ o.pc = "page" /\ o.n = v /\ o.todo = {target} /\ o.block.number = from
  <2> HIDE DEF v, from
  <2> QED BY <1>3, <1>6, <1>8 DEF Job, Idle, Pcs, Ops, None, Block
<1>10. ObserverFits(o) /\ ScannerFits(o)
  <2>1. from <= target
    <3> HIDE DEF from, h
    <3> QED BY <1>1, <1>4, <1>6, <1>8
  <2>2. v \in DOMAIN checkpoints
    BY <1>3
  <2> HIDE DEF o, from, v, h
  <2> QED BY <1>1, <1>7, <1>8, <1>9, <2>1, <2>2 DEF ObserverFits, ScannerFits
<1> HIDE DEF o, Job, ObserverFits, ScannerFits
<1> QED BY <1>1, <1>9, <1>10, ReadStep DEF Reads

(* A step of a scan that records events, and creates no checkpoint.        *)
LEMMA RecordStep ==
    ASSUME CollectorInv, UNCHANGED <<external, finality, checkpoints>>, events \subseteq events',
           NEW w \in Workers, NEW o \in Job, worker' = [worker EXCEPT ![w] = o],
           o.pc \in {"page", "backlog", "advance"},
           o.pc \in {"page", "backlog"} => o.n \in DOMAIN checkpoints,
           NEW target \in Nat, target <= Final, o.todo = {target},
           o.pc = "page" => o.block.number <= target /\ EventsIn(1, o.block.number) \subseteq events',
           o.pc = "advance" => EventsIn(1, target) \subseteq events'
    PROVE  CollectorInv'
<1>1. /\ ChainKept /\ RowsHold' /\ Final' = Final /\ RowsKept
      /\ \A h \in Int : EventsIn(1, h)' = EventsIn(1, h)
  BY BackfillFrame
<1>2. CheckpointsHold'
  BY <1>1 DEF CollectorInv, CheckpointsHold, EventsIn, Checkpoint, external
<1>3. ObserverFits(o)'
  BY DEF ObserverFits
<1>4. ScannerFits(o)'
  <2>1. o.block.number \in Int
    BY DEF Job, Block
  <2>2. EventsIn(1, o.block.number)' = EventsIn(1, o.block.number) /\ EventsIn(1, target)' = EventsIn(1, target)
    BY <1>1, <2>1
  <2> QED BY <1>1, <2>2 DEF ScannerFits
<1> QED BY <1>1, <1>2, <1>3, <1>4, WorkerMoves

(* A scan of the known transactions only. *)
LEMMA ScanKnownStep ==
    ASSUME CollectorInv, NEW w \in Workers, NEW t \in Txns, NEW complete \in BOOLEAN,
           ScanKnown(w, t, complete)
    PROVE  CollectorInv'
<1> DEFINE pc == IF complete THEN "page" ELSE "backlog"
           o == [worker[w] EXCEPT !.pc = pc]
<1>1. /\ worker[w].pc = "page" /\ UNCHANGED <<external, finality, checkpoints>>
      /\ events \subseteq events' /\ worker' = [worker EXCEPT ![w] = o]
  BY DEF ScanKnown, At, Step, Go
<1>2. /\ Target(w) \in Nat /\ Target(w) <= Final /\ worker[w].todo = {Target(w)}
      /\ worker[w].block.number <= Target(w) /\ EventsIn(1, worker[w].block.number) \subseteq events
      /\ worker[w].n \in DOMAIN checkpoints
  BY <1>1, TargetOf
<1>3. /\ o \in Job /\ o.pc \in {"page", "backlog"} /\ o.n = worker[w].n
      /\ o.todo = worker[w].todo /\ o.block = worker[w].block
  BY WorkerKnows DEF Job, Pcs
<1> HIDE DEF o, Job
<1>4. EventsIn(1, o.block.number) \subseteq events'
  BY <1>1, <1>2, <1>3
<1> QED BY <1>1, <1>2, <1>3, <1>4, RecordStep

(* Recording a page, complete or not. *)
LEMMA RecordPageStep ==
    ASSUME CollectorInv, NEW w \in Workers, NEW complete \in BOOLEAN, RecordPage(w, complete)
    PROVE  CollectorInv'
<1> DEFINE number == worker[w].block.number
           from == number + 1
           to == IF from + PageSize - 1 < Target(w) THEN from + PageSize - 1 ELSE Target(w)
           pages == worker[w].block.id + 1
           next == IF ~complete THEN "backlog"
                   ELSE IF to >= Target(w) THEN "advance"
                   ELSE IF pages = MaxPages THEN "backlog" ELSE "page"
           o == [worker[w] EXCEPT !.pc = next, !.block = [number |-> to, id |-> pages]]
<1>1. /\ worker[w].pc = "page" /\ UNCHANGED <<external, finality, checkpoints>>
      /\ events' = events \cup EventsIn(from, IF complete THEN to ELSE from - 1)
      /\ worker' = [worker EXCEPT ![w] = o]
  BY DEF RecordPage, At, Go
<1>2. /\ Target(w) \in Nat /\ Target(w) <= Final /\ worker[w].todo = {Target(w)}
      /\ number <= Target(w) /\ EventsIn(1, number) \subseteq events
      /\ worker[w].n \in DOMAIN checkpoints
  BY <1>1, TargetOf
<1>3. worker[w] \in Job /\ number \in Nat /\ pages \in Nat /\ PageSize \in Nat \ {0}
  BY WorkerKnows, CollectorConstants DEF Job, Block
<1>4. to \in Nat /\ number <= to /\ to <= Target(w)
  <2> HIDE DEF number
  <2> QED BY <1>2, <1>3
<1>5. next \in {"page", "backlog", "advance"} /\ (next = "advance" => to = Target(w))
      /\ (next # "backlog" => complete)
  <2> HIDE DEF to, pages
  <2> QED BY <1>2, <1>4
<1>6. /\ o \in Job /\ o.pc = next /\ o.n = worker[w].n /\ o.todo = worker[w].todo /\ o.block.number = to
  <2>1. [number |-> to, id |-> pages] \in Block
    <3> HIDE DEF to, pages
    <3> QED BY <1>3, <1>4 DEF Block
  <2> DEFINE b == [number |-> to, id |-> pages]
  <2>2. b \in Block /\ b.number = to
    BY <2>1
  <2>3. next \in Pcs
    <3> HIDE DEF next
    <3> QED BY <1>5 DEF Pcs
  <2> HIDE DEF b, next, to, pages
  <2>4. /\ [worker[w] EXCEPT !.pc = next, !.block = b] \in Job
        /\ [worker[w] EXCEPT !.pc = next, !.block = b].pc = next
        /\ [worker[w] EXCEPT !.pc = next, !.block = b].n = worker[w].n
        /\ [worker[w] EXCEPT !.pc = next, !.block = b].todo = worker[w].todo
        /\ [worker[w] EXCEPT !.pc = next, !.block = b].block = b
    BY <1>3, <2>2, <2>3 DEF Job
  <2> QED BY <2>2, <2>4 DEF b
<1>7. complete => EventsIn(1, to) \subseteq events'
  <2> HIDE DEF number, to, o, next, pages
  <2>1. \A i \in 1..to : i \in 1..number \/ i \in from..to
    BY <1>3, <1>4
  <2> HIDE DEF from
  <2>2. EventsIn(1, to) \subseteq EventsIn(1, number) \cup EventsIn(from, to)
    BY <2>1 DEF EventsIn
  <2> QED BY <1>1, <1>2, <2>2
<1>8. events \subseteq events'
  BY <1>1
<1> HIDE DEF number, from, to, pages, next, o, Job
<1>9. PICK target \in Nat : target = Target(w)
  BY <1>2
<1>10. /\ o.pc = "page" => o.block.number <= target /\ EventsIn(1, o.block.number) \subseteq events'
       /\ o.pc = "advance" => EventsIn(1, target) \subseteq events'
  BY <1>4, <1>5, <1>6, <1>7, <1>9
<1>11. o.pc \in {"page", "backlog", "advance"} /\ o.n \in DOMAIN checkpoints /\ o.todo = {target} /\ target <= Final
  BY <1>2, <1>5, <1>6, <1>9
<1> QED BY <1>1, <1>6, <1>8, <1>10, <1>11, RecordStep

(* Giving up a scan that has too many pages. *)
LEMMA BacklogStep ==
    ASSUME CollectorInv, NEW w \in Workers, Backlog(w) PROVE CollectorInv'
<1> DEFINE n == worker[w].n
<1>1. /\ UNCHANGED <<external, finality>> /\ UNCHANGED events
      /\ checkpoints' = [checkpoints EXCEPT ![n].state = "backlogged"]
      /\ worker' = [worker EXCEPT ![w] = Idle] /\ worker[w].pc = "backlog"
  BY DEF Backlog, At, Done, Go
<1>2. n \in DOMAIN checkpoints /\ checkpoints \in Seq(Checkpoint)
  BY <1>1, WorkerKnows DEF ScannerFits, CollectorInv, CheckpointsHold
<1>3. n \in 1..Len(checkpoints) /\ DOMAIN checkpoints = 1..Len(checkpoints)
  BY <1>2, LenProperties
<1> DEFINE c == [checkpoints[n] EXCEPT !.state = "backlogged"]
<1>4. c \in Checkpoint /\ c.height = checkpoints[n].height
  <2>1. checkpoints[n] \in Checkpoint
    BY <1>2, <1>3, ElementOfSeq
  <2> HIDE DEF n
  <2> QED BY <2>1 DEF Checkpoint
<1>5. checkpoints' = [checkpoints EXCEPT ![n] = c]
  BY <1>1
<1>6. /\ checkpoints' \in Seq(Checkpoint) /\ DOMAIN checkpoints' = DOMAIN checkpoints
      /\ \A v \in DOMAIN checkpoints : checkpoints'[v].height = checkpoints[v].height
  <2> HIDE DEF c, n
  <2>1. checkpoints' \in Seq(Checkpoint)
    BY <1>2, <1>3, <1>4, <1>5, ExceptSeq
  <2> QED BY <1>2, <1>4, <1>5, <2>1
<1>7. ChainKept /\ RowsHold' /\ RowsKept /\ Final' = Final
  BY <1>1, <1>6, BackfillFrame
<1>8. CheckpointsHold'
  BY <1>1, <1>6, <1>7 DEF CollectorInv, CheckpointsHold, EventsIn, Checkpoint, external
<1>9. Idle \in Job /\ ObserverFits(Idle)' /\ ScannerFits(Idle)'
  BY WorkerKnows
<1> HIDE DEF Idle, Job, ObserverFits, ScannerFits
<1> QED BY <1>1, <1>7, <1>8, <1>9, WorkerMoves

(* Creating the checkpoint at the end of a scan. *)
LEMMA AdvanceCheckpointStep ==
    ASSUME CollectorInv, NEW w \in Workers, AdvanceCheckpoint(w) PROVE CollectorInv'
<1>1. /\ UNCHANGED <<external, finality>> /\ UNCHANGED events /\ CreateCheckpoint(Target(w))
      /\ worker' = [worker EXCEPT ![w] = Idle] /\ worker[w].pc = "advance"
  BY DEF AdvanceCheckpoint, At, Done, Go
<1>2. PICK target \in Nat : target = Target(w) /\ target <= Final /\ EventsIn(1, target) \subseteq events
  BY <1>1, TargetOf
<1>3. CheckpointsHold' /\ DOMAIN checkpoints \subseteq DOMAIN checkpoints'
  BY <1>1, <1>2, CreateKeeps
<1>4. ChainKept /\ RowsHold' /\ RowsKept
  BY <1>1, <1>3, BackfillFrame
<1>5. Idle \in Job /\ ObserverFits(Idle)' /\ ScannerFits(Idle)'
  BY WorkerKnows
<1> HIDE DEF Idle, Job, ObserverFits, ScannerFits
<1> QED BY <1>1, <1>3, <1>4, <1>5, WorkerMoves
-----------------------------------------------------------------------------
(* Nothing is observed or scanned at first. *)
LEMMA CollectorInit == Init => CollectorInv
<1> SUFFICES ASSUME Init PROVE CollectorInv
  OBVIOUS
<1>1. /\ chain = <<>> /\ peak = 0 /\ produced = 0 /\ frozen = FALSE
      /\ receipt = [t \in Txns |-> NoBlock] /\ latest = [t \in Txns |-> NoObservation]
      /\ txn = [t \in Txns |-> "submitted"] /\ stage = [t \in Txns |-> "in_flight"]
      /\ checkpoints = <<>> /\ events = {} /\ worker = [w \in Workers |-> Idle]
  BY DEF Init
<1>2. ChainHolds
  <2>1. chain \in Seq(ChainBlock) /\ Len(chain) = 0
    BY <1>1, EmptySeq
  <2>2. DOMAIN chain = {}
    BY <2>1, LenProperties
  <2>3. Final = 0
    BY <1>1, CollectorConstants DEF Final
  <2> QED BY <1>1, <2>1, <2>2, <2>3 DEF ChainHolds, Height
<1>3. NoBlock \in Block /\ NoBlock.id = 0 /\ NoObservation \in Observation /\ NoObservation.state = None
  BY DEF NoBlock, Block, NoObservation, Observation
<1>4. RowsHold
  <2>1. "submitted" \in TxnStates /\ "in_flight" \in StageStates
    BY DEF TxnStates, StageStates
  <2> HIDE DEF NoBlock, NoObservation
  <2>2. \A t \in Txns : RowHolds(t)
    BY <1>1, <1>3 DEF RowHolds, None
  <2> QED BY <1>1, <1>3, <2>1, <2>2 DEF RowsHold
<1>5. CheckpointsHold
  <2>1. checkpoints \in Seq(Checkpoint) /\ Len(checkpoints) = 0
    BY <1>1, EmptySeq
  <2>2. DOMAIN checkpoints = {}
    BY <2>1, LenProperties
  <2> QED BY <2>1, <2>2 DEF CheckpointsHold
<1>6. WorkersHold
  <2>1. Idle \in Job /\ Idle.pc = "idle"
    BY DEF Idle, Job, Block, NoBlock, None, Pcs, Ops
  <2>2. ObserverFits(Idle) /\ ScannerFits(Idle)
    BY <2>1 DEF ObserverFits, ScannerFits
  <2> HIDE DEF Idle, Job, ObserverFits, ScannerFits
  <2> QED BY <1>1, <2>1, <2>2 DEF WorkersHold
<1> QED BY <1>2, <1>4, <1>5, <1>6 DEF CollectorInv

(* Every step keeps the invariant. *)
LEMMA CollectorStep == CollectorInv /\ [Next]_vars => CollectorInv'
<1> SUFFICES ASSUME CollectorInv, [Next]_vars PROVE CollectorInv'
  OBVIOUS
<1>c. ChainHolds
  BY DEF CollectorInv
<1>1. CASE UNCHANGED vars
  <2>1. UNCHANGED external /\ UNCHANGED <<finality, backfill, worker>>
    BY <1>1 DEF vars, external, finality, backfill
  <2>2. ChainKept
    BY <1>c, <2>1, StillChain
  <2> QED BY <2>1, <2>2, ChainStep
<1>2. ASSUME NEW S \in SUBSET Txns, Mine(S) PROVE CollectorInv'
  <2>1. UNCHANGED <<finality, backfill, worker>>
    BY <1>2 DEF Mine
  <2> QED BY <1>2, <1>c, <2>1, MineKeeps, ChainStep
<1>3. ASSUME NEW h \in Genesis..Height, Reorganise(h) PROVE CollectorInv'
  <2>1. UNCHANGED <<finality, backfill, worker>>
    BY <1>3 DEF Reorganise
  <2>2. h \in Nat
    BY DEF Genesis
  <2> QED BY <1>3, <1>c, <2>1, <2>2, ReorganiseKeeps, ChainStep
<1>4. ASSUME NEW w \in Workers, Crash(w) PROVE CollectorInv'
  <2>1. Reads /\ Done(w)
    BY <1>4 DEF Crash, Reads, finality
  <2> QED BY <2>1, DoneReads
<1>5. ASSUME NEW w \in Workers, Observing(w) PROVE CollectorInv'
  <2>1. ASSUME NEW t \in Txns, ReadReceipt(w, t) PROVE CollectorInv'
    BY <2>1, ReadReceiptStep
  <2>2. ASSUME NEW t \in Txns, NEW op \in {"observe", "finalize"}, CheckReceipt(w, t, op)
        PROVE  CollectorInv'
    BY <2>2, CheckReceiptStep
  <2>3. CASE RecordReceipt(w)
    BY <2>3, RecordReceiptStep
  <2>4. CASE ReadLatest(w)
    BY <2>4, ReadLatestStep
  <2>5. CASE ReadHead(w)
    BY <2>5, ReadHeadStep
  <2>6. CASE ConfirmCanonical(w)
    BY <2>6, ConfirmCanonicalStep
  <2>7. CASE AppendIncluded(w) \/ AppendFinalized(w)
    BY <2>7, AppendSteps
  <2>8. CASE SetIncluded(w) \/ SetFinalized(w)
    BY <2>8, SetSteps
  <2> HIDE DEF CollectorInv
  <2> QED BY <1>5, <2>1, <2>2, <2>3, <2>4, <2>5, <2>6, <2>7, <2>8 DEF Observing
<1>6. ASSUME NEW w \in Workers, Rechecking(w) PROVE CollectorInv'
  <2>1. ASSUME NEW op \in {"recheck", "audit"}, StartRecheck(w, op) PROVE CollectorInv'
    BY <2>1, StartRecheckStep
  <2>2. ASSUME NEW t \in Txns, RecheckNext(w, t) PROVE CollectorInv'
    BY <2>2, RecheckNextStep
  <2>3. CASE RecheckCanonical(w)
    BY <2>3, RecheckCanonicalStep
  <2>4. CASE AppendOrphaned(w)
    BY <2>4, AppendSteps
  <2>5. CASE SetOrphaned(w)
    BY <2>5, SetSteps
  <2>6. CASE EndRecheck(w)
    BY <2>6, EndRecheckStep
  <2>7. CASE AuditForFreeze(w)
    BY <2>7, AuditForFreezeStep
  <2> HIDE DEF CollectorInv
  <2> QED BY <1>6, <2>1, <2>2, <2>3, <2>4, <2>5, <2>6, <2>7 DEF Rechecking
<1>7. ASSUME NEW kind \in Kinds, RegisterPolicies(kind) PROVE CollectorInv'
  <2>1. UNCHANGED <<receipt, latest, txn, stage, frozen, external>> /\ UNCHANGED <<external, backfill>>
        /\ UNCHANGED worker
    BY <1>7 DEF RegisterPolicies
  <2>2. RowsHold' /\ CheckpointsHold' /\ RowsKept
    BY <2>1, RowsStill, CheckpointsStill DEF RowsKept
  <2>3. ChainKept
    BY <1>c, <2>1, StillChain
  <2> QED BY <2>1, <2>2, <2>3, OthersKeep
<1>8. ASSUME NEW w \in Workers, Scanning(w) PROVE CollectorInv'
  <2>1. ASSUME NEW target \in Genesis..Final, StartScan(w, target) PROVE CollectorInv'
    BY <2>1, StartScanStep
  <2>2. ASSUME NEW complete \in BOOLEAN, RecordPage(w, complete) PROVE CollectorInv'
    BY <2>2, RecordPageStep
  <2>3. ASSUME NEW complete \in BOOLEAN, NEW t \in Txns, ScanKnown(w, t, complete) PROVE CollectorInv'
    BY <2>3, ScanKnownStep
  <2>4. CASE Backlog(w)
    BY <2>4, BacklogStep
  <2>5. CASE AdvanceCheckpoint(w)
    BY <2>5, AdvanceCheckpointStep
  <2> HIDE DEF CollectorInv
  <2> QED BY <1>8, <2>1, <2>2, <2>3, <2>4, <2>5 DEF Scanning
<1> HIDE DEF CollectorInv
<1> QED BY <1>1, <1>2, <1>3, <1>4, <1>5, <1>6, <1>7, <1>8, NewCheckpointStep
        DEF Next, Environment, Collecting

(* What the rows, the checkpoints and the workers between two of their     *)
(* steps say of a chain that reorganises above its final part.             *)
THEOREM CollectorInvariant == Spec => []CollectorInv
<1>1. Init => CollectorInv
  BY CollectorInit
<1>2. CollectorInv /\ [Next]_vars => CollectorInv'
  BY CollectorStep
<1> QED BY <1>1, <1>2, PTL DEF Spec

(* A transaction recorded as final is on the canonical chain and stays     *)
(* there; a completed stage has a final transaction, and a passed audit is *)
(* about completed stages, whatever other collectors write late.           *)
THEOREM FinalityIsFinal == Spec => []FinalityHolds
<1>1. CollectorInv => FinalityHolds
  <2> SUFFICES ASSUME CollectorInv PROVE FinalityHolds
    OBVIOUS
  <2>1. \A t \in Txns : RowHolds(t)
    BY DEF CollectorInv, RowsHold
  <2>2. FinalIsCanonical
    <3> SUFFICES ASSUME NEW t \in Txns, latest[t].state = "finalized" PROVE Canonical(latest[t].block)
      BY DEF FinalIsCanonical
    <3>1. Canonical(receipt[t]) /\ latest[t].block = receipt[t]
      BY <2>1 DEF RowHolds, None
    <3> QED BY <3>1
  <2>3. FreezeIsFinal
    BY <2>1 DEF FreezeIsFinal, RowHolds
  <2> QED BY <2>2, <2>3 DEF FinalityHolds
<1> QED BY <1>1, CollectorInvariant, PTL

(* A checkpoint's height is a promise: every event of the chain up to it   *)
(* was recorded.                                                           *)
THEOREM CheckpointsAreComplete == Spec => []CheckpointComplete
<1>1. CollectorInv => CheckpointComplete
  BY DEF CollectorInv, CheckpointsHold, CheckpointComplete
<1> QED BY <1>1, CollectorInvariant, PTL
-----------------------------------------------------------------------------
(* The policy, the freeze and the counters. *)
CountsTyped ==
    /\ policy \in Kinds \cup {None} /\ frozen \in BOOLEAN
    /\ peak <= produced /\ produced <= MaxBlocks
    /\ crashes \in 0..MaxCrashes

(* Every step keeps them. *)
LEMMA CountsStep == ASSUME CollectorInv, CountsTyped, [Next]_vars PROVE CountsTyped'
<1> USE CollectorConstants DEF external, finality, backfill
<1>1. CASE UNCHANGED <<policy, frozen, peak, produced, crashes>>
  BY <1>1, Zenon DEF CountsTyped
<1>2. ASSUME NEW S \in SUBSET Txns, Mine(S) PROVE CountsTyped'
  <2>1. peak' <= produced' /\ produced' <= MaxBlocks
    BY <1>2, FinalBelow DEF Mine, CollectorInv, ChainHolds, CountsTyped
  <2> QED BY <1>2, <2>1 DEF Mine, CountsTyped
<1>3. ASSUME NEW h, Reorganise(h) PROVE CountsTyped'
  BY <1>1, <1>3 DEF Reorganise
<1>4. ASSUME NEW w \in Workers, Crash(w) PROVE CountsTyped'
  <2>1. crashes' \in 0..MaxCrashes
    BY <1>4 DEF Crash, CountsTyped
  <2> QED BY <1>4, <2>1 DEF Crash, CountsTyped
<1>5. ASSUME NEW kind \in Kinds, RegisterPolicies(kind) PROVE CountsTyped'
  BY <1>5, Zenon DEF RegisterPolicies, CountsTyped
<1>6. ASSUME NEW w \in Workers, AuditForFreeze(w) PROVE CountsTyped'
  <2>1. frozen' \in BOOLEAN
    BY <1>6, Zenon DEF AuditForFreeze
  <2> QED BY <1>6, <2>1 DEF AuditForFreeze, CountsTyped
<1>7. ASSUME NEW w \in Workers, Observing(w) \/ Rechecking(w) \/ Scanning(w) \/ NewCheckpoint,
             ~AuditForFreeze(w)
      PROVE  UNCHANGED <<policy, frozen, peak, produced, crashes>>
  BY <1>7, ZenonT(60)
     DEF Observing, Rechecking, Scanning, ReadReceipt, CheckReceipt, RecordReceipt, ReadLatest, AppendIncluded, SetIncluded,
             ReadHead, ConfirmCanonical, AppendFinalized, SetFinalized, StartRecheck, RecheckNext,
             RecheckCanonical, AppendOrphaned, SetOrphaned, EndRecheck, StartScan, RecordPage,
             ScanKnown, Backlog, AdvanceCheckpoint, NewCheckpoint
<1> QED BY <1>1, <1>2, <1>3, <1>4, <1>5, <1>6, <1>7 DEF Next, Environment, Collecting, vars

(* All rows and counters of the collectors keep their types, and the chain *)
(* its bounds.                                                             *)
THEOREM CollectorTypeCorrect == Spec => []TypeOK
<1>1. Init => CountsTyped
  <2> SUFFICES ASSUME Init PROVE CountsTyped
    OBVIOUS
  <2>1. frozen \in BOOLEAN
    BY Zenon DEF Init
  <2> QED BY <2>1, CollectorConstants DEF Init, CountsTyped
<1>2. CollectorInv /\ CountsTyped /\ [Next]_vars => CountsTyped'
  BY CountsStep
<1>3. CollectorInv /\ CountsTyped => TypeOK
  <2> SUFFICES ASSUME CollectorInv, CountsTyped PROVE TypeOK
    OBVIOUS
  <2>1. peak \in 0..MaxBlocks /\ produced \in 0..MaxBlocks /\ Len(chain) <= peak
    BY FinalBelow, CollectorConstants DEF CollectorInv, ChainHolds, CountsTyped, Height
  <2>2. \A t \in Txns : /\ latest[t].n \in Nat
                       /\ latest[t].state \in {None, "included", "finalized", "orphaned"}
                       /\ txn[t] \in TxnStates /\ stage[t] \in StageStates
    BY DEF CollectorInv, RowsHold, Observation
  <2>3. \A v \in DOMAIN checkpoints : checkpoints[v].state \in {"ready", "backlogged"}
    <3>1. checkpoints \in Seq(Checkpoint)
      BY DEF CollectorInv, CheckpointsHold
    <3>2. \A v \in DOMAIN checkpoints : checkpoints[v] \in Checkpoint
      BY <3>1, ElementOfSeq
    <3> QED BY <3>2 DEF Checkpoint
  <2> QED BY <2>1, <2>2, <2>3 DEF CountsTyped, TypeOK, TxnStates, StageStates
<1> QED BY <1>1, <1>2, <1>3, CollectorInvariant, PTL DEF Spec
=============================================================================
