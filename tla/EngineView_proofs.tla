--------------------------- MODULE EngineView_proofs ---------------------------
(***************************************************************************)
(* For every number of pieces, blocks and buffers, the engine announces a  *)
(* piece that is not in memory only when it was evicted while the result   *)
(* of its hash was on the way, or while the storage had no handle.         *)
(***************************************************************************)
EXTENDS EngineView, TLAPS

(* What the engine and the storage agree on: a good result is one of a     *)
(* piece that is still complete, or is known to be late.                   *)
Records ==
  /\ data \in [Pieces -> SUBSET Blocks]
  /\ results \subseteq [piece : Pieces, passed : BOOLEAN]

GoodIsComplete == \A p \in Pieces : Good(p) \in results => Complete(p) \/ p \in late

EInv == Records /\ GoodIsComplete /\ StaleOnlyIfLate

(* Initially nothing is announced and no result is on its way.             *)
LEMMA EngineInit == Init => EInv
BY DEF Init, EInv, Records, GoodIsComplete, StaleOnlyIfLate, Stale

(* restore_piece, for whatever piece it is called with, leaves no          *)
(* announcement of that piece and touches no other, and forgets that the   *)
(* piece is late only when no good result of it is on the way; or there is *)
(* no handle, and the piece is noted as untold.                            *)
LEMMA RestoreKeeps ==
  ASSUME EInv, NEW q, RestorePiece(q),
         UNCHANGED memory, results' = results,
         \/ UNCHANGED <<disk, victim>>
         \/ disk = "restore" /\ victim = q
  PROVE  EInv'
<1>1. Records'
  BY DEF EInv, Records, memory
<1>2. GoodIsComplete'
  BY DEF EInv, GoodIsComplete, RestorePiece, Tell, Complete, Good, memory
<1>3. StaleOnlyIfLate'
  BY DEF EInv, StaleOnlyIfLate, Stale, RestorePiece, Tell, Complete, memory
<1> QED BY <1>1, <1>2, <1>3 DEF EInv

(* A block more leaves a complete piece complete, and no other piece is    *)
(* touched.                                                                *)
LEMMA WriteKeeps ==
  ASSUME EInv, NEW p \in Pieces, NEW k \in Blocks, Writev(p, k)
  PROVE  EInv'
<1>1. Records'
  BY DEF EInv, Records, Writev
<1>2. \A q \in Pieces : Complete(q) => Complete(q)'
  BY DEF EInv, Records, Writev, Complete
<1>3. GoodIsComplete'
  BY <1>2 DEF EInv, GoodIsComplete, Writev, Good, history
<1>4. StaleOnlyIfLate'
  BY <1>2 DEF EInv, StaleOnlyIfLate, Stale, Writev, Arrives, history
<1> QED BY <1>1, <1>3, <1>4 DEF EInv

(* The piece that is evicted is late if its result is on the way, and is   *)
(* forgotten by the other half of remove_piece if it is announced.         *)
LEMMA EvictKeeps ==
  ASSUME EInv, Evict
  PROVE  EInv'
<1>0. PICK p \in Victims :
        /\ buffered' = buffered \ {p}
        /\ data' = [data EXCEPT ![p] = {}]
        /\ victim' = p
        /\ late' = IF Good(p) \in results THEN late \cup {p} ELSE late
  BY DEF Evict
<1>1. Records'
  BY <1>0 DEF EInv, Records, Evict, engine
<1>2. \A q \in Pieces \ {p} : Complete(q)' = Complete(q)
  BY <1>0 DEF EInv, Records, Complete
<1>3. GoodIsComplete'
  BY <1>0, <1>2 DEF EInv, GoodIsComplete, Evict, engine, Good
<1>4. StaleOnlyIfLate'
  BY <1>0, <1>2 DEF EInv, StaleOnlyIfLate, Stale, Evict, engine, history
<1> QED BY <1>1, <1>3, <1>4 DEF EInv

(* The hash of a piece passes only if the piece is complete.               *)
LEMMA HashKeeps ==
  ASSUME EInv, NEW p \in Pieces, Hash(p)
  PROVE  EInv'
<1>1. Complete(p) \in BOOLEAN
  BY DEF Complete
<1>2. Records'
  BY <1>1 DEF EInv, Records, Hash, memory
<1>3. \A q \in Pieces : Good(q) \in results' => Good(q) \in results \/ Complete(q)
  BY DEF Hash, Good
<1>4. GoodIsComplete'
  BY <1>3 DEF EInv, GoodIsComplete, Hash, Complete, memory, history
<1>5. StaleOnlyIfLate'
  BY DEF EInv, StaleOnlyIfLate, Stale, Hash, Complete, memory, threads, history
<1> QED BY <1>2, <1>4, <1>5 DEF EInv

(* What is announced is a complete piece, or one known to be late.         *)
LEMMA DeliverKeeps ==
  ASSUME EInv, NEW r \in results, Deliver(r)
  PROVE  EInv'
<1>1. Records'
  BY DEF EInv, Records, Deliver, memory
<1>2. GoodIsComplete'
  BY DEF EInv, GoodIsComplete, Deliver, Complete, memory, history
<1>3. r.passed => r = Good(r.piece) /\ r.piece \in Pieces
  BY DEF EInv, Records, Good
<1>4. r.passed => Complete(r.piece) \/ r.piece \in late
  BY <1>3 DEF EInv, GoodIsComplete
<1>5. StaleOnlyIfLate'
  BY <1>4 DEF EInv, StaleOnlyIfLate, Stale, Deliver, Complete, memory, threads, history
<1> QED BY <1>1, <1>2, <1>5 DEF EInv

(* No step of the threads, of the engine or of a restart breaks the        *)
(* agreement.                                                              *)
LEMMA EngineStep == EInv /\ [Next]_vars => EInv'
<1> SUFFICES ASSUME EInv, [Next]_vars PROVE EInv'
  OBVIOUS
<1>1. ASSUME NEW p \in Pieces, NEW k \in Blocks, Writev(p, k) PROVE EInv'
  BY <1>1, WriteKeeps
<1>2. ASSUME NEW p \in Pieces, NEW k \in Blocks, WritevRefused(p, k) PROVE EInv'
  BY <1>2, RestoreKeeps DEF WritevRefused, threads
<1>3. CASE Evict
  BY <1>3, EvictKeeps
<1>4. CASE RestoreVictim
  BY <1>4, RestoreKeeps DEF RestoreVictim
<1>5. CASE TrimDone
  BY <1>5 DEF TrimDone, EInv, Records, GoodIsComplete, StaleOnlyIfLate, Stale, Complete,
    memory, engine, history
<1>6. ASSUME NEW p \in Pieces, Hash(p) PROVE EInv'
  BY <1>6, HashKeeps
<1>7. ASSUME NEW r \in results, Deliver(r) PROVE EInv'
  BY <1>7, DeliverKeeps
<1>8. CASE \E p \in Pieces : Read(p)
  BY <1>8 DEF Read, EInv, Records, GoodIsComplete, StaleOnlyIfLate, Stale, Complete,
    memory, engine, history
<1>9. CASE Look
  BY <1>9 DEF Look, EInv, Records, GoodIsComplete, StaleOnlyIfLate, Stale, Complete,
    memory, engine, history
<1>10. CASE RestoreAsked
  BY <1>10, RestoreKeeps DEF RestoreAsked
<1>11. CASE \E p \in Pieces : SetPiecePriority(p)
  BY <1>11 DEF SetPiecePriority, EInv, Records, GoodIsComplete, StaleOnlyIfLate, Stale,
    Complete, memory, threads, history
<1>12. CASE SaveResumeData
  BY <1>12 DEF SaveResumeData, NoEffect, EInv, Records, GoodIsComplete, StaleOnlyIfLate,
    Stale, Complete, memory, threads, history
<1>13. CASE Restart
  BY <1>13 DEF Restart, VerifyResumeData, HasAnyFile, EInv, Records, GoodIsComplete, StaleOnlyIfLate,
    Stale
<1>14. CASE SetTorrentHandle
  BY <1>14 DEF SetTorrentHandle, EInv, Records, GoodIsComplete, StaleOnlyIfLate, Stale, Complete,
    memory, threads, engine, history
<1>15. CASE UNCHANGED vars
  BY <1>15 DEF vars, EInv, Records, GoodIsComplete, StaleOnlyIfLate, Stale, Complete,
    memory, threads, engine, history
<1> QED
  BY <1>1, <1>2, <1>3, <1>4, <1>5, <1>6, <1>7, <1>8, <1>9, <1>10, <1>11, <1>12, <1>13,
    <1>14, <1>15 DEF Next

(* With any number of pieces, blocks and buffers, through evictions,       *)
(* refused writes, failed hashes, misses and restarts, the engine          *)
(* announces a piece that is not in memory only between the two halves of  *)
(* remove_piece, when its good result came after its eviction, or when it  *)
(* went before there was a handle.                                         *)
THEOREM StaleIsLate == Spec => []StaleOnlyIfLate
<1>1. EInv => StaleOnlyIfLate
  BY DEF EInv
<1> QED BY <1>1, EngineInit, EngineStep, PTL DEF Spec

=============================================================================
