------------------------------ MODULE EngineView ------------------------------
(***************************************************************************)
(* memory_storage (src/memory_storage.hpp) and libtorrent's idea of what   *)
(* it holds.  The engine writes blocks, has a disk thread hash the piece   *)
(* when it counts all of them as written, and announces the piece when the *)
(* network thread gets the result; the storage evicts pieces and tells the *)
(* engine with restore_piece from whichever thread it is on, if it was     *)
(* given the torrent's handle; and a restart leaves the engine with its    *)
(* resume data and the storage with nothing.                               *)
(*                                                                         *)
(* The engine is not part of the repository: its actions are those the     *)
(* storage's functions are called from.  One disk thread writes.           *)
(***************************************************************************)
EXTENDS Integers, FiniteSets

CONSTANTS Pieces, NoPiece, Blocks, buffer_size

ASSUME EngineAssumption ==
  /\ NoPiece \notin Pieces
  /\ IsFiniteSet(Blocks) /\ Blocks # {}
  /\ buffer_size \in Nat \ {0}

VARIABLES
  buffered,   \* the pieces that have a buffer
  data,       \* data[p]: the blocks of p in its buffer
  size,       \* pieces[p].size in blocks, counted up to length
  m_handle,   \* set_torrent_handle was called
  is_reading,
  disk,       \* the writer: "idle", "trim" or, with m_mutex held, "restore"
  own, victim,  \* the piece it wrote, and the one it evicts
  player, asked,  \* its read: "idle", "look" or "restore", and the piece it reads
  have,       \* engine: the pieces it announces
  wanted,     \* engine: those of a priority other than 0
  finished,   \* engine: finished[p], the blocks it counts as written
  results,    \* engine: results of hash jobs on their way to the network thread
  resume,     \* engine: the resume data, the pieces it had when it was saved
  late,       \* history: pieces evicted while a good result of theirs was on its way
  untold      \* history: pieces that went without a handle to tell the engine with

memory == <<buffered, data, size>>
threads == <<is_reading, disk, own, victim, player, asked>>
engine == <<have, wanted, finished, results, resume>>
history == <<late, untold>>
vars == <<memory, m_handle, threads, engine, history>>

length == Cardinality(Blocks)

Complete(p) == p \in buffered /\ data[p] = Blocks
Stale(p) == p \in have /\ ~Complete(p)
Good(p) == [piece |-> p, passed |-> TRUE]

Init ==
  /\ buffered = {} /\ data = [p \in Pieces |-> {}] /\ size = [p \in Pieces |-> 0]
  /\ m_handle = FALSE
  /\ is_reading = FALSE /\ disk = "idle" /\ own = NoPiece /\ victim = NoPiece
  /\ player = "idle" /\ asked = NoPiece
  /\ have = {} /\ wanted = Pieces /\ finished = [p \in Pieces |-> {}] /\ results = {}
  /\ resume = {} /\ late = {} /\ untold = {}

(* A fault: we_dont_have is not called.                                    *)
TellKeepsHave(p) == wanted' = wanted \ {p} /\ UNCHANGED <<have, late, untold>>

(* Priority 0 and we_dont_have.                                            *)
Tell(p) ==
  /\ wanted' = wanted \ {p}
  /\ have' = have \ {p}
  /\ late' = IF Good(p) \in results THEN late ELSE late \ {p}
  /\ untold' = untold \ {p}

(* restore_piece, which tells the engine nothing without a handle.         *)
RestorePiece(p) ==
  \/ m_handle /\ Tell(p)
  \/ /\ ~m_handle
     /\ untold' = IF Stale(p) THEN untold \cup {p} ELSE untold
     /\ UNCHANGED <<wanted, have, late>>

(* is_readered: without a handle every piece is.                           *)
IsReadered(p) == m_handle => p \in wanted

SetTorrentHandle ==
  /\ m_handle' = TRUE
  /\ UNCHANGED <<memory, threads, engine, history>>

-----------------------------------------------------------------------------
(* The engine: a block that arrives, hash jobs and their results.          *)
Arrives(p, k) ==
  /\ disk = "idle" /\ p \notin have /\ k \notin finished[p]
  /\ finished' = [finished EXCEPT ![p] = @ \cup {k}]

(* writev that stores the block, and goes on to trim.                      *)
Writev(p, k) ==
  /\ Arrives(p, k)
  /\ \/ p \in buffered
     \/ Cardinality(buffered) < buffer_size /\ (is_reading => IsReadered(p))
  /\ buffered' = buffered \cup {p}
  /\ data' = [data EXCEPT ![p] = @ \cup {k}]
  /\ size' = [size EXCEPT ![p] = IF @ < length THEN @ + 1 ELSE @]
  /\ disk' = "trim" /\ own' = p
  /\ UNCHANGED <<m_handle, is_reading, victim, player, asked, have, wanted, results, resume,
                 history>>

(* writev that returns 0: the engine sees no error and counts the block.   *)
WritevRefused(p, k) ==
  /\ Arrives(p, k)
  /\ p \notin buffered /\ is_reading /\ ~IsReadered(p)
  /\ RestorePiece(p)
  /\ UNCHANGED <<memory, m_handle, threads, results, resume>>

(* trim: of the other pieces first those nobody wants, and remove_piece up *)
(* to its call of restore_piece.                                           *)
Victims ==
  LET others == buffered \ {own}
      unread == {p \in others : ~IsReadered(p)}
  IN  IF unread # {} THEN unread ELSE others

Evict ==
  /\ disk = "trim" /\ Cardinality(buffered) >= buffer_size
  /\ \E p \in Victims :
       /\ buffered' = buffered \ {p}
       /\ data' = [data EXCEPT ![p] = {}] /\ size' = [size EXCEPT ![p] = 0]
       /\ victim' = p
       /\ late' = IF Good(p) \in results THEN late \cup {p} ELSE late
  /\ disk' = "restore"
  /\ UNCHANGED <<m_handle, is_reading, own, player, asked, engine, untold>>

RestoreVictim ==
  /\ disk = "restore"
  /\ RestorePiece(victim)
  /\ disk' = "trim" /\ victim' = NoPiece
  /\ UNCHANGED <<memory, m_handle, is_reading, own, player, asked, finished, results, resume>>

TrimDone ==
  /\ disk = "trim" /\ Cardinality(buffered) < buffer_size
  /\ disk' = "idle" /\ own' = NoPiece
  /\ UNCHANGED <<memory, m_handle, is_reading, victim, player, asked, engine, history>>

(* readv for the hash; without a buffer it returns 0 and the hash is wrong. *)
Hash(p) ==
  /\ finished[p] = Blocks /\ p \notin have
  /\ \A r \in results : r.piece # p
  /\ results' = results \cup {[piece |-> p, passed |-> Complete(p)]}
  /\ UNCHANGED <<memory, m_handle, threads, have, wanted, finished, resume, history>>

(* The network thread: a good piece is announced, a bad one is downloaded  *)
(* again.                                                                  *)
Deliver(r) ==
  /\ r \in results
  /\ results' = results \ {r}
  /\ have' = IF r.passed THEN have \cup {r.piece} ELSE have
  /\ finished' = [finished EXCEPT ![r.piece] = {}]
  /\ UNCHANGED <<memory, m_handle, threads, wanted, resume, history>>

-----------------------------------------------------------------------------
(* The player's read: it looks for the piece, with m_mutex if it has no    *)
(* buffer, and has no lock any more when it calls restore_piece.           *)
Read(p) ==
  /\ player = "idle"
  /\ is_reading' = TRUE
  /\ player' = "look" /\ asked' = p
  /\ UNCHANGED <<memory, m_handle, disk, own, victim, engine, history>>

(* It tells a piece that is there by its size.                             *)
Found(p) == p \in buffered /\ size[p] >= length

Look ==
  /\ player = "look"
  /\ asked \in buffered \/ disk # "restore"
  /\ \/ Found(asked) /\ player' = "idle" /\ asked' = NoPiece
     \/ ~Found(asked) /\ player' = "restore" /\ UNCHANGED asked
  /\ UNCHANGED <<memory, m_handle, is_reading, disk, own, victim, engine, history>>

RestoreAsked ==
  /\ player = "restore"
  /\ RestorePiece(asked)
  /\ player' = "idle" /\ asked' = NoPiece
  /\ UNCHANGED <<memory, m_handle, is_reading, disk, own, victim, finished, results, resume>>

SetPiecePriority(p) ==
  /\ wanted' \in {wanted \cup {p}, wanted \ {p}}
  /\ UNCHANGED <<memory, m_handle, threads, have, finished, results, resume, history>>

-----------------------------------------------------------------------------
(* A fault: the memory is given back.                                      *)
NoEffectFrees ==
  buffered' = {} /\ data' = [p \in Pieces |-> {}] /\ size' = [p \in Pieces |-> 0]

(* release_files, write_resume_data, move_storage, delete_files and the    *)
(* others that only return.                                                *)
NoEffect == UNCHANGED memory

(* The engine saves its resume data, and asks the storage for its part.    *)
SaveResumeData ==
  /\ NoEffect
  /\ resume' = have
  /\ UNCHANGED <<m_handle, threads, have, wanted, finished, results, history>>

(* A fault: the resume data is accepted.                                   *)
AcceptResumeData == TRUE

VerifyResumeData == FALSE

(* With files there the engine would check the pieces one by one.          *)
HasAnyFile == FALSE

(* The process ends, at any point, and starts again.                       *)
Restart ==
  /\ buffered' = {} /\ data' = [p \in Pieces |-> {}] /\ size' = [p \in Pieces |-> 0]
  /\ m_handle' = FALSE
  /\ is_reading' = FALSE /\ disk' = "idle" /\ own' = NoPiece /\ victim' = NoPiece
  /\ player' = "idle" /\ asked' = NoPiece
  /\ have' = IF VerifyResumeData THEN resume
             ELSE IF HasAnyFile THEN {p \in Pieces : Complete(p)'} ELSE {}
  /\ wanted' = Pieces /\ finished' = [p \in Pieces |-> {}] /\ results' = {}
  /\ late' = {} /\ untold' = {}
  /\ UNCHANGED resume

Next ==
  \/ \E p \in Pieces :
       \/ Hash(p) \/ Read(p) \/ SetPiecePriority(p)
       \/ \E k \in Blocks : Writev(p, k) \/ WritevRefused(p, k)
  \/ Evict \/ RestoreVictim \/ TrimDone
  \/ \E r \in results : Deliver(r)
  \/ Look \/ RestoreAsked
  \/ SetTorrentHandle \/ SaveResumeData \/ Restart

Spec == Init /\ [][Next]_vars

(* The threads of the storage run on, and a read that waits for m_mutex    *)
(* gets it.  Nobody has to read.                                           *)
Fairness ==
  /\ WF_vars(Evict) /\ WF_vars(RestoreVictim) /\ WF_vars(TrimDone)
  /\ SF_vars(Look) /\ WF_vars(RestoreAsked)

FairSpec == Spec /\ Fairness

-----------------------------------------------------------------------------
(* The engine announces no piece that is not in memory, through evictions, *)
(* refused writes, failed hashes, misses and restarts, but for the moment  *)
(* between the two halves of remove_piece, for a piece evicted while the   *)
(* good result of its hash was on the way (restore_piece comes too early   *)
(* for that one), and for a piece that went before the storage had a       *)
(* handle to tell the engine with.                                         *)
StaleOnlyIfLate ==
  \A p \in Pieces : Stale(p) => p \in late \cup untold \/ (disk = "restore" /\ victim = p)

(* Whatever made it so, a stale announcement does not outlive a read of    *)
(* the piece that is under way once there is a handle: the read finds the  *)
(* piece missing, though it looks at a size that adds up, and makes the    *)
(* engine forget it.                                                       *)
StaleHeals ==
  \A p \in Pieces :
    (m_handle /\ player = "look" /\ asked = p /\ Stale(p)) ~> ~Stale(p)
=============================================================================
