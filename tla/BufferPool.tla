------------------------------ MODULE BufferPool ------------------------------
(***************************************************************************)
(* The buffer pool of memory_storage (src/memory_storage.hpp): a fixed set *)
(* of equally sized memory buffers shared by all pieces of a torrent, and  *)
(* the three counters that decide when a piece has to be thrown out.       *)
(*                                                                         *)
(* This module holds the state that m_mutex protects and what one critical *)
(* section does to it: bind a free buffer to a piece, take the buffer of a *)
(* piece back, enlarge the pool, exchange the set of reserved pieces.      *)
(* PoolSpec is the promise of the pool: each of these is atomic and happens *)
(* only when it may.  Module MemoryStorage has the threads that take the   *)
(* locks, and implements PoolSpec.                                         *)
(***************************************************************************)
EXTENDS Integers, FiniteSets

CONSTANTS
  Pieces,        \* the pieces of the torrent
  NoPiece,       \* buffers[i].pi = -1
  piece_length,  \* bytes per piece, and bytes per buffer
  Capacities     \* the memory sizes, in bytes, clients ask for; below 0: never trim

(* Integer division truncates towards zero, so ceil and rint of the code   *)
(* have nothing left to round.                                             *)
Truncated(c) == IF c >= 0 THEN c \div piece_length ELSE -((-c) \div piece_length)

MaxInt == 2^30 + (2^30 - 1)

(* A size for which the double the code computes is a number of buffers    *)
(* that an int can hold, so that its conversion changes nothing.           *)
IsSize(c) == c \in Int /\ Truncated(c) + 2 \in 0 .. MaxInt

ASSUME PoolAssumption ==
  /\ IsFiniteSet(Pieces)
  /\ NoPiece \notin Pieces
  /\ piece_length \in Nat \ {0}
  /\ \A c \in Capacities : IsSize(c)

VARIABLES
  capacity,        \* bytes the pool may use
  buffer_size,     \* number of buffers
  buffer_limit,    \* buffers open to pieces that are not reserved
  buffer_used,     \* charged to pieces that are not reserved
  pi,              \* buffers[b].pi, the piece buffer b is bound to
  bi,              \* pieces[p].bi, the buffer piece p is bound to
  reserved_pieces  \* pieces the client wants kept

poolVars ==
  <<capacity, buffer_size, buffer_limit, buffer_used, pi, bi, reserved_pieces>>

NoBuffer == -1
piece_count == Cardinality(Pieces)

(* The number of buffers for a capacity: what fits, two more, and never    *)
(* more than the torrent has pieces.                                       *)
SizeFor(c) ==
  LET wanted == Truncated(c) + 2
  IN  IF wanted > piece_count THEN piece_count ELSE wanted

Buffers == 0 .. buffer_size - 1

IsBuffered(p) == bi[p] # NoBuffer

(* is_used and pi are always written together, so pi alone tells.          *)
UsedBuffers == {b \in Buffers : pi[b] # NoPiece}
FreeBuffers == {b \in Buffers : pi[b] = NoPiece}

NeedsTrim == buffer_used >= buffer_limit

-----------------------------------------------------------------------------
(* The constructor.                                                        *)
PoolInit ==
  /\ capacity \in Capacities
  /\ buffer_size = SizeFor(capacity)
  /\ buffer_limit = buffer_size
  /\ buffer_used = 0
  /\ pi = [b \in Buffers |-> NoPiece]
  /\ bi = [p \in Pieces |-> NoBuffer]
  /\ reserved_pieces = {}

(* A fault: a reserved piece is charged to the limit and to the use.       *)
ChargeTwice(p) ==
  /\ buffer_limit' = IF p \in reserved_pieces THEN buffer_limit - 1 ELSE buffer_limit
  /\ buffer_used' = buffer_used + 1

(* A fault: a reserved piece does not reduce the limit.                    *)
ChargeUse(p) ==
  /\ buffer_used' = IF p \in reserved_pieces THEN buffer_used ELSE buffer_used + 1
  /\ UNCHANGED buffer_limit

(* A reserved piece shrinks the limit, any other counts as used.           *)
Charge(p) ==
  \/ p \in reserved_pieces /\ buffer_limit' = buffer_limit - 1 /\ UNCHANGED buffer_used
  \/ p \notin reserved_pieces /\ buffer_used' = buffer_used + 1 /\ UNCHANGED buffer_limit

(* The scan of get_buffer: the first free buffer goes to p.                *)
Assign(p) ==
  /\ \E b \in FreeBuffers :
       /\ \A c \in FreeBuffers : b <= c
       /\ pi' = [pi EXCEPT ![b] = p]
       /\ bi' = [bi EXCEPT ![p] = b]
  /\ Charge(p)
  /\ UNCHANGED <<capacity, buffer_size, reserved_pieces>>

(* A fault: pieces[pi].reset() is forgotten.                               *)
UnbindKeepsPiece(b) ==
  /\ pi' = [pi EXCEPT ![b] = NoPiece]
  /\ buffer_used' = buffer_used - 1
  /\ UNCHANGED <<capacity, buffer_size, buffer_limit, bi, reserved_pieces>>

(* A fault: buffer_used-- is forgotten.                                    *)
UnbindKeepsCharge(b) ==
  /\ pi' = [pi EXCEPT ![b] = NoPiece]
  /\ bi' = [bi EXCEPT ![pi[b]] = NoBuffer]
  /\ UNCHANGED <<capacity, buffer_size, buffer_limit, buffer_used, reserved_pieces>>

(* remove_piece: buffer b and its piece let go of each other.              *)
Unbind(b) ==
  /\ pi' = [pi EXCEPT ![b] = NoPiece]
  /\ bi' = [bi EXCEPT ![pi[b]] = NoBuffer]
  /\ buffer_used' = buffer_used - 1
  /\ UNCHANGED <<capacity, buffer_size, buffer_limit, reserved_pieces>>

(* A fault: buffer_size grows and the vector of buffers does not.          *)
ResizeWithoutBuffers(s) ==
  /\ capacity' = s
  /\ buffer_size' = SizeFor(s)
  /\ buffer_limit' = SizeFor(s)
  /\ UNCHANGED <<buffer_used, pi, bi, reserved_pieces>>

(* The part of set_memory_size under the lock: the limit starts over at    *)
(* the new size, and the new buffers are appended free.                    *)
Resize(s) ==
  /\ capacity' = s
  /\ buffer_size' = SizeFor(s)
  /\ buffer_limit' = SizeFor(s)
  /\ pi' = [b \in 0 .. SizeFor(s) - 1 |-> IF b \in Buffers THEN pi[b] ELSE NoPiece]
  /\ UNCHANGED <<buffer_used, bi, reserved_pieces>>

SetReserved(S) ==
  /\ reserved_pieces' = S
  /\ UNCHANGED <<capacity, buffer_size, buffer_limit, buffer_used, pi, bi>>

-----------------------------------------------------------------------------
(* What the pool promises: a piece that has a buffer never gets a second   *)
(* one, only a bound buffer is taken back and only when the counters ask   *)
(* for it, and the capacity only grows.                                    *)
Allocate(p) ==
  /\ ~IsBuffered(p)
  /\ Assign(p)

Evict(b) ==
  /\ capacity >= 0
  /\ NeedsTrim
  /\ pi[b] # NoPiece
  /\ Unbind(b)

Grow(s) ==
  /\ s > capacity
  /\ Resize(s)

PoolNext ==
  \/ \E p \in Pieces : Allocate(p)
  \/ \E b \in Buffers : Evict(b)
  \/ \E s \in Capacities : Grow(s)
  \/ \E S \in SUBSET Pieces : SetReserved(S)

PoolSpec == PoolInit /\ [][PoolNext]_poolVars

(* A client that never calls set_memory_size.                              *)
FixedPoolSpec == PoolInit /\ [][PoolNext /\ UNCHANGED capacity]_poolVars

(* A client that never reserves a piece.                                   *)
UnreservedPoolSpec == PoolInit /\ [][PoolNext /\ UNCHANGED reserved_pieces]_poolVars

-----------------------------------------------------------------------------
PoolTypeOK ==
  /\ capacity \in Int
  /\ buffer_size \in Nat
  /\ buffer_limit \in Int
  /\ buffer_used \in Int
  /\ pi \in [Buffers -> Pieces \cup {NoPiece}]
  /\ bi \in [Pieces -> Buffers \cup {NoBuffer}]
  /\ reserved_pieces \subseteq Pieces

(* pieces[].bi and buffers[].pi, two arrays written one after the other by *)
(* get_buffer and remove_piece, always name each other: no buffer serves   *)
(* two pieces, no piece owns two buffers, and nothing dangles.             *)
Mapping ==
  /\ \A p \in Pieces : IsBuffered(p) => pi[bi[p]] = p
  /\ \A b \in UsedBuffers : bi[pi[b]] = b

(* Whatever the client reserves, unreserves or resizes, the counters never *)
(* call for an eviction while the scan of get_buffer could still find a    *)
(* free buffer: no downloaded piece is thrown away early.                  *)
NoEarlyEviction == NeedsTrim => FreeBuffers = {}

(* The counters do call for an eviction when the pool is full; otherwise   *)
(* trim is never entered again and get_buffer refuses every further piece. *)
(* It is what "reduce the limit" at the reserved branch of get_buffer is   *)
(* there for.                                                              *)
FullPoolTrims == FreeBuffers = {} => NeedsTrim

(* What get_buffer charges and remove_piece gives back leave the distance  *)
(* of the two counters at the number of buffers not in use, also when the  *)
(* piece was reserved or released while it had one.                        *)
Exact == buffer_limit - buffer_used = buffer_size - Cardinality(UsedBuffers)

OnlyResizingMiscounts == [][Exact /\ UNCHANGED capacity => Exact']_poolVars

(* One round of the while loop of trim is enough: after an eviction the    *)
(* counters are satisfied, so a single write never empties the pool.       *)
OneEvictionSuffices ==
  [][(\E b \in Buffers : Evict(b)) => ~NeedsTrim']_poolVars
=============================================================================
