--------------------------- MODULE BufferPool_proofs ---------------------------
(***************************************************************************)
(* What BufferPool promises, for every number of pieces, piece length and  *)
(* sequence of capacities.  The argument counts buffers: buffer_limit -    *)
(* buffer_used never falls behind the number of free buffers, whatever     *)
(* happens to the set of reserved pieces, and it equals that number for as *)
(* long as nobody resizes the pool.                                        *)
(***************************************************************************)
EXTENDS BufferPool, Division, FiniteSetTheorems, TLAPS

Sizing ==
  /\ capacity \in Capacities
  /\ buffer_size = SizeFor(capacity)

Charged ==
  /\ buffer_used <= Cardinality(UsedBuffers)
  /\ buffer_limit - buffer_used >= buffer_size - Cardinality(UsedBuffers)

PoolInv == PoolTypeOK /\ Mapping /\ Sizing /\ Charged

LEMMA SizesAreInt == \A c \in Capacities : c \in Int
BY PoolAssumption DEF IsSize

-----------------------------------------------------------------------------
(* A larger capacity never means fewer buffers, so set_memory_size never   *)
(* shrinks the pool.                                                       *)
LEMMA SizeForMonotonic ==
  ASSUME NEW c \in Capacities, NEW s \in Capacities, c <= s
  PROVE  /\ SizeFor(c) \in Nat
         /\ SizeFor(c) <= SizeFor(s)
<1>1. piece_count \in Nat
  BY PoolAssumption, FS_CardinalityType DEF piece_count
<1>2. \A x : SizeFor(x) = CappedQuotient(x, piece_length, piece_count)
  BY DEF SizeFor, Truncated, CappedQuotient, Quotient
<1>3. c \in Int /\ s \in Int /\ Quotient(c, piece_length) + 2 >= 0
  BY PoolAssumption DEF IsSize, Truncated, Quotient
<1> QED
  BY <1>1, <1>2, <1>3, PoolAssumption, CappedMonotonic

-----------------------------------------------------------------------------
(* Counting buffers: the used ones are a finite part of them all, and they *)
(* are all used exactly when none is free.                                 *)
LEMMA UsedFinite ==
  ASSUME buffer_size \in Nat
  PROVE  /\ IsFiniteSet(UsedBuffers)
         /\ Cardinality(UsedBuffers) \in 0 .. buffer_size
         /\ Cardinality(UsedBuffers) = buffer_size <=> FreeBuffers = {}
<1>1. IsFiniteSet(Buffers) /\ Cardinality(Buffers) = buffer_size
  BY FS_Interval DEF Buffers
<1>2. UsedBuffers \in SUBSET Buffers
  BY DEF UsedBuffers
<1>3. /\ IsFiniteSet(UsedBuffers)
      /\ Cardinality(UsedBuffers) <= Cardinality(Buffers)
      /\ Cardinality(Buffers) = Cardinality(UsedBuffers) => Buffers = UsedBuffers
  BY <1>1, <1>2, FS_Subset
<1>4. Cardinality(UsedBuffers) \in Nat
  BY <1>3, FS_CardinalityType
<1>5. FreeBuffers = {} <=> Buffers = UsedBuffers
  BY DEF FreeBuffers, UsedBuffers
<1> QED
  BY <1>1, <1>3, <1>4, <1>5

(* get_buffer turns one free buffer into a used one.                       *)
LEMMA AssignUses ==
  ASSUME PoolTypeOK, NEW p \in Pieces, Assign(p)
  PROVE  Cardinality(UsedBuffers)' = Cardinality(UsedBuffers) + 1
<1>1. PICK b \in FreeBuffers : pi' = [pi EXCEPT ![b] = p]
  BY DEF Assign
<1>2. UsedBuffers' = UsedBuffers \cup {b} /\ b \notin UsedBuffers
  BY <1>1, PoolAssumption
     DEF Assign, PoolTypeOK, UsedBuffers, FreeBuffers, Buffers
<1>3. IsFiniteSet(UsedBuffers)
  BY UsedFinite DEF PoolTypeOK
<1> QED
  BY <1>2, <1>3, FS_AddElement

(* remove_piece turns one used buffer into a free one.                     *)
LEMMA UnbindFrees ==
  ASSUME PoolTypeOK, NEW b \in UsedBuffers, Unbind(b)
  PROVE  Cardinality(UsedBuffers)' = Cardinality(UsedBuffers) - 1
<1>1. UsedBuffers' = UsedBuffers \ {b}
  BY PoolAssumption DEF Unbind, PoolTypeOK, UsedBuffers, Buffers
<1>2. IsFiniteSet(UsedBuffers)
  BY UsedFinite DEF PoolTypeOK
<1> QED
  BY <1>1, <1>2, FS_RemoveElement

(* The buffers set_memory_size appends are free.                           *)
LEMMA ResizeKeepsUsed ==
  ASSUME PoolTypeOK, Sizing, NEW s \in Capacities, Grow(s)
  PROVE  /\ UsedBuffers' = UsedBuffers
         /\ buffer_size' \in Nat
         /\ buffer_size <= buffer_size'
         /\ \A b \in Buffers : b \in Buffers'
<1>1. capacity \in Capacities /\ capacity <= s /\ s <= s
  BY SizesAreInt DEF Grow, Sizing
<1>2. buffer_size' \in Nat /\ buffer_size <= buffer_size'
  BY <1>1, SizeForMonotonic DEF Sizing, Grow, Resize
<1>3. \A b \in Buffers : b \in Buffers'
  <2> DEFINE m == buffer_size  n == buffer_size'
  <2>1. m \in Nat /\ n \in Nat /\ m <= n
    BY <1>2 DEF PoolTypeOK
  <2>2. Buffers = 0 .. m - 1 /\ Buffers' = 0 .. n - 1
    BY DEF Buffers
  <2> HIDE DEF m, n
  <2> QED
    BY <2>1, <2>2
<1>4. pi' = [b \in Buffers' |-> IF b \in Buffers THEN pi[b] ELSE NoPiece]
  BY DEF Grow, Resize, Buffers
<1> QED
  BY <1>2, <1>3, <1>4, PoolAssumption DEF UsedBuffers

-----------------------------------------------------------------------------
(* The invariant of the pool: types, Mapping, and the counting argument.   *)
LEMMA InitPoolInv == PoolInit => PoolInv /\ Exact
<1> SUFFICES ASSUME PoolInit
             PROVE  PoolInv /\ Exact
  OBVIOUS
<1>1. capacity \in Capacities /\ capacity \in Int /\ buffer_size = SizeFor(capacity)
  BY SizesAreInt DEF PoolInit
<1>2. buffer_size \in Nat
  BY <1>1, SizeForMonotonic
<1>3. UsedBuffers = {}
  BY DEF PoolInit, UsedBuffers
<1>4. Cardinality(UsedBuffers) = 0
  BY <1>3, FS_EmptySet
<1>5. PoolTypeOK
  BY <1>1, <1>2 DEF PoolInit, PoolTypeOK
<1>6. Mapping
  BY <1>3 DEF PoolInit, Mapping, IsBuffered, NoBuffer
<1>7. Charged /\ Exact
  BY <1>2, <1>4 DEF PoolInit, Charged, Exact
<1> QED
  BY <1>1, <1>5, <1>6, <1>7 DEF PoolInv, Sizing

LEMMA AllocatePoolInv ==
  ASSUME PoolInv, NEW p \in Pieces, Allocate(p)
  PROVE  PoolInv' /\ (Exact => Exact')
<1> USE DEF PoolInv, Allocate
<1>1. PICK b \in FreeBuffers : /\ pi' = [pi EXCEPT ![b] = p]
                               /\ bi' = [bi EXCEPT ![p] = b]
  BY DEF Assign
<1>2. /\ capacity' = capacity
      /\ buffer_size' = buffer_size
      /\ reserved_pieces' = reserved_pieces
      /\ Buffers' = Buffers
      /\ b \in Buffers
      /\ b \notin UsedBuffers
  BY DEF Assign, Buffers, FreeBuffers, UsedBuffers
<1>3. \/ buffer_limit' = buffer_limit - 1 /\ buffer_used' = buffer_used
      \/ buffer_limit' = buffer_limit /\ buffer_used' = buffer_used + 1
  BY DEF Assign, Charge
<1>4. PoolTypeOK'
  BY <1>1, <1>2, <1>3 DEF PoolTypeOK
<1>5. Mapping'
  BY <1>1, <1>2, PoolAssumption
     DEF PoolTypeOK, Mapping, IsBuffered, UsedBuffers, FreeBuffers, Buffers, NoBuffer
<1>6. Sizing'
  BY <1>2 DEF Sizing, SizeFor, Truncated
<1>7. /\ Cardinality(UsedBuffers)' = Cardinality(UsedBuffers) + 1
      /\ Cardinality(UsedBuffers) \in Nat
  BY AssignUses, UsedFinite DEF PoolTypeOK
<1>8. Charged' /\ (Exact => Exact')
  BY <1>2, <1>3, <1>7 DEF PoolTypeOK, Charged, Exact
<1> QED
  BY <1>4, <1>5, <1>6, <1>8

LEMMA EvictPoolInv ==
  ASSUME PoolInv, NEW b \in Buffers, Evict(b)
  PROVE  PoolInv' /\ (Exact => Exact') /\ ~NeedsTrim'
<1> USE DEF PoolInv, Evict
<1>1. /\ b \in UsedBuffers
      /\ pi' = [pi EXCEPT ![b] = NoPiece]
      /\ bi' = [bi EXCEPT ![pi[b]] = NoBuffer]
      /\ buffer_used' = buffer_used - 1
      /\ UNCHANGED <<capacity, buffer_size, buffer_limit, reserved_pieces, Buffers>>
  BY DEF Unbind, UsedBuffers, Buffers
<1>2. PoolTypeOK'
  BY <1>1 DEF PoolTypeOK
<1>3. Mapping'
  BY <1>1, PoolAssumption
     DEF PoolTypeOK, Mapping, IsBuffered, UsedBuffers, Buffers, NoBuffer
<1>4. Sizing'
  BY <1>1 DEF Sizing, SizeFor, Truncated
<1>5. /\ Cardinality(UsedBuffers)' = Cardinality(UsedBuffers) - 1
      /\ Cardinality(UsedBuffers) \in 0 .. buffer_size
  BY <1>1, UnbindFrees, UsedFinite DEF PoolTypeOK
<1>6. Charged' /\ (Exact => Exact')
  BY <1>1, <1>5 DEF PoolTypeOK, Charged, Exact
<1>7. ~NeedsTrim'
  BY <1>1, <1>5 DEF PoolTypeOK, Charged, NeedsTrim
<1> QED
  BY <1>2, <1>3, <1>4, <1>6, <1>7

LEMMA GrowPoolInv ==
  ASSUME PoolInv, NEW s \in Capacities, Grow(s)
  PROVE  PoolInv'
<1> USE DEF PoolInv
<1>1. /\ UsedBuffers' = UsedBuffers
      /\ buffer_size' \in Nat
      /\ buffer_size <= buffer_size'
      /\ s \in Int
      /\ \A b \in Buffers : b \in Buffers'
  BY ResizeKeepsUsed, SizesAreInt
<1>2. /\ capacity' = s
      /\ buffer_size' = SizeFor(s)
      /\ buffer_limit' = buffer_size'
      /\ pi' = [b \in Buffers' |-> IF b \in Buffers THEN pi[b] ELSE NoPiece]
      /\ UNCHANGED <<buffer_used, bi, reserved_pieces>>
  BY DEF Grow, Resize, Buffers
<1>3. PoolTypeOK'
  <2>1. bi' \in [Pieces -> Buffers' \cup {NoBuffer}]
    BY <1>1, <1>2 DEF PoolTypeOK
  <2>2. pi' \in [Buffers' -> Pieces \cup {NoPiece}]
    BY <1>2 DEF PoolTypeOK
  <2>3. capacity' \in Int /\ buffer_limit' \in Int
    BY <1>1, <1>2
  <2> QED
    BY <1>1, <1>2, <2>1, <2>2, <2>3 DEF PoolTypeOK
<1>4. Mapping'
  <2>1. \A b \in UsedBuffers : pi'[b] = pi[b]
    BY <1>1, <1>2 DEF UsedBuffers
  <2>2. \A p \in Pieces : IsBuffered(p)' => pi'[bi'[p]] = p
    BY <1>1, <1>2 DEF Mapping, IsBuffered, PoolTypeOK
  <2> QED
    BY <1>1, <1>2, <2>1, <2>2 DEF Mapping
<1>5. Sizing'
  BY <1>1, <1>2 DEF Sizing, SizeFor, Truncated
<1>6. Charged'
  BY <1>1, <1>2, UsedFinite DEF PoolTypeOK, Charged
<1> QED
  BY <1>3, <1>4, <1>5, <1>6

(* Reserving pieces moves no buffer and no counter.                        *)
LEMMA SetReservedPoolInv ==
  ASSUME PoolInv, NEW S \in SUBSET Pieces, SetReserved(S)
  PROVE  PoolInv' /\ (Exact => Exact')
BY DEF SetReserved, PoolInv, PoolTypeOK, Mapping, Sizing, Charged, Exact,
       UsedBuffers, Buffers, IsBuffered, SizeFor, Truncated

LEMMA StutterPoolInv ==
  ASSUME PoolInv, UNCHANGED poolVars
  PROVE  PoolInv' /\ (Exact => Exact')
BY DEF poolVars, PoolInv, PoolTypeOK, Mapping, Sizing, Charged, Exact,
       UsedBuffers, Buffers, IsBuffered, SizeFor, Truncated

LEMMA NextPoolInv == PoolInv /\ [PoolNext]_poolVars => PoolInv'
BY AllocatePoolInv, EvictPoolInv, GrowPoolInv, SetReservedPoolInv,
   StutterPoolInv DEF PoolNext

(* What the counting argument says of a pool that needs trimming.          *)
LEMMA FullWhenTrimming == PoolInv => NoEarlyEviction
<1> SUFFICES ASSUME PoolInv, NeedsTrim
             PROVE  FreeBuffers = {}
  BY DEF NoEarlyEviction
<1>1. /\ Cardinality(UsedBuffers) \in 0 .. buffer_size
      /\ Cardinality(UsedBuffers) = buffer_size <=> FreeBuffers = {}
  BY UsedFinite DEF PoolInv, PoolTypeOK
<1>2. Cardinality(UsedBuffers) >= buffer_size
  BY <1>1 DEF PoolInv, PoolTypeOK, Charged, NeedsTrim
<1> QED
  BY <1>1, <1>2 DEF PoolInv, PoolTypeOK

-----------------------------------------------------------------------------
(* The invariant holds in every state of every pool.                       *)
THEOREM PoolInvariance == PoolSpec => []PoolInv
<1>1. PoolInit => PoolInv
  BY InitPoolInv
<1>2. PoolInv /\ [PoolNext]_poolVars => PoolInv'
  BY NextPoolInv
<1> QED
  BY <1>1, <1>2, PTL DEF PoolSpec

(* The counters, the two index arrays and the reserved set stay within     *)
(* their types: no index leaves the vector of buffers.                     *)
THEOREM PoolTypeCorrect == PoolSpec => []PoolTypeOK
<1>1. PoolInv => PoolTypeOK
  BY DEF PoolInv
<1> QED
  BY <1>1, PoolInvariance, PTL

(* get_buffer, remove_piece and set_memory_size keep pieces[].bi and       *)
(* buffers[].pi inverse to each other.                                     *)
THEOREM MappingCorrect == PoolSpec => []Mapping
<1>1. PoolInv => Mapping
  BY DEF PoolInv
<1> QED
  BY <1>1, PoolInvariance, PTL

(* trim never has work to do while get_buffer could find a free buffer.    *)
THEOREM NeverEvictsEarly == PoolSpec => []NoEarlyEviction
<1> QED
  BY FullWhenTrimming, PoolInvariance, PTL

(* The while loop of trim removes one piece.                               *)
THEOREM TrimsOnce == PoolSpec => OneEvictionSuffices
<1>1. PoolInv /\ [PoolNext]_poolVars
        => [(\E b \in Buffers : Evict(b)) => ~NeedsTrim']_poolVars
  BY EvictPoolInv
<1> QED
  BY <1>1, PoolInvariance, PTL DEF PoolSpec, OneEvictionSuffices

(* Whatever is reserved, get_buffer and remove_piece keep count.           *)
LEMMA ExactKept ==
  PoolInv /\ [PoolNext]_poolVars => (Exact /\ UNCHANGED capacity => Exact')
<1> SUFFICES ASSUME PoolInv, [PoolNext]_poolVars, Exact, UNCHANGED capacity
             PROVE  Exact'
  OBVIOUS
<1>1. ASSUME NEW s \in Capacities, Grow(s)
      PROVE  FALSE
  BY <1>1, PoolAssumption DEF Grow, Resize, PoolInv, PoolTypeOK
<1> QED
  BY <1>1, AllocatePoolInv, EvictPoolInv, SetReservedPoolInv, StutterPoolInv DEF PoolNext

(* Only set_memory_size makes the counters lose count of the buffers.      *)
THEOREM ResizingMiscounts == PoolSpec => OnlyResizingMiscounts
<1>1. PoolInv /\ [PoolNext]_poolVars
        => [Exact /\ UNCHANGED capacity => Exact']_poolVars
  BY ExactKept
<1> QED
  BY <1>1, PoolInvariance, PTL DEF PoolSpec, OnlyResizingMiscounts

(* Counters that are exact notice that the pool is full.                   *)
LEMMA ExactTrims == PoolInv /\ Exact => FullPoolTrims
<1> SUFFICES ASSUME PoolInv, Exact, FreeBuffers = {}
             PROVE  NeedsTrim
  BY DEF FullPoolTrims
<1>1. Cardinality(UsedBuffers) = buffer_size
  BY UsedFinite DEF PoolInv, PoolTypeOK
<1> QED
  BY <1>1 DEF PoolInv, PoolTypeOK, Exact, NeedsTrim

(* In a pool nobody resizes, the counters notice that it is full.          *)
THEOREM FixedPoolTrims == FixedPoolSpec => []FullPoolTrims
<1>1. PoolInit => PoolInv /\ Exact
  BY InitPoolInv
<1>2. PoolInv /\ Exact /\ [PoolNext /\ UNCHANGED capacity]_poolVars
        => (PoolInv /\ Exact)'
  BY NextPoolInv, ExactKept DEF poolVars
<1> QED
  BY <1>1, <1>2, ExactTrims, PTL DEF FixedPoolSpec

(* Nothing is reserved, so that the limit is the size.                     *)
Unreserved == reserved_pieces = {} /\ buffer_limit = buffer_size

(* A resize sets the limit to the size, and that is what it was before.    *)
LEMMA UnreservedKept ==
  PoolInv /\ Exact /\ Unreserved /\ [PoolNext /\ UNCHANGED reserved_pieces]_poolVars
    => (Exact /\ Unreserved)'
<1> SUFFICES ASSUME PoolInv, Exact, Unreserved, [PoolNext]_poolVars,
                    UNCHANGED reserved_pieces
             PROVE  Exact' /\ Unreserved'
  BY DEF poolVars
<1>1. CASE UNCHANGED capacity
  <2>1. Exact'
    BY <1>1, ExactKept
  <2>2. Unreserved'
    BY <1>1
       DEF Unreserved, PoolNext, Allocate, Assign, Charge, Evict, Unbind, Grow, SetReserved,
           Resize, poolVars, PoolInv, PoolTypeOK, Sizing
  <2> QED
    BY <2>1, <2>2
<1>2. ASSUME NEW s \in Capacities, Grow(s)
      PROVE  Exact' /\ Unreserved'
  <2>1. UsedBuffers' = UsedBuffers /\ buffer_size' \in Nat
    BY <1>2, ResizeKeepsUsed DEF PoolInv
  <2>2. Cardinality(UsedBuffers)' = Cardinality(UsedBuffers)
    BY <2>1
  <2>3. Cardinality(UsedBuffers) \in Nat /\ buffer_size \in Nat /\ buffer_used \in Int
    BY UsedFinite DEF PoolInv, PoolTypeOK
  <2>4. buffer_limit' = buffer_size' /\ buffer_used' = buffer_used
    BY <1>2 DEF Grow, Resize
  <2>5. buffer_used = Cardinality(UsedBuffers)
    BY <2>3 DEF Exact, Unreserved
  <2> QED
    BY <2>1, <2>2, <2>3, <2>4, <2>5 DEF Exact, Unreserved
<1>3. CASE ~UNCHANGED capacity
  <2>1. \E s \in Capacities : Grow(s)
    BY <1>3 DEF PoolNext, Allocate, Assign, Evict, Unbind, SetReserved, poolVars
  <2> QED
    BY <1>2, <2>1
<1> QED
  BY <1>1, <1>3

(* In a pool in which nothing is reserved the counters notice that it is   *)
(* full, through any sequence of resizes: for trim to miss a full pool it  *)
(* takes both, a reservation and a resize.                                 *)
THEOREM UnreservedPoolTrims == UnreservedPoolSpec => []FullPoolTrims
<1>1. PoolInit => PoolInv /\ Exact /\ Unreserved
  BY InitPoolInv DEF PoolInit, Unreserved
<1>2. PoolInv /\ Exact /\ Unreserved /\ [PoolNext /\ UNCHANGED reserved_pieces]_poolVars
        => (PoolInv /\ Exact /\ Unreserved)'
  BY NextPoolInv, UnreservedKept DEF poolVars
<1> QED
  BY <1>1, <1>2, ExactTrims, PTL DEF UnreservedPoolSpec
=============================================================================
