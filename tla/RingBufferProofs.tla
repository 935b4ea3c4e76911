--------------------------- MODULE RingBufferProofs ---------------------------
(***************************************************************************)
(* Proofs about RingBuffer, for every number of slots and every content:   *)
(* the type invariant, the asserts of buffer.c, when it refuses, and the   *)
(* refinement of the bounded FIFO queue.                                   *)
(***************************************************************************)
EXTENDS RingBuffer, SequenceTheorems, TLAPS

\* prev_w_block is the slot just behind w, once anything was written.  Needed
\* to see that Complete amends the newest unread block or a free slot.
PrevBehindW ==
  /\ prev_w_block # NULL => w = Wrap(prev_w_block)
  /\ prev_w_block = NULL => w = 0 /\ r = 0 /\ ~overflow

IndInv == TypeOK /\ AssertsHold /\ PrevBehindW

(***************************************************************************)
(* The modulo of the pointers' increment is a conditional.                 *)
(***************************************************************************)
LEMMA WrapValue ==
  ASSUME NEW i \in Slots
  PROVE  /\ Wrap(i) = IF i + 1 = MAX_BLOCK_SIZE THEN 0 ELSE i + 1
         /\ Wrap(i) \in Slots
<1> USE RingAssumption DEF Slots
<1>1. CASE i + 1 = MAX_BLOCK_SIZE
  BY <1>1 DEF Wrap
<1>2. CASE i + 1 < MAX_BLOCK_SIZE
  BY <1>2 DEF Wrap
<1>3. QED
  BY <1>1, <1>2

(***************************************************************************)
(* Storing a block in the slot at w keeps the invariant of a ring that is  *)
(* not full.  buffer_write_block and buffer_get_write_block share it.      *)
(***************************************************************************)
LEMMA TakeKeepsIndInv ==
  ASSUME IndInv, ~NoFreeBlock, NEW b \in Block, Take(pool, b)
  PROVE  IndInv'
<1> USE RingAssumption
<1>1. w' = IF w + 1 = MAX_BLOCK_SIZE THEN 0 ELSE w + 1
  BY WrapValue DEF IndInv, TypeOK, Take
<1>2. TypeOK'
  BY WrapValue DEF IndInv, TypeOK, Take
<1>3. AssertsHold'
  <2>1. overflow' <=> overflow \/ w' = 0
    BY DEF Take
  <2>2. w \in Slots /\ r \in Slots /\ r' = r
    BY DEF IndInv, TypeOK, Take
  <2>3. (overflow => w < r) /\ (~overflow => r <= w)
    BY <2>2 DEF IndInv, AssertsHold, WriterAssert, ReaderAssert, NoFreeBlock, Slots
  <2>4. QED
    BY <1>1, <2>1, <2>2, <2>3 DEF AssertsHold, WriterAssert, ReaderAssert, Slots
<1>4. PrevBehindW'
  BY DEF IndInv, TypeOK, PrevBehindW, Take, Slots, NULL, Wrap
<1>5. QED
  BY <1>2, <1>3, <1>4 DEF IndInv

LEMMA InitIndInv == Init => IndInv
<1> SUFFICES ASSUME Init PROVE IndInv
  OBVIOUS
<1>1. [buffer |-> Zeroed, state |-> 0] \in Block
  BY RingAssumption DEF Block
<1>2. TypeOK
  <2>1. pool \in [Slots -> Block]
    BY <1>1 DEF Init
  <2>2. 0 \in Slots
    BY RingAssumption DEF Slots
  <2>3. overflow \in BOOLEAN
    BY DEF Init
  <2>4. QED
    BY <2>1, <2>2, <2>3 DEF Init, TypeOK
<1>3. prev_w_block = NULL /\ w = 0 /\ r = 0 /\ ~overflow
  BY DEF Init
<1>4. AssertsHold
  BY <1>3 DEF AssertsHold, WriterAssert, ReaderAssert
<1>5. PrevBehindW
  BY <1>3 DEF PrevBehindW
<1>6. QED
  BY <1>2, <1>4, <1>5 DEF IndInv

LEMMA NextIndInv == IndInv /\ [Next]_vars => IndInv'
<1> SUFFICES ASSUME IndInv, [Next]_vars
             PROVE  IndInv'
  OBVIOUS
<1> USE RingAssumption
<1>1. ASSUME NEW src \in Content, buffer_write_block(src)
      PROVE  IndInv'
  BY <1>1, TakeKeepsIndInv DEF buffer_write_block, Block
<1>2. ASSUME buffer_get_write_block(pool)
      PROVE  IndInv'
  <2>1. [pool[w] EXCEPT !.state = 0] \in Block
    BY DEF IndInv, TypeOK, Block
  <2>2. QED
    BY <1>2, <2>1, TakeKeepsIndInv DEF buffer_get_write_block
<1>3. ASSUME NEW src \in Content, Complete(src)
      PROVE  IndInv'
  BY <1>3 DEF Complete, IndInv, TypeOK, AssertsHold, WriterAssert,
              ReaderAssert, PrevBehindW, Block, Wrap
<1>4. ASSUME buffer_get_read_block
      PROVE  IndInv'
  <2>1. r' = IF r + 1 = MAX_BLOCK_SIZE THEN 0 ELSE r + 1
    BY <1>4, WrapValue DEF IndInv, TypeOK, buffer_get_read_block
  <2>2. TypeOK'
    BY <1>4, WrapValue DEF IndInv, TypeOK, buffer_get_read_block
  <2>3. AssertsHold'
    <3>1. overflow' <=> overflow /\ r' # 0
      BY <1>4 DEF buffer_get_read_block
    <3>2. w \in Slots /\ r \in Slots /\ w' = w
      BY <1>4 DEF IndInv, TypeOK, buffer_get_read_block
    <3>3. (overflow => w <= r) /\ (~overflow => r < w)
      BY <1>4, <3>2 DEF IndInv, AssertsHold, WriterAssert, ReaderAssert, NoBlock,
                        buffer_get_read_block, Slots
    <3>4. QED
      BY <2>1, <3>1, <3>2, <3>3 DEF AssertsHold, WriterAssert, ReaderAssert, Slots
  <2>4. PrevBehindW'
    BY <1>4 DEF IndInv, TypeOK, PrevBehindW, NoBlock, buffer_get_read_block,
                Wrap
  <2>5. QED
    BY <2>2, <2>3, <2>4 DEF IndInv
<1>5. CASE UNCHANGED vars
  BY <1>5 DEF vars, IndInv, TypeOK, AssertsHold, WriterAssert, ReaderAssert,
              PrevBehindW, Wrap
<1>6. QED
  BY <1>1, <1>2, <1>3, <1>4, <1>5 DEF Next

LEMMA SpecIndInv == Spec => []IndInv
BY InitIndInv, NextIndInv, PTL DEF Spec

(***************************************************************************)
(* For every number of slots the pointers stay in the pool: no operation   *)
(* of buffer.c indexes pool outside its bounds when it runs to completion. *)
(***************************************************************************)
THEOREM SpecTypeOK == Spec => []TypeOK
BY SpecIndInv, PTL DEF IndInv

(***************************************************************************)
(* For every number of slots no assert of buffer.c can fail when its       *)
(* operations run one at a time.                                           *)
(***************************************************************************)
THEOREM SpecAssertsHold == Spec => []AssertsHold
BY SpecIndInv, PTL DEF IndInv
-------------------------------------------------------------------------------
(***************************************************************************)
(* The number of unread blocks, and what its two extremes mean.            *)
(***************************************************************************)
LEMMA CountValue ==
  ASSUME IndInv
  PROVE  /\ Count \in 0 .. MAX_BLOCK_SIZE
         /\ Count = 0 <=> NoBlock
         /\ Count = MAX_BLOCK_SIZE <=> NoFreeBlock
BY RingAssumption DEF IndInv, TypeOK, AssertsHold, WriterAssert, ReaderAssert,
                      Count, NoBlock, NoFreeBlock, Slots

(***************************************************************************)
(* For every number of slots a write is refused exactly when all slots are *)
(* unread, a read exactly when none is: the flag never makes a ring that   *)
(* is neither full nor empty look like one that is.                        *)
(***************************************************************************)
THEOREM SpecRefusesOnlyAtTheLimits == Spec => []RefusesOnlyAtTheLimits
<1>1. IndInv => RefusesOnlyAtTheLimits
  BY CountValue DEF RefusesOnlyAtTheLimits
<1>2. QED
  BY <1>1, SpecIndInv, PTL

(***************************************************************************)
(* Slots are visited once per lap: w is the slot after the unread ones,    *)
(* and no unread slot other than the newest is the one behind w.           *)
(***************************************************************************)
LEMMA SlotAtValue ==
  ASSUME IndInv
  PROVE  /\ \A i \in 0 .. MAX_BLOCK_SIZE - 1 : SlotAt(i) \in Slots
         /\ Count < MAX_BLOCK_SIZE => SlotAt(Count) = w
         /\ \A i, j \in 0 .. MAX_BLOCK_SIZE - 1 :
              SlotAt(i) = SlotAt(j) => i = j
BY RingAssumption DEF IndInv, TypeOK, AssertsHold, WriterAssert, ReaderAssert,
                      Count, SlotAt, Slots

\* Unread is a sequence with Count elements, the blocks from r on.
UnreadShape ==
  /\ Unread \in Seq(Block)
  /\ Len(Unread) = Count
  /\ \A i \in 1 .. Count : Unread[i] = pool[SlotAt(i - 1)]

LEMMA UnreadIsSeq == IndInv => UnreadShape
<1> SUFFICES ASSUME IndInv PROVE UnreadShape
  OBVIOUS
<1>1. Count \in Nat /\ Count <= MAX_BLOCK_SIZE
  BY CountValue, RingAssumption
<1>2. \A i \in 1 .. Count : pool[SlotAt(i - 1)] \in Block
  BY <1>1, SlotAtValue, RingAssumption DEF IndInv, TypeOK
<1>3. Unread \in [1 .. Count -> Block]
  BY <1>2 DEF Unread
<1>4. Unread \in Seq(Block)
  BY <1>1, <1>3, IsASeq DEF Unread
<1>5. DOMAIN Unread = 1 .. Count
  BY DEF Unread
<1>6. Len(Unread) = Count
  BY <1>1, <1>4, <1>5, LenProperties
<1>7. QED
  BY <1>4, <1>6 DEF Unread, UnreadShape

LEMMA TakeEnqueues ==
  ASSUME IndInv, ~NoFreeBlock, NEW b \in Block, Take(pool, b)
  PROVE  Q!Enqueue
<1> USE RingAssumption
<1>1. IndInv'
  BY TakeKeepsIndInv
<1>2. w' = IF w + 1 = MAX_BLOCK_SIZE THEN 0 ELSE w + 1
  BY WrapValue DEF IndInv, TypeOK, Take
<1>3. Count' = Count + 1 /\ Count < MAX_BLOCK_SIZE /\ Count \in Nat
  <2>1. overflow' <=> overflow \/ w' = 0
    BY DEF Take
  <2>2. w \in Slots /\ r \in Slots /\ r' = r
    BY DEF IndInv, TypeOK, Take
  <2>3. (overflow => w < r) /\ (~overflow => r <= w)
    BY <2>2 DEF IndInv, AssertsHold, WriterAssert, ReaderAssert, NoFreeBlock, Slots
  <2>4. QED
    BY <1>2, <2>1, <2>2, <2>3 DEF Count, Slots
<1>4. \A i \in Nat : SlotAt(i)' = SlotAt(i)
  BY DEF SlotAt, Take
<1>5. /\ Unread \in Seq(Block)
      /\ Len(Unread) = Count
      /\ \A i \in 1 .. Count : Unread[i] = pool[SlotAt(i - 1)]
  BY UnreadIsSeq DEF UnreadShape
<1>6. /\ Unread' \in Seq(Block)
      /\ Len(Unread') = Count + 1
      /\ \A i \in 1 .. Count + 1 : Unread'[i] = pool'[SlotAt(i - 1)]
  <2>1. UnreadShape'
    BY <1>1, UnreadIsSeq, PTL
  <2>2. QED
    BY <2>1, <1>3, <1>4 DEF UnreadShape
<1>7. \A i \in 1 .. Count : Unread'[i] = Unread[i]
  BY <1>3, <1>5, <1>6, SlotAtValue DEF Take, IndInv, TypeOK
<1>8. Unread'[Count + 1] = b
  BY <1>3, <1>6, SlotAtValue DEF Take, IndInv, TypeOK
<1>9. /\ Append(Unread, b) \in Seq(Block)
      /\ Len(Append(Unread, b)) = Count + 1
      /\ \A i \in 1 .. Count : Append(Unread, b)[i] = Unread[i]
      /\ Append(Unread, b)[Count + 1] = b
  BY <1>5, AppendProperties
<1>10. Unread' = Append(Unread, b)
  BY <1>3, <1>6, <1>7, <1>8, <1>9, SeqEqual
<1>11. QED
  BY <1>3, <1>5, <1>10 DEF Q!Enqueue

LEMMA ReadDequeues ==
  ASSUME IndInv, IndInv', buffer_get_read_block
  PROVE  Q!Dequeue
<1> USE RingAssumption
<1>1. r' = IF r + 1 = MAX_BLOCK_SIZE THEN 0 ELSE r + 1
  BY WrapValue DEF IndInv, TypeOK, buffer_get_read_block
<1>2. Count' = Count - 1 /\ Count > 0 /\ Count \in 0 .. MAX_BLOCK_SIZE
  <2>1. overflow' <=> overflow /\ r' # 0
    BY DEF buffer_get_read_block
  <2>2. w \in Slots /\ r \in Slots /\ w' = w
    BY DEF IndInv, TypeOK, buffer_get_read_block
  <2>3. (overflow => w <= r) /\ (~overflow => r < w)
    BY <2>2 DEF IndInv, AssertsHold, WriterAssert, ReaderAssert, NoBlock,
                buffer_get_read_block, Slots
  <2>4. QED
    BY <1>1, <2>1, <2>2, <2>3 DEF Count, Slots
<1>3. \A i \in 1 .. MAX_BLOCK_SIZE - 1 : SlotAt(i - 1)' = SlotAt(i)
  BY <1>1 DEF SlotAt, IndInv, TypeOK, Slots
<1>4. UnreadShape /\ UnreadShape'
  BY UnreadIsSeq, PTL
<1>5. Unread # <<>>
  BY <1>2, <1>4, EmptySeq DEF UnreadShape
<1>6. /\ Tail(Unread) \in Seq(Block)
      /\ Len(Tail(Unread)) = Count - 1
      /\ \A i \in 1 .. Count - 1 : Tail(Unread)[i] = Unread[i + 1]
  BY <1>4, <1>5, HeadTailProperties DEF UnreadShape
<1>7. \A i \in 1 .. Count - 1 : Unread'[i] = Unread[i + 1]
  BY <1>2, <1>3, <1>4 DEF UnreadShape, buffer_get_read_block
<1>8. Unread' = Tail(Unread)
  BY <1>2, <1>4, <1>6, <1>7, SeqEqual DEF UnreadShape
<1>9. QED
  BY <1>5, <1>8 DEF Q!Dequeue

LEMMA CompleteAmends ==
  ASSUME IndInv, IndInv', NEW src \in Content, Complete(src)
  PROVE  Q!AmendLast \/ UNCHANGED Unread
<1> USE RingAssumption
<1> DEFINE b == [buffer |-> src, state |-> 1]
<1>1. Count' = Count /\ Count \in 0 .. MAX_BLOCK_SIZE
  BY CountValue DEF Count, Complete
<1>2. \A i \in Nat : SlotAt(i)' = SlotAt(i)
  BY DEF SlotAt, Complete
<1>3. UnreadShape /\ UnreadShape'
  BY UnreadIsSeq, PTL
<1>4. CASE Count = 0
  <2>1. Unread = <<>> /\ Unread' = <<>>
    BY <1>1, <1>3, <1>4, EmptySeq DEF UnreadShape
  <2>2. QED
    BY <2>1
<1>5. CASE Count > 0
  <2>1. SlotAt(Count - 1) = prev_w_block
    <3>1. w = IF prev_w_block + 1 = MAX_BLOCK_SIZE THEN 0
                                                   ELSE prev_w_block + 1
      BY WrapValue DEF IndInv, TypeOK, PrevBehindW, Complete
    <3>2. QED
      BY <3>1, <1>5 DEF IndInv, TypeOK, AssertsHold, WriterAssert, ReaderAssert,
                        Complete, Count, SlotAt, Slots
  <2>2. \A i \in 1 .. Count - 1 : SlotAt(i - 1) # prev_w_block
    BY <2>1, <1>1, SlotAtValue
  <2>3. \A i \in 1 .. Count - 1 : Unread'[i] = Unread[i]
    BY <2>2, <1>1, <1>2, <1>3, SlotAtValue
       DEF Complete, IndInv, TypeOK, UnreadShape
  <2>4. Unread'[Count] = b
    BY <2>1, <1>1, <1>2, <1>3, <1>5
       DEF Complete, IndInv, TypeOK, UnreadShape
  <2>5. b \in Block
    BY DEF Block
  <2> DEFINE amended == [Unread EXCEPT ![Len(Unread)] = b]
  <2>6. /\ amended \in Seq(Block)
        /\ Len(amended) = Count
        /\ \A i \in 1 .. Count :
             amended[i] = IF i = Count THEN b ELSE Unread[i]
    BY <1>1, <1>3, <1>5, <2>5, ExceptSeq DEF UnreadShape
  <2>7. Unread' = amended
    BY <1>1, <1>3, <1>5, <2>3, <2>4, <2>6, SeqEqual DEF UnreadShape
  <2>8. Unread # <<>>
    BY <1>3, <1>5, EmptySeq DEF UnreadShape
  <2>9. QED
    BY <2>5, <2>7, <2>8 DEF Q!AmendLast
<1>6. QED
  BY <1>1, <1>4, <1>5

(***************************************************************************)
(* For every number of slots and every content the ring is the bounded     *)
(* FIFO queue: no operation of buffer.c that runs to completion loses,     *)
(* overwrites, repeats or reorders an unread block.                        *)
(***************************************************************************)
THEOREM RingImplementsQueue == Spec => ImplementsBlockQueue
<1>1. Init => Q!Init
  <2> SUFFICES ASSUME Init PROVE Unread = <<>>
    BY DEF Q!Init
  <2>1. Count = 0
    BY DEF Init, Count
  <2>2. QED
    BY <2>1, InitIndInv, UnreadIsSeq, EmptySeq DEF UnreadShape
<1>2. IndInv /\ [Next]_vars => [Q!Next]_Unread
  <2> SUFFICES ASSUME IndInv, [Next]_vars
               PROVE  [Q!Next]_Unread
    OBVIOUS
  <2>0. IndInv'
    BY NextIndInv
  <2>1. ASSUME NEW src \in Content, buffer_write_block(src)
        PROVE  Q!Enqueue
    BY <2>1, TakeEnqueues DEF buffer_write_block, Block
  <2>2. ASSUME buffer_get_write_block(pool)
        PROVE  Q!Enqueue
    <3>1. [pool[w] EXCEPT !.state = 0] \in Block
      BY DEF IndInv, TypeOK, Block
    <3>2. QED
      BY <2>2, <3>1, TakeEnqueues DEF buffer_get_write_block
  <2>3. ASSUME NEW src \in Content, Complete(src)
        PROVE  Q!AmendLast \/ UNCHANGED Unread
    BY <2>0, <2>3, CompleteAmends
  <2>4. ASSUME buffer_get_read_block
        PROVE  Q!Dequeue
    BY <2>0, <2>4, ReadDequeues
  <2>5. CASE UNCHANGED vars
    BY <2>5 DEF vars, Unread, Count, SlotAt
  <2>6. QED
    BY <2>1, <2>2, <2>3, <2>4, <2>5 DEF Next, Q!Next
<1>3. QED
  BY <1>1, <1>2, SpecIndInv, PTL DEF Spec, ImplementsBlockQueue, Q!Spec
===============================================================================
