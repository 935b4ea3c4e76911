------------------------------ MODULE RingBuffer ------------------------------
(***************************************************************************)
(* buffer.c / buffer.h: the ring of blocks behind a device's rx_buf and    *)
(* tx_buf.  w and r are the next slots to write and to read; the flag      *)
(* overflow says that w has wrapped to slot 0 and r has not yet, which is  *)
(* what tells a full ring from an empty one when w = r.                    *)
(*                                                                         *)
(* Here every operation runs to completion: this is the ring as one thread *)
(* uses it.  RxPath and TxPath take the operations apart where an          *)
(* interrupt or another task can preempt them.                             *)
(*                                                                         *)
(* A block's bytes and its block_size are one value of Content.            *)
(***************************************************************************)
EXTENDS Integers

CONSTANTS MAX_BLOCK_SIZE,  \* number of slots
          Content,         \* what a block can hold
          Zeroed           \* the content left by the memset of device_init

ASSUME RingAssumption == /\ MAX_BLOCK_SIZE \in Nat \ {0}
                         /\ Zeroed \in Content

VARIABLES pool, prev_w_block, w, r, overflow

vars == <<pool, prev_w_block, w, r, overflow>>

Slots == 0 .. MAX_BLOCK_SIZE - 1

NULL == -1  \* the null block_t*; any other pointer is its slot number

Block == [buffer : Content, state : {0, 1}]

(***************************************************************************)
(* The two conditions of buffer.c's assert statements, which every         *)
(* operation evaluates on the values it finds.                             *)
(***************************************************************************)
WriterAssert == overflow => w <= r
ReaderAssert == ~overflow => r <= w

FullWithoutFlagMutant == w = r

\* What makes buffer_write_block and buffer_get_write_block return early, and
\* what makes buffer_get_read_block.
NoFreeBlock == overflow /\ w = r
NoBlock == ~overflow /\ r = w
-------------------------------------------------------------------------------
WrapLateMutant(i) == (i + 1) % (MAX_BLOCK_SIZE + 1)

WrapShortMutant(i) == (i + 1) % (MAX_BLOCK_SIZE - 1)

\* ++i % MAX_BLOCK_SIZE
Wrap(i) == (i + 1) % MAX_BLOCK_SIZE

TakeNoFlagMutant(blocks, block) ==
  /\ pool' = [blocks EXCEPT ![w] = block]
  /\ prev_w_block' = w
  /\ w' = Wrap(w)
  /\ UNCHANGED <<r, overflow>>

\* The common tail of buffer_write_block and buffer_get_write_block: store
\* block in slot w of the pool the caller sees, and move w on.
Take(blocks, block) ==
  /\ pool' = [blocks EXCEPT ![w] = block]
  /\ prev_w_block' = w
  /\ w' = Wrap(w)
  /\ overflow' = (overflow \/ w' = 0)
  /\ UNCHANGED r

\* A full ring makes it return 0 with nothing stored, which no caller can
\* tell from success: a refused block is a step that changes nothing.
buffer_write_block(src) ==
  /\ ~NoFreeBlock
  /\ Take(pool, [buffer |-> src, state |-> 0])

\* The claimed block keeps the bytes its slot held before.
buffer_get_write_block(blocks) ==
  /\ ~NoFreeBlock
  /\ Take(blocks, [blocks[w] EXCEPT !.state = 0])

\* The receive interrupt completes the block it claimed last, through
\* buffer_get_prev_write_block.
Complete(src) ==
  /\ prev_w_block # NULL
  /\ pool' = [pool EXCEPT ![prev_w_block] = [buffer |-> src, state |-> 1]]
  /\ UNCHANGED <<prev_w_block, w, r, overflow>>

GetReadUncheckedMutant ==
  /\ r' = Wrap(r)
  /\ overflow' = (overflow /\ r' # 0)
  /\ UNCHANGED <<pool, prev_w_block, w>>

\* The slot returned to the caller is free for the writer from here on.
buffer_get_read_block ==
  /\ ~NoBlock
  /\ r' = Wrap(r)
  /\ overflow' = (overflow /\ r' # 0)
  /\ UNCHANGED <<pool, prev_w_block, w>>
-------------------------------------------------------------------------------
\* device_init clears the whole device; the memset of buffer_init that
\* follows it covers only the first bytes of pool[0] and changes nothing.
Init ==
  /\ pool = [s \in Slots |-> [buffer |-> Zeroed, state |-> 0]]
  /\ prev_w_block = NULL
  /\ w = 0
  /\ r = 0
  /\ overflow = FALSE

Next ==
  \/ \E src \in Content : buffer_write_block(src)
  \/ buffer_get_write_block(pool)
  \/ \E src \in Content : Complete(src)
  \/ buffer_get_read_block

Spec == Init /\ [][Next]_vars
-------------------------------------------------------------------------------
(***************************************************************************)
(* Type invariant: pointers stay inside the pool.                          *)
(***************************************************************************)
TypeOK ==
  /\ pool \in [Slots -> Block]
  /\ prev_w_block \in Slots \union {NULL}
  /\ w \in Slots
  /\ r \in Slots
  /\ overflow \in BOOLEAN

(***************************************************************************)
(* Neither assert of buffer.c (lines 14, 38, 60 and 79) can fail while     *)
(* operations run one at a time: overflow really says which side of r the  *)
(* write pointer is on.                                                    *)
(***************************************************************************)
AssertsHold == WriterAssert /\ ReaderAssert

\* The slots holding unread blocks, oldest first.
Count == IF overflow THEN MAX_BLOCK_SIZE - r + w ELSE w - r

SlotAt(i) == IF r + i < MAX_BLOCK_SIZE THEN r + i ELSE r + i - MAX_BLOCK_SIZE

Unread == [i \in 1 .. Count |-> pool[SlotAt(i - 1)]]

(***************************************************************************)
(* An operation of buffer.c returns early only for a reason: a write just  *)
(* when all MAX_BLOCK_SIZE slots are unread, a read just when none is.     *)
(* (For the queue below a refusal is a stutter, wherever it comes.)        *)
(***************************************************************************)
RefusesOnlyAtTheLimits ==
  /\ NoFreeBlock <=> Count = MAX_BLOCK_SIZE
  /\ NoBlock <=> Count = 0

(***************************************************************************)
(* The ring implements the bounded FIFO queue of MAX_BLOCK_SIZE blocks:    *)
(* no operation overwrites, skips, repeats or reorders an unread block.    *)
(***************************************************************************)
Q == INSTANCE BlockQueue WITH queue <- Unread, Capacity <- MAX_BLOCK_SIZE

ImplementsBlockQueue == Q!Spec
===============================================================================
