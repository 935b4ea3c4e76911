------------------------------ MODULE TxPathProofs ------------------------------
(***************************************************************************)
(* Proofs about TxPath, for every ring size, number of messages and        *)
(* announcement period and both kinds of build.  Types hold for Spec; the  *)
(* order of the messages for TurnsSpec, whatever the load.  That no block  *)
(* is dropped, or overwritten while it is sent, holds for LightSpec, with  *)
(* two blocks more than replies and observations may fill.                 *)
(***************************************************************************)
EXTENDS TxPath, SequenceTheorems, TLAPS

SafeBacklog == Backlog <= MAX_BLOCK_SIZE - 2

Slots == 0 .. MAX_BLOCK_SIZE - 1

WriteBegun == {"w_overflow", "w_assert", "w_compare", "w_copy"}
WriteStored == {"w_load", "w_store", "w_flag"}
ReadTaken == {"r_store", "r_clear", "device_write"}

(***************************************************************************)
(* The ring as it will be when the operation in progress has finished: a   *)
(* write counts from the copy on, a read from the load of r on.            *)
(***************************************************************************)
WritePos == IF pc \in {"w_load", "w_store"} THEN Buf!Wrap(w) ELSE w

ReadPos == IF pc = "r_store" THEN Buf!Wrap(r) ELSE r

Flag == IF pc \in WriteStored THEN overflow \/ WritePos = 0
        ELSE IF pc \in {"r_store", "r_clear"} THEN overflow /\ ReadPos # 0
        ELSE overflow

\* Blocks that wait, blocks taken off the ring, and how far behind the read
\* position a slot is.
Waiting == IF Flag THEN MAX_BLOCK_SIZE - ReadPos + WritePos ELSE WritePos - ReadPos

Taken == Len(wire) + (IF gState = READY THEN 0 ELSE 1) + (IF tx_block = NULL THEN 0 ELSE 1)

Offset(s) == IF s >= ReadPos THEN s - ReadPos ELSE s - ReadPos + MAX_BLOCK_SIZE
-------------------------------------------------------------------------------
TypeInv ==
  /\ TypeOK
  /\ gState \in [block : Slots \union {NULL}, first : Messages]
  /\ gState.block = NULL => gState = READY
  /\ pc \in WriteBegun \union WriteStored \union ReadTaken
              \union {"event_step", "r_overflow", "r_assert", "r_compare", "r_load", "parse"}
  /\ return_to \in {"parse", "r_overflow"}
  /\ tx_block # NULL <=> pc \in ReadTaken

\* The flag tells on which side of the read position the write position is,
\* and the waiting blocks hold the messages accepted last.
RingInv ==
  /\ failed_assert = 0
  /\ Flag => WritePos <= ReadPos
  /\ ~Flag => ReadPos <= WritePos
  /\ Len(accepted) = Taken + Waiting
  /\ \A s \in Slots :
       Offset(s) < Waiting => pool[s].buffer = accepted[Taken + 1 + Offset(s)]

\* What the event task knows from its last access.
TaskInv ==
  /\ pc \in {"w_assert", "w_compare"} => overflow
  /\ pc = "w_copy" => Waiting < MAX_BLOCK_SIZE
  /\ pc = "w_store" => reg = w
  /\ pc \in {"r_assert", "r_compare"} => ~overflow
  /\ pc = "r_load" => Waiting > 0
  /\ pc = "r_store" => reg = r
  /\ pc = "r_clear" => r = 0
  /\ tx_block # NULL => /\ pool[tx_block].buffer = accepted[Taken]
                        /\ Buf!Wrap(tx_block) = ReadPos

WireInv ==
  /\ TransmittedInOrder
  /\ gState # READY => gState.first = accepted[Len(wire) + 1]

IInv == TypeInv /\ RingInv /\ TaskInv /\ WireInv

\* An announcement is written by a task that has just read or is about to, and
\* the only one not to look at the blocks that wait.
BacklogInv ==
  /\ Waiting <= Backlog + 1
  /\ pc \in ReadTaken \union {"event_step", "parse"} => Waiting <= Backlog
  /\ pc \in WriteBegun => /\ Waiting <= Backlog
                          /\ return_to = "parse" => Waiting < Backlog
  /\ pc \in WriteStored /\ return_to = "parse" => Waiting <= Backlog

\* The slot that is sent lies just behind those already taken.
SentInv ==
  /\ TransmittedWhole
  /\ gState # READY =>
       /\ pool[gState.block].buffer = gState.first
       /\ Buf!Wrap(gState.block) = IF tx_block = NULL THEN ReadPos ELSE tx_block

WholeInv == IInv /\ BacklogInv /\ SentInv /\ NothingDropped

\* The ring that one thread uses, of which TxPath takes the operations apart.
Ring == INSTANCE RingBuffer WITH Content <- Messages, Zeroed <- 0,
                                 w <- WritePos, r <- ReadPos, overflow <- Flag
-------------------------------------------------------------------------------
LEMMA BufSlots == Buf!Slots = Slots
BY DEF Buf!Slots, Slots

LEMMA NullValue == NULL = -1 /\ NULL \notin Slots
BY TxAssumption DEF NULL, Buf!NULL, Slots

(***************************************************************************)
(* The modulo of the pointers' increment is a conditional.                 *)
(***************************************************************************)
LEMMA WrapValue ==
  ASSUME NEW i \in Slots
  PROVE  /\ Buf!Wrap(i) = IF i + 1 = MAX_BLOCK_SIZE THEN 0 ELSE i + 1
         /\ Buf!Wrap(i) \in Slots
<1> USE TxAssumption DEF Slots
<1>1. CASE i + 1 = MAX_BLOCK_SIZE
  BY <1>1 DEF Buf!Wrap
<1>2. CASE i + 1 < MAX_BLOCK_SIZE
  BY <1>2 DEF Buf!Wrap
<1>3. QED
  BY <1>1, <1>2

(***************************************************************************)
(* What DISCOVER_PERIOD keeps discover_count within.                       *)
(***************************************************************************)
LEMMA DiscoverValue ==
  ASSUME NEW n \in 0 .. DISCOVER_PERIOD - 1
  PROVE  (n + 1) % DISCOVER_PERIOD \in 0 .. DISCOVER_PERIOD - 1
BY TxAssumption

(***************************************************************************)
(* The initial state has all types, and the empty ring.                    *)
(***************************************************************************)
LEMMA InitType == Init => TypeInv
<1> SUFFICES ASSUME Init PROVE TypeInv
  OBVIOUS
<1> USE TxAssumption, BufSlots, NullValue
<1>1. 0 \in Slots /\ 0 \in Messages /\ 0 \in 0 .. DISCOVER_PERIOD - 1
  BY DEF Slots, Messages
<1>2. pool \in [Buf!Slots -> Buf!Block] /\ prev_w_block = NULL /\ w = 0 /\ r = 0
      /\ overflow = FALSE
  BY <1>1 DEF Init, Buf!Init, Buf!Block, NULL
<1>3. /\ tx_block = NULL /\ gState = READY /\ reg = 0 /\ src = 0 /\ written = 0
      /\ discover_count = 0 /\ accepted = <<>> /\ wire = <<>> /\ failed_assert = 0
  BY DEF Init
<1>4. gState.block = NULL /\ gState.first = 0
  BY <1>3 DEF READY
<1>5. TypeOK
  <2>1. accepted \in Seq(Messages) /\ wire \in Seq([first : Messages, last : Messages])
    BY <1>3
  <2>2. discover_count \in 0 .. DISCOVER_PERIOD - 1 /\ failed_assert \in {0, 14, 60}
    BY <1>1, <1>3
  <2>3. {prev_w_block, tx_block, gState.block} \subseteq Buf!Slots \union {NULL}
        /\ {w, r, reg} \subseteq Buf!Slots
    BY <1>1, <1>2, <1>3, <1>4
  <2>4. {src, written, gState.first} \subseteq Messages
    BY <1>1, <1>3, <1>4
  <2>5. QED
    BY <1>2, <2>1, <2>2, <2>3, <2>4 DEF TypeOK
<1>6. QED
  BY <1>1, <1>5 DEF Init, TypeInv, READY, WriteBegun, WriteStored, ReadTaken

(***************************************************************************)
(* A step that leaves the ring, the transfer and the histories alone.      *)
(***************************************************************************)
LEMMA LookTypes ==
  ASSUME TypeInv, UNCHANGED <<ring, gState, written, accepted, wire>>,
         UNCHANGED <<return_to, src, discover_count, tx_block>>,
         reg' \in Slots, failed_assert' \in {0, 14, 60},
         pc' \in WriteBegun \union WriteStored \union ReadTaken
                  \union {"event_step", "r_overflow", "r_assert", "r_compare", "r_load", "parse"},
         pc \in ReadTaken <=> pc' \in ReadTaken
  PROVE  TypeInv'
BY BufSlots DEF TypeInv, TypeOK, ring, Buf!Block

(***************************************************************************)
(* Every step keeps the types, whoever preempts whom.                      *)
(***************************************************************************)
LEMMA TypeStep ==
  ASSUME TypeInv, [Next]_vars
  PROVE  TypeInv'
<1> USE TxAssumption, BufSlots, NullValue DEF WriteBegun, WriteStored, ReadTaken
<1>1. /\ w \in Slots /\ r \in Slots /\ reg \in Slots /\ pool \in [Slots -> Buf!Block]
      /\ written \in Messages /\ src \in Messages
      /\ discover_count \in 0 .. DISCOVER_PERIOD - 1 /\ failed_assert \in {0, 14, 60}
      /\ return_to \in {"parse", "r_overflow"}
      /\ accepted \in Seq(Messages) /\ wire \in Seq([first : Messages, last : Messages])
  BY DEF TypeInv, TypeOK
<1>2. ASSUME NEW s \in Slots
      PROVE  pool[s].buffer \in Messages
  BY <1>1 DEF Buf!Block
<1>3. CASE UNCHANGED vars
  BY <1>3, <1>1, LookTypes DEF vars, task, TypeInv
<1>4. CASE WriteOverflow \/ WriteAssert \/ WriteCompare
  BY <1>4, <1>1, LookTypes DEF WriteOverflow, WriteAssert, WriteCompare, At, Goto, task
<1>5. CASE WriteCopy
  <2>1. [buffer |-> src, state |-> 0] \in Buf!Block
    BY <1>1 DEF Buf!Block
  <2>2. pool' \in [Slots -> Buf!Block] /\ accepted' \in Seq(Messages)
    BY <1>1, <1>5, <2>1 DEF WriteCopy
  <2>3. QED
    BY <1>1, <1>5, <2>2 DEF WriteCopy, At, Goto, TypeInv, TypeOK
<1>6. CASE WriteLoad
  BY <1>6, <1>1, LookTypes DEF WriteLoad, At
<1>7. CASE WriteStore
  BY <1>1, <1>7, WrapValue DEF WriteStore, At, Goto, TypeInv, TypeOK
<1>8. CASE WriteFlag
  BY <1>1, <1>8 DEF WriteFlag, At, Goto, TypeInv, TypeOK
<1>9. CASE CountDiscover
  <2>1. discover_count' \in 0 .. DISCOVER_PERIOD - 1
    BY <1>1, <1>9, DiscoverValue DEF CountDiscover
  <2>2. /\ written' \in Messages /\ src' \in Messages
        /\ return_to' \in {"parse", "r_overflow"}
        /\ pc' \in {"w_overflow", "r_overflow"}
    BY <1>1, <1>9 DEF CountDiscover, BeginWrite, Messages
  <2>3. QED
    BY <1>9, <2>1, <2>2 DEF CountDiscover, At, TypeInv, TypeOK, ring, Buf!Block
<1>10. CASE ReadOverflow \/ ReadAssert \/ ReadCompare
  BY <1>10, <1>1, LookTypes DEF ReadOverflow, ReadAssert, ReadCompare, At, Goto, task
<1>11. CASE ReadLoad
  BY <1>1, <1>11 DEF ReadLoad, At, TypeInv, TypeOK, ring, Buf!Block
<1>12. CASE ReadStore
  BY <1>1, <1>12, WrapValue DEF ReadStore, At, Goto, TypeInv, TypeOK
<1>13. CASE ReadClear
  BY <1>1, <1>13 DEF ReadClear, At, Goto, TypeInv, TypeOK
<1>14. CASE device_write
  <2>1. tx_block \in Slots
    BY <1>14 DEF device_write, At, TypeInv, TypeOK
  <2>2. gState' \in [block : Slots \union {NULL}, first : Messages] /\ gState'.block # NULL
    BY <1>2, <1>14, <2>1 DEF device_write
  <2>3. QED
    BY <1>1, <1>14, <2>2 DEF device_write, At, TypeInv, TypeOK, ring, Buf!Block
<1>15. CASE parse
  <2>1. /\ written' \in Messages /\ src' \in Messages
        /\ return_to' \in {"parse", "r_overflow"}
        /\ pc' \in {"w_overflow", "event_step"}
    BY <1>1, <1>15 DEF parse, BeginWrite, Messages
  <2>2. QED
    BY <1>15, <2>1 DEF parse, At, TypeInv, TypeOK, ring, Buf!Block
<1>16. CASE MotorWrites
  <2>1. written' \in Messages
    BY <1>1, <1>16 DEF MotorWrites, Messages
  <2>2. CASE Buf!buffer_write_block(written')
    <3>1. [buffer |-> written', state |-> 0] \in Buf!Block
      BY <2>1 DEF Buf!Block
    <3>2. /\ pool' \in [Slots -> Buf!Block] /\ prev_w_block' = w
          /\ w' \in Slots /\ r' = r /\ overflow' \in BOOLEAN
      BY <1>1, <2>2, <3>1, WrapValue DEF Buf!buffer_write_block, Buf!Take
    <3>3. accepted' \in Seq(Messages)
      <4>1. accepted' = accepted \/ accepted' = Append(accepted, written')
        BY <1>16 DEF MotorWrites
      <4>2. QED
        BY <1>1, <2>1, <4>1
    <3>4. QED
      BY <1>1, <1>16, <2>1, <3>2, <3>3 DEF MotorWrites, task, TypeInv, TypeOK
  <2>3. CASE UNCHANGED <<ring, accepted>>
    BY <1>1, <1>16, <2>1, <2>3 DEF MotorWrites, task, TypeInv, TypeOK, ring, Buf!Block
  <2>4. QED
    BY <1>16, <2>2, <2>3 DEF MotorWrites
<1>17. CASE TransmitComplete
  <2>1. gState.block \in Slots /\ gState.first \in Messages
    BY <1>17 DEF TransmitComplete, TypeInv
  <2>2. [first |-> gState.first, last |-> pool[gState.block].buffer]
          \in [first : Messages, last : Messages]
    BY <1>2, <2>1
  <2>3. wire' \in Seq([first : Messages, last : Messages])
    BY <1>1, <1>17, <2>2 DEF TransmitComplete
  <2>4. gState' \in [block : Slots \union {NULL}, first : Messages] /\ gState' = READY
        /\ gState'.block = NULL
    BY <1>17 DEF TransmitComplete, READY, Messages
  <2>5. QED
    BY <1>1, <1>17, <2>3, <2>4 DEF TransmitComplete, task, TypeInv, TypeOK, ring, Buf!Block
<1>18. QED
  BY <1>3, <1>4, <1>5, <1>6, <1>7, <1>8, <1>9, <1>10, <1>11, <1>12, <1>13, <1>14, <1>15,
     <1>16, <1>17 DEF Next, event_step, WriteBlock, ReadBlock
-------------------------------------------------------------------------------
(***************************************************************************)
(* The ring to come, and its three kinds of step.                          *)
(***************************************************************************)
LEMMA RingTypes ==
  ASSUME TypeInv
  PROVE  /\ WritePos \in Slots /\ ReadPos \in Slots /\ Flag \in BOOLEAN
         /\ w \in Slots /\ r \in Slots /\ overflow \in BOOLEAN
         /\ Len(wire) \in Nat /\ Len(accepted) \in Nat /\ Taken \in Nat /\ Waiting \in Int
         /\ accepted \in Seq(Messages) /\ pool \in [Slots -> Buf!Block]
         /\ MAX_BLOCK_SIZE \in Nat /\ MAX_BLOCK_SIZE >= 2
<1> USE TxAssumption, BufSlots
<1>1. w \in Slots /\ r \in Slots /\ overflow \in BOOLEAN
  BY DEF TypeInv, TypeOK
<1>2. WritePos \in Slots /\ ReadPos \in Slots
  BY <1>1, WrapValue DEF WritePos, ReadPos
<1>3. Flag \in BOOLEAN
  BY <1>1 DEF Flag
<1>4. Len(wire) \in Nat /\ Len(accepted) \in Nat
  BY LenProperties DEF TypeInv, TypeOK
<1>5. Taken \in Nat
  <2> DEFINE sending == IF gState = READY THEN 0 ELSE 1
             taking == IF tx_block = NULL THEN 0 ELSE 1
  <2>1. sending \in Nat /\ taking \in Nat
    OBVIOUS
  <2>2. Taken = Len(wire) + sending + taking
    BY DEF Taken
  <2> HIDE DEF sending, taking
  <2>3. QED
    BY <1>4, <2>1, <2>2
<1>6. Waiting \in Int
  BY <1>2, <1>3 DEF Waiting, Slots
<1>7. QED
  BY <1>1, <1>2, <1>3, <1>4, <1>5, <1>6 DEF TypeInv, TypeOK

(***************************************************************************)
(* While the flag is right, between none and all slots wait; the slots     *)
(* from the read position on wait, and the write position is the first     *)
(* that does not.                                                          *)
(***************************************************************************)
LEMMA WaitingValue ==
  ASSUME TypeInv, RingInv
  PROVE  /\ Waiting \in 0 .. MAX_BLOCK_SIZE
         /\ Waiting = 0 <=> (~Flag /\ ReadPos = WritePos)
         /\ Waiting = MAX_BLOCK_SIZE <=> (Flag /\ ReadPos = WritePos)
         /\ Waiting < MAX_BLOCK_SIZE => Offset(WritePos) = Waiting
<1>1. /\ WritePos \in Slots /\ ReadPos \in Slots /\ Flag \in BOOLEAN
      /\ MAX_BLOCK_SIZE \in Nat /\ MAX_BLOCK_SIZE >= 2
  BY RingTypes
<1>2. (Flag => WritePos <= ReadPos) /\ (~Flag => ReadPos <= WritePos)
  BY DEF RingInv
<1>3. QED
  BY <1>1, <1>2 DEF Waiting, Offset, Slots

LEMMA OffsetValue ==
  ASSUME TypeInv, NEW s \in Slots
  PROVE  /\ Offset(s) \in 0 .. MAX_BLOCK_SIZE - 1
         /\ Offset(s) = Offset(WritePos) => s = WritePos
         /\ Offset(s) = 0 <=> s = ReadPos
<1>1. /\ WritePos \in Slots /\ ReadPos \in Slots
      /\ MAX_BLOCK_SIZE \in Nat /\ MAX_BLOCK_SIZE >= 2
  BY RingTypes
<1>2. QED
  BY <1>1 DEF Offset, Slots

LEMMA SameRing ==
  ASSUME RingInv, UNCHANGED <<pool, WritePos, ReadPos, Flag, Taken, accepted>>,
         failed_assert' = 0
  PROVE  RingInv' /\ Waiting' = Waiting
<1>1. Waiting' = Waiting /\ \A s : Offset(s)' = Offset(s)
  BY DEF Waiting, Offset
<1>2. QED
  BY <1>1 DEF RingInv

LEMMA WrittenRing ==
  ASSUME TypeInv, TypeInv', RingInv, Waiting < MAX_BLOCK_SIZE, NEW m,
         pool' = [pool EXCEPT ![WritePos] = [buffer |-> m, state |-> 0]],
         accepted' = Append(accepted, m),
         WritePos' = Buf!Wrap(WritePos), Flag' = (Flag \/ WritePos' = 0),
         UNCHANGED <<ReadPos, Taken>>, failed_assert' = 0
  PROVE  RingInv' /\ Waiting' = Waiting + 1
<1>0. /\ WritePos \in Slots /\ ReadPos \in Slots /\ Flag \in BOOLEAN
      /\ Taken \in Nat /\ accepted \in Seq(Messages) /\ Len(accepted) \in Nat
      /\ pool \in [Slots -> Buf!Block] /\ MAX_BLOCK_SIZE \in Nat /\ MAX_BLOCK_SIZE >= 2
      /\ accepted' \in Seq(Messages)
  BY RingTypes DEF TypeInv, TypeOK
<1>1. WritePos' = IF WritePos + 1 = MAX_BLOCK_SIZE THEN 0 ELSE WritePos + 1
  BY <1>0, WrapValue
<1>3. /\ Flag => WritePos < ReadPos
      /\ ~Flag => ReadPos <= WritePos
  BY <1>0 DEF RingInv, Waiting, Slots
<1>4. /\ Waiting' = Waiting + 1
      /\ Flag' => WritePos' <= ReadPos
      /\ ~Flag' => ReadPos <= WritePos'
  BY <1>1, <1>0, <1>3 DEF Waiting, Slots
<1>5. \A s : Offset(s)' = Offset(s)
  BY DEF Offset
<1>6. /\ Len(accepted') = Len(accepted) + 1
      /\ accepted'[Len(accepted) + 1] = m
      /\ \A n \in 1 .. Len(accepted) : accepted'[n] = accepted[n]
  <2>1. m \in Messages
    <3>1. accepted'[Len(accepted')] \in Messages /\ Len(accepted') = Len(accepted) + 1
      BY <1>0
    <3>2. QED
      BY <1>0, <3>1
  <2>2. QED
    BY <1>0, <2>1
<1>7. Len(accepted) = Taken + Waiting /\ Taken \in Nat /\ Waiting \in Nat
  BY <1>0, WaitingValue DEF RingInv
<1>8. ASSUME NEW s \in Slots, Offset(s) < Waiting + 1
      PROVE  pool'[s].buffer = accepted'[Taken + 1 + Offset(s)]
  <2>1. Offset(s) \in Nat /\ Offset(WritePos) = Waiting
    BY <1>0, WaitingValue, OffsetValue
  <2>2. CASE s = WritePos
    <3>1. pool'[s].buffer = m
      BY <1>0, <2>2
    <3>2. Taken + 1 + Offset(s) = Len(accepted) + 1
      BY <1>7, <2>1, <2>2
    <3>3. QED
      BY <1>6, <3>1, <3>2
  <2>3. CASE s # WritePos
    <3>1. Offset(s) # Waiting
      BY <2>1, <2>3, OffsetValue
    <3>2. Offset(s) < Waiting /\ Taken + 1 + Offset(s) \in 1 .. Len(accepted)
      BY <1>7, <1>8, <2>1, <3>1
    <3>3. pool'[s] = pool[s]
      BY <1>0, <2>3
    <3>4. QED
      BY <1>6, <3>2, <3>3 DEF RingInv
  <2>4. QED
    BY <2>2, <2>3
<1>9. Len(accepted') = Taken' + Waiting'
  BY <1>4, <1>6, <1>7
<1>10. QED
  BY <1>4, <1>5, <1>8, <1>9 DEF RingInv

LEMMA ReadRing ==
  ASSUME TypeInv, TypeInv', RingInv, Waiting > 0,
         ReadPos' = Buf!Wrap(ReadPos), Flag' = (Flag /\ ReadPos' # 0),
         Taken' = Taken + 1,
         UNCHANGED <<pool, WritePos, accepted>>, failed_assert' = 0
  PROVE  /\ RingInv' /\ Waiting' = Waiting - 1
         /\ pool[ReadPos].buffer = accepted[Taken']
<1>0. /\ WritePos \in Slots /\ ReadPos \in Slots /\ Flag \in BOOLEAN
      /\ Taken \in Nat /\ Len(accepted) \in Nat
      /\ MAX_BLOCK_SIZE \in Nat /\ MAX_BLOCK_SIZE >= 2
  BY RingTypes
<1>1. ReadPos' = IF ReadPos + 1 = MAX_BLOCK_SIZE THEN 0 ELSE ReadPos + 1
  BY <1>0, WrapValue
<1>3. /\ Flag => WritePos <= ReadPos
      /\ ~Flag => ReadPos < WritePos
  BY <1>0 DEF RingInv, Waiting, Slots
<1>4. /\ Waiting' = Waiting - 1
      /\ Flag' => WritePos <= ReadPos'
      /\ ~Flag' => ReadPos' <= WritePos
  <2>1. WritePos' = WritePos /\ Flag' = (Flag /\ ReadPos' # 0)
    OBVIOUS
  <2>2. CASE ReadPos + 1 = MAX_BLOCK_SIZE
    <3>1. Flag /\ ReadPos = MAX_BLOCK_SIZE - 1
      BY <1>0, <1>3, <2>2 DEF Slots
    <3>2. ReadPos' = 0 /\ Flag' = FALSE
      BY <1>1, <2>1, <2>2
    <3>3. Waiting = 1 + WritePos /\ Waiting' = WritePos - 0
      BY <1>0, <2>1, <3>1, <3>2 DEF Waiting, Slots
    <3>4. QED
      BY <1>0, <3>2, <3>3 DEF Slots
  <2>3. CASE ReadPos + 1 # MAX_BLOCK_SIZE
    BY <1>0, <1>1, <1>3, <2>1, <2>3 DEF Waiting, Slots
  <2>4. QED
    BY <2>2, <2>3
<1>5. \A s \in Slots : Offset(s)' = IF s = ReadPos THEN MAX_BLOCK_SIZE - 1 ELSE Offset(s) - 1
  BY <1>1, <1>0 DEF Offset, Slots
<1>6. Waiting \in 1 .. MAX_BLOCK_SIZE /\ Taken \in Nat
  BY <1>0, WaitingValue
<1>7. ASSUME NEW s \in Slots, Offset(s)' < Waiting - 1
      PROVE  pool[s].buffer = accepted[Taken' + 1 + Offset(s)']
  <2>1. s # ReadPos
    BY <1>0, <1>5, <1>6, <1>7
  <2>2. Offset(s) \in Nat /\ Offset(s)' = Offset(s) - 1
    BY <1>0, <1>5, <2>1, OffsetValue
  <2>3. Offset(s) < Waiting /\ Taken' + 1 + Offset(s)' = Taken + 1 + Offset(s)
    BY <1>6, <1>7, <2>2
  <2>4. QED
    BY <2>3 DEF RingInv
<1>8. pool[ReadPos].buffer = accepted[Taken']
  <2>1. Offset(ReadPos) = 0
    BY <1>0, OffsetValue
  <2>2. Taken + 1 + Offset(ReadPos) = Taken'
    BY <1>6, <2>1
  <2>3. Offset(ReadPos) < Waiting
    BY <1>6, <2>1
  <2>4. pool[ReadPos].buffer = accepted[Taken + 1 + Offset(ReadPos)]
    BY <1>0, <2>3 DEF RingInv
  <2>5. QED
    BY <2>2, <2>4
<1>9. RingInv'
  <2>1. Len(accepted') = Taken' + Waiting'
    BY <1>4, <1>6 DEF RingInv
  <2>2. QED
    BY <1>4, <1>7, <2>1 DEF RingInv
<1>10. QED
  BY <1>4, <1>8, <1>9
-------------------------------------------------------------------------------
(***************************************************************************)
(* What a step does to the ring to come: nothing, one write, or one read.  *)
(***************************************************************************)
Kept == UNCHANGED <<pool, prev_w_block, WritePos, ReadPos, Flag, Taken, accepted, failed_assert>>

Wrote(m) ==
  /\ Waiting < MAX_BLOCK_SIZE
  /\ pool' = [pool EXCEPT ![WritePos] = [buffer |-> m, state |-> 0]]
  /\ prev_w_block' = WritePos
  /\ accepted' = Append(accepted, m)
  /\ WritePos' = Buf!Wrap(WritePos)
  /\ Flag' = (Flag \/ WritePos' = 0)
  /\ UNCHANGED <<ReadPos, Taken, failed_assert>>

Took ==
  /\ Waiting > 0
  /\ ReadPos' = Buf!Wrap(ReadPos)
  /\ Flag' = (Flag /\ ReadPos' # 0)
  /\ Taken' = Taken + 1
  /\ UNCHANGED <<pool, prev_w_block, WritePos, accepted, failed_assert>>

\* Between operations the ring to come is the one there is.
Quiet == pc \notin WriteStored \union ReadTaken

LEMMA QuietRing ==
  ASSUME TypeInv, Quiet
  PROVE  WritePos = w /\ ReadPos = r /\ Flag = overflow /\ tx_block = NULL
BY DEF TypeInv, Quiet, WritePos, ReadPos, Flag, WriteStored, ReadTaken

(***************************************************************************)
(* A step that only looks at the ring.                                     *)
(***************************************************************************)
LEMMA LookKeeps ==
  ASSUME TypeInv, TypeInv', UNCHANGED <<ring, gState, accepted, wire, failed_assert>>,
         \/ Quiet /\ Quiet'
         \/ pc = "w_load" /\ pc' = "w_store"
  PROVE  Kept
<1>1. UNCHANGED <<pool, prev_w_block, w, r, overflow>>
  BY DEF ring
<1>2. UNCHANGED <<WritePos, ReadPos, Flag>> /\ tx_block = NULL /\ tx_block' = NULL
  <2>1. CASE Quiet /\ Quiet'
    <3>1. WritePos = w /\ ReadPos = r /\ Flag = overflow /\ tx_block = NULL
      BY <2>1, QuietRing
    <3>2. WritePos' = w' /\ ReadPos' = r' /\ Flag' = overflow' /\ tx_block' = NULL
      BY <2>1 DEF TypeInv, Quiet, WritePos, ReadPos, Flag, WriteStored, ReadTaken
    <3>3. QED
      BY <1>1, <3>1, <3>2
  <2>2. CASE pc = "w_load" /\ pc' = "w_store"
    BY <1>1, <2>2 DEF WritePos, ReadPos, Flag, WriteStored, ReadTaken, TypeInv
  <2>3. QED
    BY <2>1, <2>2
<1>3. Taken' = Taken
  BY <1>2 DEF Taken
<1>4. QED
  BY <1>1, <1>2, <1>3 DEF Kept

(***************************************************************************)
(* The event task on its way to the copy of a message.                     *)
(***************************************************************************)
LEMMA WriteLooks ==
  ASSUME IInv, TypeInv', WriteOverflow \/ WriteAssert \/ WriteCompare \/ WriteLoad
  PROVE  Kept /\ TaskInv'
<1> USE DEF WriteBegun, WriteStored, ReadTaken, At, Goto
<1>1. TypeInv /\ RingInv
  BY DEF IInv
<1>2. failed_assert = 0 /\ return_to \in {"parse", "r_overflow"}
  BY <1>1 DEF RingInv, TypeInv
<1>3. UNCHANGED <<ring, gState, accepted, wire>>
  BY DEF WriteOverflow, WriteAssert, WriteCompare, WriteLoad
<1>4. Waiting < MAX_BLOCK_SIZE \/ (Flag /\ ReadPos = WritePos)
  BY <1>1, WaitingValue, TxAssumption
<1>5. CASE WriteOverflow
  <2>1. Quiet /\ Quiet' /\ UNCHANGED failed_assert
    BY <1>5 DEF WriteOverflow, Quiet
  <2>2. Kept
    BY <1>1, <1>3, <2>1, LookKeeps
  <2>3. WritePos = w /\ ReadPos = r /\ Flag = overflow
    BY <1>1, <2>1, QuietRing
  <2>4. pc' = "w_copy" => Waiting' < MAX_BLOCK_SIZE
    <3>1. Waiting' = Waiting
      BY <2>2 DEF Kept, Waiting
    <3>2. pc' = "w_copy" => ~overflow
      BY <1>5 DEF WriteOverflow
    <3>3. QED
      BY <1>4, <2>3, <3>1, <3>2
  <2>5. pc' \in {"w_assert", "w_copy"} /\ (pc' = "w_assert" => overflow') /\ tx_block' = NULL
    BY <1>1, <1>5 DEF WriteOverflow, ring, TypeInv
  <2>6. QED
    BY <2>2, <2>4, <2>5 DEF TaskInv
<1>6. CASE WriteAssert
  <2>1. Quiet /\ overflow
    BY <1>6 DEF WriteAssert, Quiet, IInv, TaskInv
  <2>2. w <= r
    BY <1>1, <2>1, QuietRing DEF RingInv
  <2>3. pc' = "w_compare" /\ UNCHANGED failed_assert /\ overflow' /\ tx_block' = NULL
    BY <1>1, <1>6, <2>1, <2>2 DEF WriteAssert, ring, TypeInv
  <2>4. Kept
    BY <1>1, <1>3, <2>1, <2>3, LookKeeps DEF Quiet
  <2>5. QED
    BY <2>3, <2>4 DEF TaskInv
<1>7. CASE WriteCompare
  <2>1. Quiet /\ Quiet' /\ UNCHANGED failed_assert
    BY <1>2, <1>7 DEF WriteCompare, Quiet
  <2>2. Kept
    BY <1>1, <1>3, <2>1, LookKeeps
  <2>3. WritePos = w /\ ReadPos = r
    BY <1>1, <2>1, QuietRing
  <2>4. pc' = "w_copy" => Waiting' < MAX_BLOCK_SIZE
    <3>1. Waiting' = Waiting
      BY <2>2 DEF Kept, Waiting
    <3>2. pc' = "w_copy" => w # r
      BY <1>2, <1>7 DEF WriteCompare
    <3>3. QED
      BY <1>4, <2>3, <3>1, <3>2
  <2>5. pc' \in {"w_copy", "parse", "r_overflow"} /\ tx_block' = NULL
    BY <1>1, <1>2, <1>7 DEF WriteCompare, TypeInv
  <2>6. QED
    BY <2>2, <2>4, <2>5 DEF TaskInv
<1>8. CASE WriteLoad
  <2>1. /\ pc = "w_load" /\ pc' = "w_store" /\ UNCHANGED failed_assert /\ tx_block' = NULL
        /\ reg' = w'
    BY <1>1, <1>8 DEF WriteLoad, TypeInv, ring
  <2>2. Kept
    BY <1>1, <1>3, <2>1, LookKeeps
  <2>3. QED
    BY <2>1, <2>2 DEF TaskInv
<1>9. QED
  BY <1>5, <1>6, <1>7, <1>8

(***************************************************************************)
(* The event task on its way to the load of r.                             *)
(***************************************************************************)
LEMMA ReadLooks ==
  ASSUME IInv, TypeInv', ReadOverflow \/ ReadAssert \/ ReadCompare
  PROVE  Kept /\ TaskInv'
<1> USE DEF WriteBegun, WriteStored, ReadTaken, At, Goto
<1>1. TypeInv /\ RingInv
  BY DEF IInv
<1>2. failed_assert = 0
  BY <1>1 DEF RingInv
<1>3. UNCHANGED <<ring, gState, accepted, wire>>
  BY DEF ReadOverflow, ReadAssert, ReadCompare
<1>4. /\ Waiting \in 0 .. MAX_BLOCK_SIZE
      /\ Waiting = 0 <=> (~Flag /\ ReadPos = WritePos)
  BY <1>1, WaitingValue
<1>5. MAX_BLOCK_SIZE \in Nat
  BY TxAssumption
<1>6. Quiet /\ tx_block' = NULL
  BY <1>1 DEF ReadOverflow, ReadAssert, ReadCompare, task, Quiet, TypeInv
<1>7. WritePos = w /\ ReadPos = r /\ Flag = overflow
  BY <1>1, <1>6, QuietRing
<1>8. CASE ReadOverflow
  <2>1. Quiet' /\ UNCHANGED failed_assert
    BY <1>8 DEF ReadOverflow, Quiet
  <2>2. Kept
    BY <1>1, <1>3, <1>6, <2>1, LookKeeps
  <2>3. pc' = "r_load" => Waiting' > 0
    <3>1. Waiting' = Waiting
      BY <2>2 DEF Kept, Waiting
    <3>2. pc' = "r_load" => overflow
      BY <1>8 DEF ReadOverflow
    <3>3. QED
      BY <1>4, <1>5, <1>7, <3>1, <3>2
  <2>4. pc' \in {"r_load", "r_assert"} /\ (pc' = "r_assert" => ~overflow')
    BY <1>8 DEF ReadOverflow, ring
  <2>5. QED
    BY <1>6, <2>2, <2>3, <2>4 DEF TaskInv
<1>9. CASE ReadAssert
  <2>1. ~overflow
    BY <1>9 DEF ReadAssert, IInv, TaskInv
  <2>2. r <= w
    BY <1>1, <1>7, <2>1 DEF RingInv
  <2>3. pc' = "r_compare" /\ UNCHANGED failed_assert /\ ~overflow'
    BY <1>9, <2>1, <2>2 DEF ReadAssert, ring
  <2>4. Kept
    BY <1>1, <1>3, <1>6, <2>3, LookKeeps DEF Quiet
  <2>5. QED
    BY <1>6, <2>3, <2>4 DEF TaskInv
<1>10. CASE ReadCompare
  <2>1. Quiet' /\ UNCHANGED failed_assert
    BY <1>10 DEF ReadCompare, Quiet
  <2>2. Kept
    BY <1>1, <1>3, <1>6, <2>1, LookKeeps
  <2>3. pc' = "r_load" => Waiting' > 0
    <3>1. Waiting' = Waiting
      BY <2>2 DEF Kept, Waiting
    <3>2. pc' = "r_load" => w # r
      BY <1>10 DEF ReadCompare
    <3>3. QED
      BY <1>4, <1>5, <1>7, <3>1, <3>2
  <2>4. pc' \in {"r_load", "parse"}
    BY <1>10 DEF ReadCompare
  <2>5. QED
    BY <1>6, <2>2, <2>3, <2>4 DEF TaskInv
<1>11. QED
  BY <1>8, <1>9, <1>10

(***************************************************************************)
(* The event task between its operations: it may begin a write, and leaves *)
(* the ring alone.                                                         *)
(***************************************************************************)
LEMMA TaskPasses ==
  ASSUME IInv, TypeInv', CountDiscover \/ parse
  PROVE  Kept /\ TaskInv'
<1> USE DEF WriteBegun, WriteStored, ReadTaken, At, BeginWrite
<1>1. TypeInv
  BY DEF IInv
<1>2. /\ UNCHANGED <<ring, gState, accepted, wire, failed_assert>>
      /\ pc' \in {"w_overflow", "r_overflow", "event_step"}
      /\ pc \in {"event_step", "parse"}
  BY DEF CountDiscover, parse
<1>3. Quiet /\ Quiet' /\ tx_block' = NULL
  BY <1>2 DEF Quiet, TypeInv
<1>4. Kept
  BY <1>1, <1>2, <1>3, LookKeeps
<1>5. QED
  BY <1>2, <1>3, <1>4 DEF TaskInv

(***************************************************************************)
(* The copy of a message is the write; storing w and the flag, which come  *)
(* later, change nothing that was not to come.                             *)
(***************************************************************************)
LEMMA CopyWrites ==
  ASSUME IInv, TypeInv', WriteCopy
  PROVE  Wrote(src) /\ TaskInv'
<1> USE DEF WriteBegun, WriteStored, ReadTaken, At, Goto
<1>1. TypeInv
  BY DEF IInv
<1>2. pc = "w_copy" /\ Waiting < MAX_BLOCK_SIZE /\ pc' = "w_load"
  BY DEF WriteCopy, IInv, TaskInv
<1>3. WritePos = w /\ ReadPos = r /\ Flag = overflow /\ tx_block = NULL
  BY <1>1, <1>2, QuietRing DEF Quiet
<1>4. /\ UNCHANGED <<w, r, overflow, gState, wire, tx_block, failed_assert>>
      /\ pool' = [pool EXCEPT ![w] = [buffer |-> src, state |-> 0]] /\ prev_w_block' = w
      /\ accepted' = Append(accepted, src)
  BY DEF WriteCopy
<1>5. WritePos' = Buf!Wrap(w) /\ ReadPos' = r /\ Flag' = (overflow \/ Buf!Wrap(w) = 0)
  BY <1>2, <1>4 DEF WritePos, ReadPos, Flag
<1>6. Taken' = Taken
  BY <1>4 DEF Taken
<1>7. Wrote(src)
  BY <1>2, <1>3, <1>4, <1>5, <1>6 DEF Wrote
<1>8. QED
  BY <1>2, <1>3, <1>4, <1>7 DEF TaskInv

LEMMA StoreKeeps ==
  ASSUME IInv, TypeInv', WriteStore \/ WriteFlag
  PROVE  Kept /\ TaskInv'
<1> USE DEF WriteBegun, WriteStored, ReadTaken, At, Goto
<1>1. TypeInv
  BY DEF IInv
<1>2. /\ UNCHANGED <<pool, prev_w_block, r, gState, wire, tx_block, accepted, failed_assert>>
      /\ pc \in {"w_store", "w_flag"} /\ tx_block = NULL
  BY <1>1 DEF WriteStore, WriteFlag, TypeInv
<1>3. CASE WriteStore
  <2>1. /\ pc = "w_store" /\ pc' = "w_flag" /\ w' = Buf!Wrap(w) /\ overflow' = overflow
    BY <1>3 DEF WriteStore, IInv, TaskInv
  <2>2. UNCHANGED <<WritePos, ReadPos, Flag, Taken>>
    BY <1>2, <2>1 DEF WritePos, ReadPos, Flag, Taken
  <2>3. QED
    BY <1>2, <2>1, <2>2 DEF Kept, TaskInv
<1>4. CASE WriteFlag
  <2>1. /\ pc = "w_flag" /\ pc' \in {"parse", "r_overflow"}
        /\ w' = w /\ overflow' = (overflow \/ w = 0)
    BY <1>1, <1>4 DEF WriteFlag, TypeInv
  <2>2. UNCHANGED <<WritePos, ReadPos, Flag, Taken>>
    BY <1>2, <2>1 DEF WritePos, ReadPos, Flag, Taken
  <2>3. QED
    BY <1>2, <2>1, <2>2 DEF Kept, TaskInv
<1>5. QED
  BY <1>3, <1>4

(***************************************************************************)
(* The load of r is the read, of the message accepted first of those that  *)
(* wait.                                                                   *)
(***************************************************************************)
LEMMA LoadTakes ==
  ASSUME IInv, TypeInv', ReadLoad
  PROVE  Took /\ TaskInv'
<1> USE DEF WriteBegun, WriteStored, ReadTaken, At
<1>1. TypeInv /\ RingInv
  BY DEF IInv
<1>2. pc = "r_load" /\ Waiting > 0 /\ pc' = "r_store"
  BY DEF ReadLoad, IInv, TaskInv
<1>3. WritePos = w /\ ReadPos = r /\ Flag = overflow /\ tx_block = NULL
  BY <1>1, <1>2, QuietRing DEF Quiet
<1>4. /\ UNCHANGED <<pool, prev_w_block, w, r, overflow, gState, wire, accepted, failed_assert>>
      /\ tx_block' = r /\ reg' = r
  BY DEF ReadLoad, ring
<1>5. r \in Slots /\ Len(wire) \in Nat
  BY <1>1, RingTypes
<1>6. WritePos' = w /\ ReadPos' = Buf!Wrap(r) /\ Flag' = (overflow /\ Buf!Wrap(r) # 0)
  BY <1>2, <1>4 DEF WritePos, ReadPos, Flag
<1>7. Taken' = Taken + 1
  <2> DEFINE sending == IF gState = READY THEN 0 ELSE 1
  <2>1. sending \in Nat
    OBVIOUS
  <2>2. Taken = Len(wire) + sending + 0
    BY <1>3 DEF Taken
  <2>3. Taken' = Len(wire) + sending + 1
    BY <1>4, <1>5, NullValue DEF Taken
  <2> HIDE DEF sending
  <2>4. QED
    BY <1>5, <2>1, <2>2, <2>3
<1>8. Took
  BY <1>2, <1>3, <1>4, <1>6, <1>7 DEF Took
<1>9. pool[r].buffer = accepted[Taken']
  <2>1. failed_assert' = 0
    BY <1>1, <1>4 DEF RingInv
  <2>2. QED
    BY <1>1, <1>3, <1>8, <2>1, ReadRing DEF Took
<1>10. QED
  BY <1>2, <1>4, <1>6, <1>8, <1>9 DEF TaskInv

LEMMA FreeKeeps ==
  ASSUME IInv, TypeInv', ReadStore \/ ReadClear
  PROVE  Kept /\ TaskInv'
<1> USE DEF WriteBegun, WriteStored, ReadTaken, At, Goto
<1>1. TypeInv
  BY DEF IInv
<1>2. /\ UNCHANGED <<pool, prev_w_block, w, gState, wire, tx_block, accepted, failed_assert>>
      /\ pc \in {"r_store", "r_clear"}
  BY <1>1 DEF ReadStore, ReadClear
<1>3. CASE ReadStore
  <2>1. /\ pc = "r_store" /\ r' = Buf!Wrap(r) /\ overflow' = overflow
        /\ pc' = IF r' = 0 THEN "r_clear" ELSE "device_write"
    BY <1>3 DEF ReadStore, IInv, TaskInv
  <2>2. UNCHANGED <<WritePos, ReadPos, Flag, Taken>>
    <3>1. UNCHANGED <<WritePos, ReadPos, Taken>> /\ ReadPos = Buf!Wrap(r)
      BY <1>2, <2>1 DEF WritePos, ReadPos, Taken
    <3>2. Flag = (overflow /\ r' # 0) /\ overflow \in BOOLEAN
      BY <1>1, <2>1, <3>1, RingTypes DEF Flag
    <3>3. CASE r' = 0
      BY <2>1, <3>1, <3>2, <3>3 DEF Flag
    <3>4. CASE r' # 0
      BY <2>1, <3>1, <3>2, <3>4 DEF Flag
    <3>5. QED
      BY <3>1, <3>3, <3>4
  <2>3. QED
    BY <1>2, <2>1, <2>2 DEF Kept, TaskInv, IInv
<1>4. CASE ReadClear
  <2>1. /\ pc = "r_clear" /\ pc' = "device_write" /\ r' = r /\ r = 0 /\ overflow' = FALSE
    BY <1>4 DEF ReadClear, IInv, TaskInv
  <2>2. UNCHANGED <<WritePos, ReadPos, Flag, Taken>>
    BY <1>2, <2>1 DEF WritePos, ReadPos, Flag, Taken
  <2>3. QED
    BY <1>2, <2>1, <2>2 DEF Kept, TaskInv, IInv
<1>5. QED
  BY <1>3, <1>4

(***************************************************************************)
(* The block that was taken becomes the one that is sent, and the one that *)
(* is sent the last on the wire.                                           *)
(***************************************************************************)
LEMMA SendKeeps ==
  ASSUME IInv, TypeInv', device_write
  PROVE  Kept /\ TaskInv' /\ WireInv'
<1> USE DEF WriteBegun, WriteStored, ReadTaken, At
<1>1. TypeInv /\ RingInv /\ Len(wire) \in Nat
  BY RingTypes DEF IInv
<1>2. /\ UNCHANGED <<pool, prev_w_block, w, r, overflow, wire, accepted, failed_assert>>
      /\ pc = "device_write" /\ pc' = "parse" /\ gState = READY /\ tx_block' = NULL
      /\ gState' = [block |-> tx_block, first |-> pool[tx_block].buffer]
  BY DEF device_write, ring
<1>3. tx_block # NULL /\ gState' # READY
  BY <1>1, <1>2 DEF TypeInv, READY
<1>4. UNCHANGED <<WritePos, ReadPos, Flag>>
  BY <1>2 DEF WritePos, ReadPos, Flag
<1>5. Taken = Len(wire) + 1 /\ Taken' = Len(wire) + 1
  BY <1>1, <1>2, <1>3 DEF Taken
<1>6. Kept /\ TaskInv'
  BY <1>2, <1>4, <1>5 DEF Kept, TaskInv
<1>7. pool[tx_block].buffer = accepted[Taken]
  BY <1>3 DEF IInv, TaskInv
<1>8. WireInv'
  BY <1>2, <1>5, <1>7 DEF IInv, WireInv, TransmittedInOrder
<1>9. QED
  BY <1>6, <1>8

LEMMA SentKeeps ==
  ASSUME IInv, TypeInv', TransmitComplete
  PROVE  Kept /\ TaskInv' /\ WireInv'
<1> DEFINE sent == [first |-> gState.first, last |-> pool[gState.block].buffer]
           taking == IF tx_block = NULL THEN 0 ELSE 1
<1>1. TypeInv /\ RingInv /\ Len(wire) \in Nat
  BY RingTypes DEF IInv
<1>2. /\ UNCHANGED <<ring, task, accepted, failed_assert>>
      /\ gState # READY /\ gState' = READY /\ wire' = Append(wire, sent)
  BY DEF TransmitComplete
<1>3. UNCHANGED <<WritePos, ReadPos, Flag>>
  BY <1>2 DEF WritePos, ReadPos, Flag, ring, task
<1>4. wire \in Seq([first : Messages, last : Messages]) /\ sent.first = gState.first
  BY <1>1 DEF TypeInv, TypeOK
<1>5. /\ Len(wire') = Len(wire) + 1
      /\ wire'[Len(wire) + 1].first = gState.first
      /\ \A i \in 1 .. Len(wire) : wire'[i] = wire[i]
  <2>1. sent \in [first : Messages, last : Messages]
    <3>1. wire' \in Seq([first : Messages, last : Messages])
      BY DEF TypeInv, TypeOK
    <3>2. Len(wire') = Len(wire) + 1 /\ wire'[Len(wire')] \in [first : Messages, last : Messages]
      BY <1>2, <1>4, <3>1
    <3>3. QED
      BY <1>2, <1>4, <3>2
  <2> HIDE DEF sent
  <2>2. Len(wire') = Len(wire) + 1 /\ wire'[Len(wire) + 1] = sent
        /\ \A i \in 1 .. Len(wire) : wire'[i] = wire[i]
    BY <1>2, <1>4, <2>1, AppendProperties
  <2>3. QED
    BY <1>4, <2>2
<1>6. Taken = Len(wire) + 1 + taking /\ Taken' = Len(wire) + 1 + taking
  <2>1. Taken = Len(wire) + 1 + taking
    BY <1>2 DEF Taken
  <2>2. taking \in Nat
    OBVIOUS
  <2>3. Taken' = Len(wire) + 1 + 0 + taking
    BY <1>2, <1>5 DEF Taken, task
  <2> HIDE DEF taking
  <2>4. QED
    BY <1>1, <2>1, <2>2, <2>3
<1>7. Kept
  BY <1>2, <1>3, <1>6 DEF Kept, ring
<1>8. TaskInv'
  <2>1. Waiting' = Waiting
    BY <1>3 DEF Waiting
  <2>2. UNCHANGED <<pc, reg, tx_block, pool, w, r, overflow, ReadPos, accepted, Taken>>
    BY <1>2, <1>3, <1>6 DEF ring, task
  <2>3. TaskInv
    BY DEF IInv
  <2>4. QED
    BY <2>1, <2>2, <2>3 DEF TaskInv
<1>9. Len(wire) + 1 <= Len(accepted)
  <2>1. taking \in Nat
    OBVIOUS
  <2>2. Len(accepted) = Taken + Waiting /\ Waiting \in Nat
    BY <1>1, WaitingValue, TxAssumption DEF RingInv
  <2> HIDE DEF taking
  <2>3. QED
    BY <1>1, <1>6, <2>1, <2>2
<1>10. WireInv'
  BY <1>1, <1>2, <1>5, <1>9 DEF IInv, WireInv, TransmittedInOrder
<1>11. QED
  BY <1>7, <1>8, <1>10

(***************************************************************************)
(* The motor code finds the ring between two operations of the task.       *)
(***************************************************************************)
LEMMA MotorKeepsOrWrites ==
  ASSUME IInv, TypeInv', MotorTakesTurn
  PROVE  (Kept \/ Wrote(written')) /\ TaskInv'
<1> USE DEF WriteBegun, WriteStored, ReadTaken
<1>1. TypeInv /\ RingInv
  BY DEF IInv
<1>2. /\ pc = "event_step" /\ UNCHANGED <<pc, tx_block, gState, wire>>
  BY DEF MotorTakesTurn, MotorWrites, task
<1>3. WritePos = w /\ ReadPos = r /\ Flag = overflow /\ tx_block = NULL
  BY <1>1, <1>2, QuietRing DEF Quiet
<1>4. WritePos' = w' /\ ReadPos' = r' /\ Flag' = overflow'
  BY <1>2 DEF WritePos, ReadPos, Flag
<1>5. Buf!WriterAssert
  BY <1>1, <1>3 DEF RingInv, Buf!WriterAssert
<1>6. TaskInv'
  BY <1>2, <1>3 DEF TaskInv
<1>7. CASE UNCHANGED <<ring, accepted>>
  <2>1. UNCHANGED <<pool, prev_w_block, WritePos, ReadPos, Flag, accepted, failed_assert>>
    BY <1>3, <1>4, <1>5, <1>7 DEF MotorTakesTurn, MotorWrites, ring
  <2>2. Taken' = Taken
    BY <1>2 DEF Taken
  <2>3. QED
    BY <1>6, <2>1, <2>2 DEF Kept
<1>8. CASE Buf!buffer_write_block(written') /\ accepted' = Append(accepted, written')
  <2>1. Waiting < MAX_BLOCK_SIZE
    BY <1>1, <1>3, <1>8, WaitingValue, TxAssumption DEF Buf!buffer_write_block, Buf!NoFreeBlock
  <2>2. /\ pool' = [pool EXCEPT ![w] = [buffer |-> written', state |-> 0]]
        /\ prev_w_block' = w /\ w' = Buf!Wrap(w) /\ overflow' = (overflow \/ w' = 0) /\ r' = r
    BY <1>8 DEF Buf!buffer_write_block, Buf!Take
  <2>3. Taken' = Taken
    BY <1>2 DEF Taken
  <2>4. UNCHANGED failed_assert
    BY <1>5 DEF MotorTakesTurn, MotorWrites
  <2>5. QED
    BY <1>3, <1>4, <1>6, <1>8, <2>1, <2>2, <2>3, <2>4 DEF Wrote
<1>9. QED
  BY <1>5, <1>7, <1>8 DEF MotorTakesTurn, MotorWrites
-------------------------------------------------------------------------------
(***************************************************************************)
(* What was transmitted stays so while messages are only accepted.         *)
(***************************************************************************)
LEMMA SameWire ==
  ASSUME IInv, TypeInv', UNCHANGED <<gState, wire>>,
         \/ UNCHANGED accepted
         \/ \E m : accepted' = Append(accepted, m)
  PROVE  WireInv'
<1>1. /\ Len(wire) \in Nat /\ Len(accepted) \in Nat /\ Taken \in Nat /\ Waiting \in Nat
      /\ accepted \in Seq(Messages) /\ accepted' \in Seq(Messages)
      /\ Len(accepted) = Taken + Waiting
  BY RingTypes, WaitingValue, TxAssumption DEF IInv, RingInv, TypeInv, TypeOK
<1>2. Len(accepted') >= Len(accepted) /\ \A i \in 1 .. Len(accepted) : accepted'[i] = accepted[i]
  BY <1>1
<1>3. gState # READY => Len(wire) + 1 \in 1 .. Len(accepted)
  <2> SUFFICES ASSUME gState # READY PROVE Len(wire) + 1 <= Len(accepted)
    BY <1>1
  <2> DEFINE taking == IF tx_block = NULL THEN 0 ELSE 1
  <2>1. Taken = Len(wire) + 1 + taking /\ taking \in Nat
    BY DEF Taken
  <2> HIDE DEF taking
  <2>2. QED
    BY <1>1, <2>1
<1>4. TransmittedInOrder'
  BY <1>1, <1>2 DEF IInv, WireInv, TransmittedInOrder
<1>5. QED
  BY <1>2, <1>3, <1>4 DEF IInv, WireInv

(***************************************************************************)
(* Every step leaves the ring to come as it is, writes to it or reads from *)
(* it, whole; and keeps the rest of the invariant.                         *)
(***************************************************************************)
LEMMA RingSteps ==
  ASSUME IInv, TypeInv', [TurnsNext]_vars
  PROVE  (Kept \/ Took \/ \E m \in Messages : Wrote(m)) /\ TaskInv' /\ WireInv'
<1>1. src \in Messages /\ written' \in Messages
  BY DEF IInv, TypeInv, TypeOK
<1>2. CASE WriteOverflow \/ WriteAssert \/ WriteCompare \/ WriteLoad
  BY <1>2, WriteLooks, SameWire DEF Kept, WriteOverflow, WriteAssert, WriteCompare, WriteLoad
<1>3. CASE WriteCopy
  BY <1>1, <1>3, CopyWrites, SameWire DEF Wrote, WriteCopy
<1>4. CASE WriteStore \/ WriteFlag
  BY <1>4, StoreKeeps, SameWire DEF Kept, WriteStore, WriteFlag
<1>5. CASE CountDiscover \/ parse
  BY <1>5, TaskPasses, SameWire DEF Kept, CountDiscover, parse
<1>6. CASE ReadOverflow \/ ReadAssert \/ ReadCompare
  BY <1>6, ReadLooks, SameWire DEF Kept, ReadOverflow, ReadAssert, ReadCompare
<1>7. CASE ReadLoad
  BY <1>7, LoadTakes, SameWire DEF Took, ReadLoad
<1>8. CASE ReadStore \/ ReadClear
  BY <1>8, FreeKeeps, SameWire DEF Kept, ReadStore, ReadClear
<1>9. CASE device_write
  BY <1>9, SendKeeps
<1>10. CASE MotorTakesTurn
  <2>1. (Kept \/ Wrote(written')) /\ TaskInv'
    BY <1>10, MotorKeepsOrWrites
  <2>2. WireInv'
    BY <1>10, <2>1, SameWire DEF Kept, Wrote, MotorTakesTurn, MotorWrites
  <2>3. QED
    BY <1>1, <2>1, <2>2
<1>11. CASE TransmitComplete
  BY <1>11, SentKeeps
<1>12. CASE UNCHANGED vars
  <2>1. UNCHANGED <<pool, prev_w_block, w, r, overflow, pc, reg, tx_block, gState, wire,
                    accepted, failed_assert>>
    BY <1>12 DEF vars, ring, task
  <2>2. UNCHANGED <<WritePos, ReadPos, Flag, Taken>>
    BY <2>1 DEF WritePos, ReadPos, Flag, Taken
  <2>3. Waiting' = Waiting
    BY <2>2 DEF Waiting
  <2>4. TaskInv'
    BY <2>1, <2>2, <2>3 DEF IInv, TaskInv
  <2>5. QED
    BY <2>1, <2>2, <2>4, SameWire DEF Kept
<1>13. QED
  BY <1>2, <1>3, <1>4, <1>5, <1>6, <1>7, <1>8, <1>9, <1>10, <1>11, <1>12
     DEF TurnsNext, event_step, WriteBlock, ReadBlock

LEMMA RingKept ==
  ASSUME IInv, TypeInv', Kept \/ Took \/ \E m \in Messages : Wrote(m)
  PROVE  RingInv'
<1>1. TypeInv /\ RingInv /\ failed_assert' = 0
  BY DEF IInv, RingInv, Kept, Took, Wrote
<1>2. CASE Kept
  BY <1>1, <1>2, SameRing DEF Kept
<1>3. CASE Took
  BY <1>1, <1>3, ReadRing DEF Took
<1>4. ASSUME NEW m \in Messages, Wrote(m)
      PROVE  RingInv'
  BY <1>1, <1>4, WrittenRing DEF Wrote
<1>5. QED
  BY <1>2, <1>3, <1>4

LEMMA InitIInv == Init => IInv
<1> SUFFICES ASSUME Init PROVE IInv
  OBVIOUS
<1> USE DEF WriteBegun, WriteStored, ReadTaken
<1>1. TypeInv
  BY InitType
<1>2. /\ pc = "event_step" /\ gState = READY /\ tx_block = NULL /\ wire = <<>> /\ accepted = <<>>
      /\ w = 0 /\ r = 0 /\ overflow = FALSE /\ failed_assert = 0
  BY DEF Init, Buf!Init
<1>3. WritePos = 0 /\ ReadPos = 0 /\ Flag = FALSE
  BY <1>2 DEF WritePos, ReadPos, Flag
<1>4. Len(wire) = 0 /\ Len(accepted) = 0
  BY <1>2
<1>5. Taken = 0 /\ Waiting = 0
  BY <1>2, <1>3, <1>4 DEF Taken, Waiting
<1>6. RingInv
  <2>1. \A s \in Slots : ~(Offset(s) < Waiting)
    BY <1>1, <1>5, OffsetValue, TxAssumption
  <2>2. QED
    BY <1>2, <1>3, <1>4, <1>5, <2>1 DEF RingInv
<1>7. TaskInv /\ WireInv
  BY <1>2, <1>4 DEF TaskInv, WireInv, TransmittedInOrder
<1>8. QED
  BY <1>1, <1>6, <1>7 DEF IInv

\* A motor that takes its turn is one that may preempt, and a light load is one.
LEMMA TurnsStep == [TurnsNext]_vars => [Next]_vars
BY DEF TurnsNext, Next, MotorTakesTurn

LEMMA LightStep == [LightNext]_vars => [TurnsNext]_vars
BY DEF LightNext, TurnsNext, event_step

LEMMA NextIInv == IInv /\ [TurnsNext]_vars => IInv'
<1> SUFFICES ASSUME IInv, [TurnsNext]_vars PROVE IInv'
  OBVIOUS
<1>1. TypeInv'
  BY TypeStep, TurnsStep DEF IInv
<1>2. (Kept \/ Took \/ \E m \in Messages : Wrote(m)) /\ TaskInv' /\ WireInv'
  BY <1>1, RingSteps
<1>3. RingInv'
  BY <1>1, <1>2, RingKept
<1>4. QED
  BY <1>1, <1>2, <1>3 DEF IInv

LEMMA SpecIInv == TurnsSpec => []IInv
<1>1. IInv /\ [TurnsNext]_vars => IInv'
  BY NextIInv
<1>2. QED
  BY <1>1, InitIInv, PTL DEF TurnsSpec

(***************************************************************************)
(* Whoever preempts whom, every field of the ring, the event task and the  *)
(* transfer keeps the values the code gives it.                            *)
(***************************************************************************)
THEOREM SpecTypeOK == Spec => []TypeOK
<1>1. Init => TypeInv
  BY InitType
<1>2. TypeInv /\ [Next]_vars => TypeInv'
  BY TypeStep
<1>3. TypeInv => TypeOK
  BY DEF TypeInv
<1>4. QED
  BY <1>1, <1>2, <1>3, PTL DEF Spec

(***************************************************************************)
(* While the motor code and event_step take turns, the host receives the   *)
(* accepted messages in their order, none left out and none twice, however *)
(* far the writers are ahead of it.                                        *)
(***************************************************************************)
THEOREM SpecTransmittedInOrder == TurnsSpec => []TransmittedInOrder
<1>1. IInv => TransmittedInOrder
  BY DEF IInv, WireInv
<1>2. QED
  BY <1>1, SpecIInv, PTL

(***************************************************************************)
(* The steps of both writers and of the reader implement the operations of *)
(* RingBuffer, which one thread runs whole: the operation takes place when *)
(* a message is copied, or r loaded, and the other steps stutter.          *)
(***************************************************************************)
THEOREM TxPathImplementsRing == TurnsSpec => Ring!Spec
<1>1. Init => Ring!Init
  <2> SUFFICES ASSUME Init PROVE Ring!Init
    OBVIOUS
  <2>1. Buf!Init /\ pc = "event_step"
    BY DEF Init
  <2>2. WritePos = w /\ ReadPos = r /\ Flag = overflow
    BY <2>1 DEF WritePos, ReadPos, Flag, WriteStored
  <2>3. QED
    BY <2>1, <2>2 DEF Buf!Init, Ring!Init, Buf!Slots, Ring!Slots, Buf!NULL, Ring!NULL
<1>2. IInv /\ [TurnsNext]_vars => [Ring!Next]_(Ring!vars)
  <2> SUFFICES ASSUME IInv, [TurnsNext]_vars PROVE [Ring!Next]_(Ring!vars)
    OBVIOUS
  <2>1. TypeInv'
    BY TypeStep, TurnsStep DEF IInv
  <2>2. /\ WritePos \in Slots /\ ReadPos \in Slots /\ MAX_BLOCK_SIZE \in Nat
        /\ Waiting \in 0 .. MAX_BLOCK_SIZE
        /\ Waiting = 0 <=> (~Flag /\ ReadPos = WritePos)
        /\ Waiting = MAX_BLOCK_SIZE <=> (Flag /\ ReadPos = WritePos)
    BY RingTypes, WaitingValue DEF IInv
  <2>3. CASE Kept
    BY <2>3 DEF Kept, Ring!vars
  <2>4. CASE Took
    <3>1. ~Ring!NoBlock
      BY <2>2, <2>4 DEF Took, Ring!NoBlock
    <3>2. QED
      BY <2>4, <3>1 DEF Took, Ring!Next, Ring!buffer_get_read_block, Ring!Wrap, Buf!Wrap
  <2>5. ASSUME NEW m \in Messages, Wrote(m)
        PROVE  Ring!Next
    <3>1. ~Ring!NoFreeBlock
      BY <2>2, <2>5 DEF Wrote, Ring!NoFreeBlock
    <3>2. Ring!buffer_write_block(m)
      BY <2>5, <3>1 DEF Wrote, Ring!buffer_write_block, Ring!Take, Ring!Wrap, Buf!Wrap
    <3>3. QED
      BY <3>2 DEF Ring!Next
  <2>6. QED
    BY <2>1, <2>3, <2>4, <2>5, RingSteps
<1>3. QED
  BY <1>1, <1>2, SpecIInv, PTL DEF TurnsSpec, Ring!Spec
-------------------------------------------------------------------------------
(***************************************************************************)
(* How many blocks wait after a step.                                      *)
(***************************************************************************)
LEMMA WaitingSteps ==
  ASSUME IInv, IInv'
  PROVE  /\ Waiting \in Nat
         /\ Kept => Waiting' = Waiting
         /\ Took => Waiting' = Waiting - 1
         /\ \A m \in Messages : Wrote(m) => Waiting' = Waiting + 1
<1>1. TypeInv /\ TypeInv' /\ RingInv /\ failed_assert' = 0
  BY DEF IInv, RingInv
<1>2. Waiting \in Nat
  BY <1>1, WaitingValue, TxAssumption
<1>3. Kept => Waiting' = Waiting
  BY DEF Kept, Waiting
<1>4. Took => Waiting' = Waiting - 1
  BY <1>1, ReadRing DEF Took
<1>5. ASSUME NEW m \in Messages, Wrote(m)
      PROVE  Waiting' = Waiting + 1
  BY <1>1, <1>5, WrittenRing DEF Wrote
<1>6. QED
  BY <1>2, <1>3, <1>4, <1>5

\* Who writes in his turn, at a light load, finds little waiting.
LEMMA MotorIsLight ==
  ASSUME TypeInv, MotorTakesTurn, LightLoad
  PROVE  Buf!Count < Backlog
<1>1. written \in Nat /\ written' = written + 1
  BY TxAssumption DEF TypeInv, TypeOK, Messages, MotorTakesTurn, MotorWrites
<1>2. QED
  BY <1>1 DEF LightLoad

LEMMA BacklogStep ==
  ASSUME IInv, IInv', BacklogInv, [LightNext]_vars
  PROVE  BacklogInv'
<1> USE DEF WriteBegun, WriteStored, ReadTaken, At, Goto
<1>1. TypeInv /\ TypeInv' /\ Backlog \in Nat /\ Waiting \in Nat
  BY WaitingSteps, TxAssumption DEF IInv
<1>2. src \in Messages /\ written' \in Messages /\ return_to \in {"parse", "r_overflow"}
  BY <1>1 DEF TypeInv, TypeOK
<1>3. CASE WriteOverflow \/ WriteAssert
  <2>1. /\ pc \in WriteBegun /\ pc' \in WriteBegun /\ return_to' = return_to
    BY <1>3 DEF WriteOverflow, WriteAssert, task
  <2>2. Waiting' = Waiting
    BY <1>1, <1>3, WriteLooks, WaitingSteps
  <2>3. QED
    BY <1>1, <2>1, <2>2 DEF BacklogInv
<1>4. CASE WriteCompare
  <2>1. pc = "w_compare" /\ pc' \in {"w_copy", return_to} /\ return_to' = return_to
    BY <1>4 DEF WriteCompare
  <2>2. Waiting' = Waiting
    BY <1>1, <1>4, WriteLooks, WaitingSteps
  <2>3. QED
    BY <1>1, <1>2, <2>1, <2>2 DEF BacklogInv
<1>5. CASE WriteCopy
  <2>1. pc = "w_copy" /\ pc' = "w_load" /\ return_to' = return_to
    BY <1>5 DEF WriteCopy
  <2>2. Waiting' = Waiting + 1
    BY <1>1, <1>2, <1>5, CopyWrites, WaitingSteps
  <2>3. QED
    BY <1>1, <1>2, <2>1, <2>2 DEF BacklogInv
<1>6. CASE WriteLoad \/ WriteStore \/ WriteFlag
  <2>1. /\ pc \in WriteStored /\ pc' \in {"w_store", "w_flag", return_to}
        /\ return_to' = return_to
    BY <1>6 DEF WriteLoad, WriteStore, WriteFlag
  <2>2. Waiting' = Waiting
    BY <1>1, <1>6, WriteLooks, StoreKeeps, WaitingSteps
  <2>3. QED
    BY <1>1, <1>2, <2>1, <2>2 DEF BacklogInv
<1>7. CASE CountDiscover
  <2>1. /\ pc = "event_step"
        /\ \/ pc' = "r_overflow"
           \/ pc' = "w_overflow" /\ return_to' = "r_overflow"
    BY <1>7 DEF CountDiscover, BeginWrite
  <2>2. Waiting' = Waiting
    BY <1>1, <1>7, TaskPasses, WaitingSteps
  <2>3. QED
    BY <1>1, <2>1, <2>2 DEF BacklogInv
<1>8. CASE parse /\ LightLoad
  <2>1. pc = "parse" /\ Waiting = Buf!Count
    <3>1. Quiet /\ pc = "parse"
      BY <1>8 DEF parse, Quiet
    <3>2. WritePos = w /\ ReadPos = r /\ Flag = overflow
      BY <1>1, <3>1, QuietRing
    <3>3. QED
      BY <3>1, <3>2 DEF Waiting, Buf!Count
  <2>2. \/ pc' = "event_step"
        \/ pc' = "w_overflow" /\ return_to' = "parse" /\ Waiting < Backlog
    <3>1. CASE written' = written
      BY <1>1, <1>8, <3>1 DEF parse, BeginWrite, TypeInv, TypeOK, Messages
    <3>2. CASE written' # written
      BY <1>8, <2>1, <3>2 DEF parse, BeginWrite, LightLoad
    <3>3. QED
      BY <3>1, <3>2
  <2>3. Waiting' = Waiting
    BY <1>1, <1>8, TaskPasses, WaitingSteps
  <2>4. QED
    BY <1>1, <2>1, <2>2, <2>3 DEF BacklogInv
<1>9. CASE ReadOverflow \/ ReadAssert \/ ReadCompare
  <2>1. pc \in {"r_overflow", "r_assert", "r_compare"}
        /\ pc' \in {"r_assert", "r_overflow", "r_compare", "r_load", "parse"}
    BY <1>9 DEF ReadOverflow, ReadAssert, ReadCompare, task
  <2>2. Waiting' = Waiting
    BY <1>1, <1>9, ReadLooks, WaitingSteps
  <2>3. pc' = "parse" => Waiting' = 0
    <3>1. SUFFICES ASSUME pc' = "parse" PROVE Waiting = 0
      BY <2>2
    <3>2. pc = "r_compare" /\ r = w
      BY <1>9, <3>1 DEF ReadOverflow, ReadAssert, ReadCompare, task
    <3>3. ~overflow
      BY <3>2 DEF IInv, TaskInv
    <3>4. WritePos = w /\ ReadPos = r /\ Flag = overflow
      BY <1>1, <3>2, QuietRing DEF Quiet
    <3>5. QED
      BY <3>2, <3>3, <3>4, WaitingValue DEF IInv
  <2>4. QED
    BY <1>1, <2>1, <2>2, <2>3 DEF BacklogInv
<1>10. CASE ReadLoad
  <2>1. pc' = "r_store"
    BY <1>10 DEF ReadLoad
  <2>2. Waiting' = Waiting - 1
    BY <1>1, <1>10, LoadTakes, WaitingSteps
  <2>3. QED
    BY <1>1, <2>1, <2>2 DEF BacklogInv
<1>11. CASE ReadStore \/ ReadClear \/ device_write
  <2>1. pc \in ReadTaken /\ pc' \in ReadTaken \union {"parse"}
    BY <1>11 DEF ReadStore, ReadClear, device_write
  <2>2. Waiting' = Waiting
    BY <1>1, <1>11, FreeKeeps, SendKeeps, WaitingSteps
  <2>3. QED
    BY <1>1, <2>1, <2>2 DEF BacklogInv
<1>12. CASE MotorTakesTurn /\ LightLoad
  <2>1. pc = "event_step" /\ pc' = pc /\ Buf!Count < Backlog
    BY <1>1, <1>12, MotorIsLight DEF MotorTakesTurn, MotorWrites, task
  <2>2. Waiting = Buf!Count
    BY <1>1, <2>1, QuietRing DEF Quiet, Waiting, Buf!Count
  <2>3. Waiting' = Waiting \/ Waiting' = Waiting + 1
    BY <1>1, <1>2, <1>12, MotorKeepsOrWrites, WaitingSteps
  <2>4. QED
    BY <1>1, <2>1, <2>2, <2>3 DEF BacklogInv
<1>13. CASE TransmitComplete \/ UNCHANGED vars
  <2>1. pc' = pc /\ return_to' = return_to
    BY <1>13 DEF TransmitComplete, vars, task
  <2>2. Waiting' = Waiting
    <3>1. CASE TransmitComplete
      BY <1>1, <3>1, SentKeeps, WaitingSteps
    <3>2. CASE UNCHANGED vars
      <4>1. UNCHANGED <<w, r, overflow, pc>>
        BY <3>2 DEF vars, ring, task
      <4>2. QED
        BY <4>1 DEF Waiting, WritePos, ReadPos, Flag
    <3>3. QED
      BY <1>13, <3>1, <3>2
  <2>3. QED
    BY <1>1, <2>1, <2>2 DEF BacklogInv
<1>14. QED
  BY <1>3, <1>4, <1>5, <1>6, <1>7, <1>8, <1>9, <1>10, <1>11, <1>12, <1>13
     DEF LightNext, WriteBlock, ReadBlock

(***************************************************************************)
(* A write that leaves two slots free does not reuse the slot just behind  *)
(* the read position.                                                      *)
(***************************************************************************)
LEMMA WriteSparesSent ==
  ASSUME TypeInv, RingInv, Waiting <= MAX_BLOCK_SIZE - 2,
         NEW s \in Slots, Buf!Wrap(s) = ReadPos
  PROVE  s # WritePos
<1>1. /\ WritePos \in Slots /\ ReadPos \in Slots /\ Flag \in BOOLEAN
      /\ MAX_BLOCK_SIZE \in Nat /\ MAX_BLOCK_SIZE >= 2
  BY RingTypes
<1>2. (Flag => WritePos <= ReadPos) /\ (~Flag => ReadPos <= WritePos)
  BY DEF RingInv
<1>3. ReadPos = IF s + 1 = MAX_BLOCK_SIZE THEN 0 ELSE s + 1
  BY WrapValue
<1>4. SUFFICES ASSUME s = WritePos PROVE FALSE
  OBVIOUS
<1>5. CASE WritePos + 1 = MAX_BLOCK_SIZE
  <2>1. ReadPos = 0 /\ ~Flag
    BY <1>1, <1>2, <1>3, <1>4, <1>5 DEF Slots
  <2>2. QED
    BY <1>1, <1>5, <2>1 DEF Waiting, Slots
<1>6. CASE WritePos + 1 # MAX_BLOCK_SIZE
  <2>1. ReadPos = WritePos + 1 /\ Flag
    BY <1>1, <1>2, <1>3, <1>4, <1>6 DEF Slots
  <2>2. QED
    BY <1>1, <2>1 DEF Waiting, Slots
<1>7. QED
  BY <1>5, <1>6

\* The steps that touch neither the transfer nor the block taken for it.
LEMMA SameSent ==
  ASSUME SentInv, Kept, UNCHANGED <<gState, tx_block, wire>>
  PROVE  SentInv'
BY DEF SentInv, Kept, TransmittedWhole

LEMMA WroteSent ==
  ASSUME IInv, SentInv, Waiting <= MAX_BLOCK_SIZE - 2, tx_block = NULL,
         NEW m \in Messages, Wrote(m), UNCHANGED <<gState, tx_block, wire>>
  PROVE  SentInv'
<1>1. TypeInv /\ RingInv /\ WritePos \in Slots /\ pool \in [Slots -> Buf!Block]
  BY RingTypes DEF IInv
<1>2. UNCHANGED ReadPos /\ pool' = [pool EXCEPT ![WritePos] = [buffer |-> m, state |-> 0]]
  BY DEF Wrote
<1>3. ASSUME gState # READY
      PROVE  pool'[gState.block] = pool[gState.block]
  <2>1. gState.block \in Slots /\ Buf!Wrap(gState.block) = ReadPos
    BY <1>1, <1>3 DEF TypeInv, SentInv
  <2>2. gState.block # WritePos
    BY <1>1, <2>1, WriteSparesSent
  <2>3. QED
    BY <1>1, <1>2, <2>1, <2>2
<1>4. QED
  BY <1>2, <1>3 DEF SentInv, TransmittedWhole

LEMMA SentStep ==
  ASSUME SafeBacklog, IInv, IInv', BacklogInv, SentInv, [LightNext]_vars
  PROVE  SentInv'
<1> USE DEF WriteBegun, WriteStored, ReadTaken, At, Goto
<1>1. TypeInv /\ TypeInv' /\ RingInv
  BY DEF IInv
<1>2. src \in Messages /\ written' \in Messages /\ Waiting \in Nat
      /\ MAX_BLOCK_SIZE \in Nat /\ Backlog \in Nat
  BY <1>1, WaitingSteps, TxAssumption DEF TypeInv, TypeOK
<1>3. CASE WriteOverflow \/ WriteAssert \/ WriteCompare \/ WriteLoad
  BY <1>1, <1>3, WriteLooks, SameSent
     DEF WriteOverflow, WriteAssert, WriteCompare, WriteLoad, task
<1>4. CASE WriteCopy
  <2>1. pc = "w_copy" /\ UNCHANGED <<gState, tx_block, wire>>
    BY <1>4 DEF WriteCopy
  <2>2. tx_block = NULL /\ Waiting <= MAX_BLOCK_SIZE - 2
    BY <1>1, <1>2, <2>1 DEF TypeInv, BacklogInv, SafeBacklog
  <2>3. QED
    BY <1>1, <1>2, <1>4, <2>1, <2>2, CopyWrites, WroteSent
<1>5. CASE WriteStore \/ WriteFlag
  BY <1>1, <1>5, StoreKeeps, SameSent DEF WriteStore, WriteFlag
<1>6. CASE CountDiscover \/ parse
  BY <1>1, <1>6, TaskPasses, SameSent DEF CountDiscover, parse
<1>7. CASE ReadOverflow \/ ReadAssert \/ ReadCompare
  BY <1>1, <1>7, ReadLooks, SameSent DEF ReadOverflow, ReadAssert, ReadCompare, task
<1>8. CASE ReadLoad
  <2>1. pc = "r_load" /\ tx_block' = r /\ UNCHANGED <<pool, gState, wire>>
    BY <1>8 DEF ReadLoad, ring
  <2>2. tx_block = NULL /\ ReadPos = r /\ tx_block' # NULL
    BY <1>1, <2>1, QuietRing, RingTypes, NullValue DEF Quiet
  <2>3. QED
    BY <2>1, <2>2 DEF SentInv, TransmittedWhole
<1>9. CASE ReadStore \/ ReadClear
  BY <1>1, <1>9, FreeKeeps, SameSent DEF ReadStore, ReadClear
<1>10. CASE device_write
  <2>1. /\ pc = "device_write" /\ UNCHANGED <<pool, wire>> /\ tx_block' = NULL
        /\ gState' = [block |-> tx_block, first |-> pool[tx_block].buffer]
    BY <1>10 DEF device_write, ring
  <2>2. Buf!Wrap(tx_block) = ReadPos
    BY <1>1, <2>1 DEF TypeInv, IInv, TaskInv
  <2>3. ReadPos' = ReadPos
    BY <1>1, <1>10, SendKeeps DEF Kept
  <2>4. QED
    BY <2>1, <2>2, <2>3 DEF SentInv, TransmittedWhole
<1>11. CASE MotorTakesTurn /\ LightLoad
  <2>1. pc = "event_step" /\ UNCHANGED <<gState, tx_block, wire>> /\ Buf!Count < Backlog
    BY <1>1, <1>11, MotorIsLight DEF MotorTakesTurn, MotorWrites, task
  <2>2. Waiting = Buf!Count /\ tx_block = NULL
    BY <1>1, <2>1, QuietRing DEF Quiet, Waiting, Buf!Count
  <2>3. Waiting <= MAX_BLOCK_SIZE - 2
    BY <1>2, <2>1, <2>2 DEF SafeBacklog
  <2>4. CASE Kept
    BY <2>1, <2>4, SameSent
  <2>5. CASE Wrote(written')
    BY <1>2, <2>1, <2>2, <2>3, <2>5, WroteSent
  <2>6. QED
    BY <1>1, <1>11, <2>4, <2>5, MotorKeepsOrWrites
<1>12. CASE TransmitComplete
  <2> DEFINE sent == [first |-> gState.first, last |-> pool[gState.block].buffer]
  <2>1. gState # READY /\ gState' = READY /\ wire' = Append(wire, sent)
    BY <1>12 DEF TransmitComplete
  <2>2. sent.first = sent.last
    BY <2>1 DEF SentInv
  <2>3. /\ wire \in Seq([first : Messages, last : Messages])
        /\ wire' \in Seq([first : Messages, last : Messages])
    BY <1>1 DEF TypeInv, TypeOK
  <2> HIDE DEF sent
  <2>4. \A i \in 1 .. Len(wire') : wire'[i] = sent \/ (i \in 1 .. Len(wire) /\ wire'[i] = wire[i])
    BY <2>1, <2>3
  <2>5. TransmittedWhole'
    BY <2>2, <2>4 DEF SentInv, TransmittedWhole
  <2>6. QED
    BY <2>1, <2>5 DEF SentInv
<1>13. CASE UNCHANGED vars
  <2>1. UNCHANGED <<pool, prev_w_block, w, r, overflow, pc, tx_block, gState, wire,
                    accepted, failed_assert>>
    BY <1>13 DEF vars, ring, task
  <2>2. Kept
    BY <2>1 DEF Kept, WritePos, ReadPos, Flag, Taken
  <2>3. QED
    BY <2>1, <2>2, SameSent
<1>14. QED
  BY <1>3, <1>4, <1>5, <1>6, <1>7, <1>8, <1>9, <1>10, <1>11, <1>12, <1>13
     DEF LightNext, WriteBlock, ReadBlock

LEMMA DropStep ==
  ASSUME SafeBacklog, IInv, IInv', BacklogInv, NothingDropped, [LightNext]_vars
  PROVE  NothingDropped'
<1> USE DEF WriteBegun, At, Goto, NothingDropped
<1>1. /\ TypeInv /\ TypeInv' /\ RingInv /\ written \in Nat /\ Len(accepted) \in Nat
      /\ accepted \in Seq(Messages) /\ src \in Messages
      /\ return_to \in {"parse", "r_overflow"}
  BY TxAssumption DEF IInv, TypeInv, TypeOK, Messages
<1>2. pc \in WriteBegun \union {"event_step"} /\ w = r /\ overflow
        => pc = "event_step" /\ ~(Buf!Count < Backlog)
  <2> SUFFICES ASSUME pc \in WriteBegun \union {"event_step"}, w = r, overflow
               PROVE  pc = "event_step" /\ ~(Buf!Count < Backlog)
    OBVIOUS
  <2>1. Quiet
    BY DEF Quiet, WriteStored, ReadTaken
  <2>2. /\ WritePos = w /\ ReadPos = r /\ Flag = overflow
        /\ w \in Int /\ MAX_BLOCK_SIZE \in Nat /\ Backlog \in Nat
    BY <1>1, <2>1, QuietRing, RingTypes, TxAssumption DEF Slots
  <2>3. Waiting = MAX_BLOCK_SIZE /\ Buf!Count = MAX_BLOCK_SIZE
    BY <2>2 DEF Waiting, Buf!Count
  <2>4. QED
    BY <2>2, <2>3 DEF BacklogInv, SafeBacklog
<1>3. CASE WriteCopy
  BY <1>1, <1>3 DEF WriteCopy
<1>4. CASE WriteCompare
  <2>1. overflow /\ pc = "w_compare" /\ UNCHANGED <<written, accepted>>
    BY <1>4 DEF WriteCompare, IInv, TaskInv
  <2>2. pc' = "w_copy"
    BY <1>2, <1>4, <2>1 DEF WriteCompare
  <2>3. QED
    BY <2>1, <2>2
<1>5. CASE WriteOverflow \/ WriteAssert \/ WriteLoad \/ WriteStore \/ WriteFlag
  BY <1>1, <1>5 DEF WriteOverflow, WriteAssert, WriteLoad, WriteStore, WriteFlag, task
<1>6. CASE CountDiscover \/ parse
  BY <1>1, <1>6 DEF CountDiscover, parse, BeginWrite
<1>7. CASE ReadBlock \/ device_write
  BY <1>1, <1>7 DEF ReadBlock, ReadOverflow, ReadAssert, ReadCompare, ReadLoad, ReadStore,
                    ReadClear, device_write, task
<1>8. CASE MotorTakesTurn /\ LightLoad
  <2>1. pc = "event_step" /\ pc' = pc /\ written' = written + 1
    BY <1>8 DEF MotorTakesTurn, MotorWrites, task
  <2>2. ~Buf!NoFreeBlock
    BY <1>1, <1>2, <1>8, <2>1, MotorIsLight DEF Buf!NoFreeBlock
  <2>3. failed_assert' = 0
    BY DEF IInv, RingInv
  <2>4. accepted' = Append(accepted, written')
    BY <1>8, <2>2, <2>3 DEF MotorTakesTurn, MotorWrites
  <2>5. QED
    BY <1>1, <2>1, <2>4
<1>9. CASE TransmitComplete \/ UNCHANGED vars
  BY <1>9 DEF TransmitComplete, vars, task
<1>10. QED
  BY <1>3, <1>4, <1>5, <1>6, <1>7, <1>8, <1>9 DEF LightNext, WriteBlock

(***************************************************************************)
(* What a light load keeps.                                                *)
(***************************************************************************)
LEMMA SpecWholeInv ==
  ASSUME SafeBacklog
  PROVE  LightSpec => []WholeInv
<1>1. Init => WholeInv
  <2> SUFFICES ASSUME Init PROVE WholeInv
    OBVIOUS
  <2>1. IInv
    BY InitIInv
  <2>2. /\ pc = "event_step" /\ gState = READY /\ wire = <<>> /\ w = 0 /\ r = 0
        /\ overflow = FALSE /\ accepted = <<>> /\ written = 0
    BY DEF Init, Buf!Init
  <2>3. Waiting = 0
    BY <2>2 DEF Waiting, WritePos, ReadPos, Flag, WriteStored
  <2>4. BacklogInv
    BY <2>2, <2>3, TxAssumption DEF BacklogInv, WriteBegun, WriteStored, ReadTaken
  <2>5. SentInv
    BY <2>2 DEF SentInv, TransmittedWhole
  <2>6. Len(accepted) = 0 /\ written = 0
        /\ pc \notin {"w_overflow", "w_assert", "w_compare", "w_copy"}
    BY <2>2
  <2>7. NothingDropped
    <3>1. (IF pc \in {"w_overflow", "w_assert", "w_compare", "w_copy"} THEN 1 ELSE 0) = 0
      BY <2>6
    <3>2. 0 = 0 - 0
      OBVIOUS
    <3>3. QED
      BY <2>6, <3>1, <3>2 DEF NothingDropped
  <2>8. QED
    BY <2>1, <2>4, <2>5, <2>7 DEF WholeInv
<1>2. WholeInv /\ [LightNext]_vars => WholeInv'
  BY LightStep, NextIInv, BacklogStep, SentStep, DropStep DEF WholeInv
<1>3. QED
  BY <1>1, <1>2, PTL DEF LightSpec

(***************************************************************************)
(* While they take turns and replies and observations leave two blocks     *)
(* free, no message changes while the transmit DMA sends it, although its  *)
(* slot was given back to the writers before.                              *)
(***************************************************************************)
THEOREM SpecTransmittedWhole ==
  ASSUME SafeBacklog
  PROVE  LightSpec => []TransmittedWhole
<1>1. WholeInv => TransmittedWhole
  BY DEF WholeInv, SentInv
<1>2. QED
  BY <1>1, SpecWholeInv, PTL

(***************************************************************************)
(* Under the same load the success that device_write_buffer reports is     *)
(* true: no message finds the ring full.                                   *)
(***************************************************************************)
THEOREM SpecNothingDropped ==
  ASSUME SafeBacklog
  PROVE  LightSpec => []NothingDropped
<1>1. WholeInv => NothingDropped
  BY DEF WholeInv
<1>2. QED
  BY <1>1, SpecWholeInv, PTL
===============================================================================
