----------------------------- MODULE RxPathProofs -----------------------------
(***************************************************************************)
(* Proofs about RxPath, for every ring size, every number of frames and    *)
(* both kinds of build: while the host has at most MAX_BLOCK_SIZE - 2      *)
(* frames outstanding, the unlocked ring is safe between the receive       *)
(* interrupt and the event task.                                           *)
(***************************************************************************)
EXTENDS RxPath, SequenceTheorems, TLAPS

SafeWindow == Window <= MAX_BLOCK_SIZE - 2

Slots == 0 .. MAX_BLOCK_SIZE - 1

\* Before event_run nothing has happened.
BootInv ==
  pc = "event_run" =>
    /\ Running /\ ~irq /\ sent = 0 /\ handled = <<>>
    /\ w = 0 /\ r = 0 /\ ~overflow /\ prev_w_block = NULL /\ dma = NULL
    /\ op = "seek" /\ rx_block = NULL
    /\ \A s \in Slots : pool[s].state = 0

\* What stays true even after an assert has failed.
Safe == /\ ExactlyOnceInOrder
        /\ NeverParsesNull
        /\ ParsedBlockIsPrivate
        /\ pc # "event_run" => dma # NULL

IndInv == TypeOK /\ BootInv /\ Safe /\ RingInv

LEMMA BufSlots == Buf!Slots = Slots
BY DEF Buf!Slots, Slots

LEMMA NullValue == NULL = -1 /\ NULL \notin Slots
BY RxAssumption DEF NULL, Buf!NULL, Slots

LEMMA WrapValue ==
  ASSUME NEW i \in Slots
  PROVE  /\ Buf!Wrap(i) = IF i + 1 = MAX_BLOCK_SIZE THEN 0 ELSE i + 1
         /\ Buf!Wrap(i) \in Slots
<1> USE RxAssumption DEF Slots
<1>1. CASE i + 1 = MAX_BLOCK_SIZE
  BY <1>1 DEF Buf!Wrap
<1>2. CASE i + 1 < MAX_BLOCK_SIZE
  BY <1>2 DEF Buf!Wrap
<1>3. QED
  BY <1>1, <1>2


\* The parts of the invariant while the receiver runs.
RunInv == WaitingBounds /\ PointersInv /\ BlocksInv /\ TaskInv

Polls == {"overflow", "assert", "compare", "state", "increment"}

\* The initial states and the steps that leave the ring alone need no more
\* than these to keep the unconditional parts of the invariant.
Still == UNCHANGED <<ring, dma, irq, sent, rx_block, header, handled>>

(***************************************************************************)
(* The steps of the task that only look at the ring, between polls.        *)
(***************************************************************************)
LEMMA PollStep ==
  ASSUME IndInv, Running, Still, UNCHANGED failed_assert,
         pc \in Polls, pc' \in Polls, op' \in {"seek", "get"},
         pc' = "state" => op' = "seek",
         pc' = "increment" => op' = "get",
         op' = "get" => Waiting >= 2
  PROVE  IndInv'
<1> USE RxAssumption, BufSlots, NullValue DEF Polls, Still
<1>1. RunInv
  BY DEF IndInv, RingInv, RunInv
<1>2. TypeOK'
  BY DEF IndInv, TypeOK, ring, Buf!Block, Frames
<1>3. BootInv'
  BY DEF BootInv
<1>4. Safe'
  BY DEF IndInv, Safe, ExactlyOnceInOrder, NeverParsesNull, ParsedBlockIsPrivate, Parsing, ring
<1>5. RingInv'
  <2>1. UNCHANGED <<Claimed, Taken, Waiting, ReadPos, Unreduced>> /\ ~Busy /\ ~Busy'
    BY DEF ring, Busy, Claimed, Taken, Waiting, ReadPos, Unreduced
  <2>2. \A s \in Int : Offset(s)' = Offset(s)
    BY <2>1 DEF Offset
  <2>3. WaitingBounds'
    BY <1>1, <2>1 DEF RunInv, WaitingBounds
  <2>4. PointersInv'
    BY <1>1, <2>1, <2>2 DEF RunInv, PointersInv, ring, IndInv, TypeOK, Slots
  <2>5. BlocksInv'
    BY <1>1, <2>1, <2>2 DEF RunInv, BlocksInv, ring, Slots
  <2>6. TaskInv'
    BY <1>1, <2>1 DEF RunInv, TaskInv, ring
  <2>7. QED
    BY <2>3, <2>4, <2>5, <2>6 DEF RingInv
<1>6. QED
  BY <1>2, <1>3, <1>4, <1>5 DEF IndInv

LEMMA ReadOverflowStep ==
  ASSUME IndInv, ReadOverflow
  PROVE  IndInv'
<1>1. op \in {"seek", "get"}
  BY DEF IndInv, TypeOK
<1>2. RunInv
  BY DEF IndInv, RingInv, RunInv, ReadOverflow, At
<1>3. /\ pc = "overflow"
      /\ \/ pc' = "assert"
         \/ pc' = "state" /\ op = "seek"
         \/ pc' = "increment" /\ op = "get"
      /\ UNCHANGED op
  BY <1>1 DEF ReadOverflow, At, Goto, BlockFound
<1>4. op = "get" => Waiting >= 2
  BY <1>2, <1>3 DEF RunInv, TaskInv, Busy
<1>5. QED
  BY <1>1, <1>3, <1>4, PollStep DEF ReadOverflow, At, Goto, Still, Polls

LEMMA CheckAssertStep ==
  ASSUME IndInv, CheckAssert
  PROVE  IndInv'
<1>1. op \in {"seek", "get"}
  BY DEF IndInv, TypeOK
<1>2. RunInv
  BY DEF IndInv, RingInv, RunInv, CheckAssert, At
<1>3. CASE r <= w \/ NDEBUG
  <2>1. op = "get" => Waiting >= 2
    BY <1>2 DEF RunInv, TaskInv, Busy, CheckAssert, At
  <2>2. QED
    BY <1>1, <1>3, <2>1, PollStep DEF CheckAssert, At, Goto, Still, Polls
<1>4. CASE ~(r <= w \/ NDEBUG)
  <2>1. ~Running' /\ UNCHANGED task /\ UNCHANGED <<ring, dma, irq, sent>>
    BY <1>4 DEF CheckAssert, Running
  <2>2. failed_assert' \in {60, 79} /\ pc = "assert"
    BY <1>4 DEF CheckAssert, At
  <2>3. TypeOK'
    BY <2>1, <2>2 DEF IndInv, TypeOK, ring, task, Buf!Block
  <2>4. BootInv'
    BY <2>1, <2>2 DEF BootInv, task
  <2>5. Safe'
    BY <2>1 DEF IndInv, Safe, ExactlyOnceInOrder, NeverParsesNull,
                ParsedBlockIsPrivate, Parsing, ring, task
  <2>6. RingInv'
    BY <2>1 DEF RingInv
  <2>7. QED
    BY <2>3, <2>4, <2>5, <2>6 DEF IndInv
<1>5. QED
  BY <1>3, <1>4

LEMMA WaitingInt ==
  ASSUME IndInv
  PROVE  /\ Len(handled) \in Nat /\ sent \in Nat
         /\ Claimed \in Int /\ Taken \in Nat /\ Waiting \in Int
         /\ w \in Slots /\ r \in Int /\ Slots \subseteq Int
<1>1. Len(handled) \in Nat
  BY LenProperties DEF IndInv, TypeOK
<1>2. sent \in Nat /\ w \in Slots /\ r \in Int
  BY RxAssumption, BufSlots DEF IndInv, TypeOK, Frames
<1>3. QED
  BY <1>1, <1>2, RxAssumption DEF Claimed, Taken, Waiting, Slots

\* The second look never finds the ring empty: w is Waiting slots ahead.
LEMMA NotEmpty ==
  ASSUME IndInv, RunInv, SafeWindow, pc \in Polls
  PROVE  r # w /\ Waiting <= MAX_BLOCK_SIZE - 1
<1> USE RxAssumption, BufSlots
<1>1. Waiting >= 1 /\ sent - Len(handled) <= Window
  BY DEF RunInv, WaitingBounds
<1>2. Waiting <= MAX_BLOCK_SIZE - 1
  BY <1>1 DEF Waiting, Claimed, Taken, Busy, Polls, SafeWindow, IndInv, TypeOK, Frames
<1>3. Offset(w) = Waiting /\ ReadPos = r
  BY DEF RunInv, PointersInv, ReadPos, Polls
<1>4. QED
  BY <1>1, <1>2, <1>3 DEF Offset, IndInv, TypeOK, Slots

LEMMA CompareEmptyStep ==
  ASSUME IndInv, SafeWindow, CompareEmpty
  PROVE  IndInv'
<1>1. op \in {"seek", "get"}
  BY DEF IndInv, TypeOK
<1>2. RunInv
  BY DEF IndInv, RingInv, RunInv, CompareEmpty, At
<1>3. r # w
  BY <1>2, NotEmpty DEF CompareEmpty, At, Polls
<1>4. /\ pc = "compare"
      /\ \/ pc' = "state" /\ op = "seek"
         \/ pc' = "increment" /\ op = "get"
      /\ UNCHANGED <<op, rx_block, header, handled>>
  BY <1>1, <1>3 DEF CompareEmpty, At, Goto, BlockFound
<1>5. op = "get" => Waiting >= 2
  BY <1>2, <1>4 DEF RunInv, TaskInv, Busy
<1>6. QED
  BY <1>1, <1>4, <1>5, PollStep DEF CompareEmpty, At, Still, Polls

\* A complete block is not the one the DMA fills, so there are two.
LEMMA ReadStateStep ==
  ASSUME IndInv, ReadState
  PROVE  IndInv'
<1>1. RunInv
  BY DEF IndInv, RingInv, RunInv, ReadState, At
<1>2. dma \in Slots /\ r \in Slots
  BY <1>1, BufSlots DEF RunInv, TaskInv, IndInv, TypeOK, Safe, ReadState, At
<1>3. Waiting >= 1 /\ Offset(dma) = Waiting - 1 /\ pool[dma].state = 0
  BY <1>1 DEF RunInv, WaitingBounds, PointersInv, BlocksInv
<1>4. Waiting = 1 => dma = r
  BY <1>2, <1>3, RxAssumption DEF Offset, ReadPos, ReadState, At, Slots
<1>5. pool[r].state = 1 => Waiting >= 2
  BY <1>3, <1>4, WaitingInt
<1>6. QED
  BY <1>5, PollStep DEF ReadState, At, Still, Polls
-------------------------------------------------------------------------------
(***************************************************************************)
(* The steps that take a block off the ring and parse it.                  *)
(***************************************************************************)
LEMMA IncrementRStep ==
  ASSUME IndInv, SafeWindow, IncrementR
  PROVE  IndInv'
<1> USE RxAssumption, BufSlots, NullValue
<1>1. RunInv /\ pc = "increment" /\ Running
  BY DEF IndInv, RingInv, RunInv, IncrementR, At
<1>2. r \in Slots /\ dma \in Slots /\ w \in Slots /\ op = "get"
  BY <1>1 DEF RunInv, TaskInv, IndInv, TypeOK, Safe
<1>3. Waiting >= 2 /\ Waiting <= MAX_BLOCK_SIZE - 1
  BY <1>1, NotEmpty DEF RunInv, TaskInv, Busy, Polls
<1>4. /\ rx_block' = r /\ r' = r + 1 /\ pc' = "reduce"
      /\ UNCHANGED <<pool, prev_w_block, w, overflow, dma, irq, sent, op, header,
                     handled, failed_assert>>
  BY DEF IncrementR
<1>5. /\ Taken' = Taken + 1 /\ Waiting' = Waiting - 1 /\ Busy'
      /\ ReadPos = r /\ ReadPos' = Buf!Wrap(r)
      /\ Unreduced = r /\ Unreduced' = r + 1
  BY <1>1, <1>4, WaitingInt
     DEF Taken, Waiting, Claimed, Busy, ReadPos, Unreduced, Buf!Wrap
<1>6. \A s \in Slots : Offset(s)' = IF s = r THEN MAX_BLOCK_SIZE - 1
                                     ELSE Offset(s) - 1
  <2>1. ReadPos' = IF r + 1 = MAX_BLOCK_SIZE THEN 0 ELSE r + 1
    BY <1>2, <1>5, WrapValue
  <2>2. QED
    BY <1>2, <1>5, <2>1 DEF Offset, Slots
<1>7. Offset(w) = Waiting /\ Offset(dma) = Waiting - 1 /\ Offset(r) = 0
  <2>1. Offset(r) = 0
    BY <1>2, <1>5 DEF Offset, Slots
  <2>2. QED
    BY <1>1, <2>1 DEF RunInv, PointersInv
<1>8. w # r /\ dma # r
  BY <1>3, <1>7, WaitingInt
<1>9. pool[r] = [buffer |-> Taken + 1, state |-> 1]
  BY <1>1, <1>2, <1>3, <1>7, WaitingInt DEF RunInv, BlocksInv
<1>10. TypeOK'
  BY <1>2, <1>4, WaitingInt DEF IndInv, TypeOK, Buf!Block, Frames, Slots
<1>11. BootInv'
  BY <1>4 DEF BootInv
<1>12. Safe'
  BY <1>1, <1>2, <1>4, <1>8
     DEF IndInv, Safe, ExactlyOnceInOrder, NeverParsesNull, ParsedBlockIsPrivate, Parsing
<1>13. WaitingBounds'
  BY <1>1, <1>3, <1>4, <1>5, WaitingInt DEF RunInv, WaitingBounds
<1>14. PointersInv'
  <2>1. overflow' <=> Unreduced + Waiting >= MAX_BLOCK_SIZE
    BY <1>1, <1>4 DEF RunInv, PointersInv
  <2>2. Unreduced + Waiting = Unreduced' + Waiting'
    BY <1>2, <1>5, WaitingInt DEF Slots
  <2>3. overflow' <=> (Unreduced + Waiting >= MAX_BLOCK_SIZE)'
    BY <2>1, <2>2
  <2>4. Offset(w)' = Waiting' /\ Offset(dma)' = Waiting' - 1
    BY <1>2, <1>4, <1>5, <1>6, <1>7, <1>8, WaitingInt
  <2>5. QED
    BY <1>1, <1>4, <2>3, <2>4 DEF RunInv, PointersInv
<1>15. BlocksInv'
  <2>1. ASSUME NEW s \in Slots, Offset(s)' < Waiting' - 1
        PROVE  pool'[s] = [buffer |-> Taken' + 1 + Offset(s)', state |-> 1]
    <3>1. s # r
      <4>1. Waiting' <= MAX_BLOCK_SIZE - 2 /\ Waiting' \in Int
        <5>1. Waiting' = Waiting - 1
          BY <1>5
        <5>2. QED
          BY <1>3, <5>1, WaitingInt
      <4>2. Offset(s)' = IF s = r THEN MAX_BLOCK_SIZE - 1 ELSE Offset(s) - 1
        BY <1>6
      <4>3. QED
        BY <2>1, <4>1, <4>2
    <3>2. Offset(s) \in Int /\ Offset(s)' = Offset(s) - 1
      BY <1>2, <1>5, <1>6, <3>1 DEF Offset, Slots
    <3>3. pool[s] = [buffer |-> Taken + 1 + Offset(s), state |-> 1]
      BY <1>1, <1>5, <2>1, <3>2, WaitingInt DEF RunInv, BlocksInv
    <3>4. QED
      BY <1>4, <1>5, <3>2, <3>3, WaitingInt
  <2>2. QED
    BY <1>1, <1>4, <2>1 DEF RunInv, BlocksInv
<1>16. TaskInv'
  BY <1>2, <1>4, <1>5, <1>9 DEF TaskInv
<1>17. QED
  BY <1>10, <1>11, <1>12, <1>13, <1>14, <1>15, <1>16 DEF IndInv, RingInv

LEMMA ReduceRStep ==
  ASSUME IndInv, SafeWindow, ReduceR
  PROVE  IndInv'
<1> USE RxAssumption, BufSlots, NullValue
<1>1. RunInv /\ pc = "reduce" /\ Running
  BY DEF IndInv, RingInv, RunInv, ReduceR, At
<1>2. rx_block \in Slots /\ op = "get" /\ pool[rx_block].buffer = Taken
  BY <1>1 DEF RunInv, TaskInv, Busy
<1>3. /\ r' = Buf!Wrap(rx_block) /\ r' \in Slots
      /\ r' = IF rx_block + 1 = MAX_BLOCK_SIZE THEN 0 ELSE rx_block + 1
      /\ pc' = IF r' = 0 THEN "clear" ELSE "header"
      /\ UNCHANGED <<pool, prev_w_block, w, overflow, dma, irq, sent, op, rx_block,
                     header, handled, failed_assert>>
  BY <1>2, WrapValue DEF ReduceR, Goto
<1>4. /\ Taken' = Taken /\ Waiting' = Waiting /\ Busy' /\ Busy
      /\ ReadPos' = ReadPos /\ Unreduced' = Unreduced
  BY <1>1, <1>2, <1>3 DEF Taken, Waiting, Claimed, Busy, ReadPos, Unreduced, Slots
<1>5. \A s \in Int : Offset(s)' = Offset(s)
  BY <1>4 DEF Offset
<1>6. TypeOK'
  BY <1>3 DEF IndInv, TypeOK, Buf!Block, Frames, Slots
<1>7. BootInv'
  BY <1>3 DEF BootInv
<1>8. Safe'
  BY <1>1, <1>2, <1>3
     DEF IndInv, Safe, ExactlyOnceInOrder, NeverParsesNull, ParsedBlockIsPrivate, Parsing
<1>9. WaitingBounds' /\ PointersInv' /\ BlocksInv'
  <2>1. WaitingBounds'
    BY <1>1, <1>3, <1>4 DEF RunInv, WaitingBounds
  <2>2. PointersInv'
    <3>1. w \in Int /\ dma \in Int
      BY <1>1, WaitingInt DEF IndInv, TypeOK, Safe, Slots
    <3>2. Offset(w)' = Offset(w) /\ Offset(dma)' = Offset(dma)
      BY <1>3, <1>5, <3>1
    <3>3. overflow' <=> (Unreduced + Waiting >= MAX_BLOCK_SIZE)'
      BY <1>1, <1>3, <1>4 DEF RunInv, PointersInv
    <3>4. QED
      BY <1>1, <1>3, <1>4, <3>2, <3>3 DEF RunInv, PointersInv
  <2>3. BlocksInv'
    BY <1>1, <1>3, <1>4, <1>5 DEF RunInv, BlocksInv, Slots
  <2>4. QED
    BY <2>1, <2>2, <2>3
<1>10. TaskInv'
  BY <1>1, <1>2, <1>3, <1>4 DEF RunInv, TaskInv, ReadPos
<1>11. QED
  BY <1>6, <1>7, <1>8, <1>9, <1>10 DEF IndInv, RingInv

\* A quiet step of the parser: the ring, the frame counts and the block
\* being parsed stay what they were.
LEMMA SameRing ==
  ASSUME IndInv, RunInv, pc # "event_run",
         UNCHANGED <<pool, prev_w_block, w, dma, irq, sent>>,
         UNCHANGED <<Taken, ReadPos>>,
         Len(handled') \in Nat, Len(handled') >= Len(handled),
         overflow' <=> (Unreduced + Waiting >= MAX_BLOCK_SIZE)'
  PROVE  WaitingBounds' /\ PointersInv' /\ BlocksInv'
<1>1. UNCHANGED <<Claimed, Waiting>>
  BY DEF Claimed, Waiting
<1>2. \A s \in Int : Offset(s)' = Offset(s)
  BY DEF Offset
<1>3. WaitingBounds'
  BY <1>1, WaitingInt, RxAssumption DEF RunInv, WaitingBounds
<1>4. w \in Int /\ dma \in Int
  BY WaitingInt, BufSlots, NullValue, RxAssumption DEF IndInv, TypeOK, Safe, Slots
<1>5. PointersInv'
  BY <1>1, <1>2, <1>4 DEF RunInv, PointersInv
<1>6. BlocksInv'
  BY <1>1, <1>2, BufSlots, RxAssumption DEF RunInv, BlocksInv, Slots
<1>7. QED
  BY <1>3, <1>5, <1>6

LEMMA ClearOverflowStep ==
  ASSUME IndInv, SafeWindow, ClearOverflow
  PROVE  IndInv'
<1> USE RxAssumption, BufSlots, NullValue
<1>1. RunInv /\ pc = "clear" /\ Running
  BY DEF IndInv, RingInv, RunInv, ClearOverflow, At
<1>2. rx_block \in Slots /\ op = "get" /\ pool[rx_block].buffer = Taken /\ r = 0
  BY <1>1 DEF RunInv, TaskInv, Busy
<1>3. /\ overflow' = FALSE /\ pc' = "header"
      /\ UNCHANGED <<pool, prev_w_block, w, r, dma, irq, sent, op, rx_block,
                     header, handled, failed_assert>>
  BY DEF ClearOverflow, Goto
<1>4. UNCHANGED <<Taken, Waiting, ReadPos>> /\ Unreduced' = 0 /\ Busy /\ Busy'
  BY <1>1, <1>2, <1>3 DEF Taken, Waiting, Claimed, Busy, ReadPos, Unreduced
<1>5. TypeOK'
  BY <1>3 DEF IndInv, TypeOK, Buf!Block, Frames
<1>6. BootInv'
  BY <1>3 DEF BootInv
<1>7. Safe'
  BY <1>1, <1>2, <1>3
     DEF IndInv, Safe, ExactlyOnceInOrder, NeverParsesNull, ParsedBlockIsPrivate, Parsing
<1>8. Waiting < MAX_BLOCK_SIZE
  <2>1. sent - Len(handled) <= Window
    BY <1>1 DEF RunInv, WaitingBounds
  <2>2. Waiting <= sent - Len(handled)
    BY <1>4, WaitingInt DEF Waiting, Claimed, Taken
  <2>3. QED
    BY <2>1, <2>2, WaitingInt DEF SafeWindow
<1>9. overflow' <=> (Unreduced + Waiting >= MAX_BLOCK_SIZE)'
  BY <1>3, <1>4, <1>8, WaitingInt
<1>10. WaitingBounds' /\ PointersInv' /\ BlocksInv'
  BY <1>1, <1>3, <1>4, <1>9, SameRing, WaitingInt
<1>11. TaskInv'
  BY <1>1, <1>2, <1>3, <1>4 DEF RunInv, TaskInv, Slots
<1>12. QED
  BY <1>5, <1>6, <1>7, <1>10, <1>11 DEF IndInv, RingInv

LEMMA ParseHeaderStep ==
  ASSUME IndInv, ParseHeader
  PROVE  IndInv'
<1> USE RxAssumption, BufSlots, NullValue
<1>1. RunInv /\ pc = "header" /\ Running
  BY DEF IndInv, RingInv, RunInv, ParseHeader, At
<1>2. /\ rx_block \in Slots /\ op = "get" /\ pool[rx_block].buffer = Taken
      /\ r \in Slots /\ Busy
  BY <1>1 DEF RunInv, TaskInv, Busy
<1>3. Taken # 0
  BY <1>2, WaitingInt DEF Taken
<1>4. /\ header' = Taken /\ pc' = "dispatch"
      /\ UNCHANGED <<ring, dma, irq, sent, op, rx_block, handled, failed_assert>>
  BY <1>2, <1>3 DEF ParseHeader
<1>5. header' \in Frames
  BY <1>2, <1>4 DEF IndInv, TypeOK, Buf!Block
<1>6. UNCHANGED <<Taken, Waiting, ReadPos, Unreduced>> /\ Busy'
  BY <1>1, <1>4 DEF Taken, Waiting, Claimed, Busy, ReadPos, Unreduced, ring
<1>7. TypeOK'
  BY <1>4, <1>5 DEF IndInv, TypeOK, Buf!Block, Frames, ring
<1>8. BootInv'
  BY <1>4 DEF BootInv
<1>9. Safe'
  BY <1>1, <1>2, <1>4
     DEF IndInv, Safe, ExactlyOnceInOrder, NeverParsesNull, ParsedBlockIsPrivate,
         Parsing, ring
<1>10. overflow' <=> (Unreduced + Waiting >= MAX_BLOCK_SIZE)'
  BY <1>1, <1>4, <1>6 DEF RunInv, PointersInv, ring
<1>11. WaitingBounds' /\ PointersInv' /\ BlocksInv'
  BY <1>1, <1>4, <1>6, <1>10, SameRing, WaitingInt DEF ring
<1>12. TaskInv'
  BY <1>1, <1>2, <1>4, <1>6 DEF RunInv, TaskInv, Slots, ring
<1>13. QED
  BY <1>7, <1>8, <1>9, <1>11, <1>12 DEF IndInv, RingInv

LEMMA DispatchStep ==
  ASSUME IndInv, Dispatch
  PROVE  IndInv'
<1> USE RxAssumption, BufSlots, NullValue
<1>1. RunInv /\ pc = "dispatch" /\ Running
  BY DEF IndInv, RingInv, RunInv, Dispatch, At
<1>2. /\ rx_block \in Slots /\ op = "get" /\ pool[rx_block].buffer = Taken
      /\ r \in Slots /\ Busy /\ header = Taken
  BY <1>1 DEF RunInv, TaskInv, Busy
<1> DEFINE last == [header |-> Taken, payload |-> Taken]
<1>3. /\ handled' = Append(handled, last) /\ header' = 0 /\ rx_block' = NULL
      /\ pc' = "overflow" /\ op' = "seek"
      /\ UNCHANGED <<ring, dma, irq, sent, failed_assert>>
  BY <1>2 DEF Dispatch, NextEventStep
<1>4. Taken = Len(handled) + 1
  BY <1>2 DEF Taken
<1>5. handled \in Seq([header : Frames, payload : Frames]) /\ Taken \in Frames
  BY <1>2 DEF IndInv, TypeOK, Buf!Block
<1>6. last \in [header : Frames, payload : Frames]
  BY <1>5
<1> HIDE DEF last
<1>7. /\ handled' \in Seq([header : Frames, payload : Frames])
      /\ Len(handled') = Len(handled) + 1
      /\ \A i \in 1 .. Len(handled) : handled'[i] = handled[i]
      /\ handled'[Len(handled) + 1] = last
  BY <1>3, <1>5, <1>6, AppendProperties
<1>8. UNCHANGED <<Taken, Waiting, ReadPos, Unreduced>> /\ ~Busy'
  BY <1>1, <1>3, <1>4, <1>7 DEF Taken, Waiting, Claimed, Busy, ReadPos, Unreduced, ring
<1>9. TypeOK'
  BY <1>3, <1>7 DEF IndInv, TypeOK, Buf!Block, Frames, ring
<1>10. BootInv'
  BY <1>3 DEF BootInv
<1>11. ExactlyOnceInOrder'
  <2>1. ASSUME NEW i \in 1 .. Len(handled')
        PROVE  handled'[i] = [header |-> i, payload |-> i]
    <3>1. CASE i = Len(handled) + 1
      BY <1>4, <1>7, <3>1 DEF last
    <3>2. CASE i # Len(handled) + 1
      <4>1. i \in 1 .. Len(handled)
        BY <1>7, <2>1, <3>2, WaitingInt
      <4>2. QED
        BY <1>7, <4>1 DEF IndInv, Safe, ExactlyOnceInOrder
    <3>3. QED
      BY <3>1, <3>2
  <2>2. QED
    BY <2>1 DEF ExactlyOnceInOrder
<1>12. Safe'
  BY <1>1, <1>3, <1>11
     DEF IndInv, Safe, NeverParsesNull, ParsedBlockIsPrivate, Parsing
<1>13. overflow' <=> (Unreduced + Waiting >= MAX_BLOCK_SIZE)'
  BY <1>1, <1>3, <1>8 DEF RunInv, PointersInv, ring
<1>14. WaitingBounds' /\ PointersInv' /\ BlocksInv'
  BY <1>1, <1>3, <1>7, <1>8, <1>13, SameRing, WaitingInt DEF ring
<1>15. TaskInv'
  BY <1>2, <1>3, <1>8 DEF TaskInv, Slots, ring
<1>16. QED
  BY <1>9, <1>10, <1>12, <1>14, <1>15 DEF IndInv, RingInv
-------------------------------------------------------------------------------
(***************************************************************************)
(* The steps that fill the ring.                                           *)
(***************************************************************************)
LEMMA HostSendsStep ==
  ASSUME IndInv, HostSends
  PROVE  IndInv'
<1> USE RxAssumption, BufSlots, NullValue
<1>1. RunInv /\ pc # "event_run" /\ Running /\ ~irq
  BY DEF IndInv, RingInv, RunInv, HostSends
<1>2. dma \in Slots /\ pool \in [Slots -> Buf!Block]
  BY <1>1 DEF IndInv, TypeOK, Safe
<1>3. /\ sent' = sent + 1 /\ sent' \in Frames /\ sent' - Len(handled) <= Window
      /\ pool' = [pool EXCEPT ![dma].buffer = sent'] /\ irq' = TRUE
      /\ UNCHANGED <<prev_w_block, w, r, overflow, dma, pc, op, rx_block, header,
                     handled, failed_assert>>
  <2>1. sent' = sent + 1 /\ sent < MaxFrames /\ sent - Len(handled) < Window
    BY DEF HostSends
  <2>2. sent' \in Frames /\ sent' - Len(handled) <= Window
    BY <2>1, WaitingInt DEF Frames
  <2>3. /\ pool' = [pool EXCEPT ![dma].buffer = sent'] /\ irq' = TRUE
        /\ UNCHANGED <<prev_w_block, w, r, overflow, dma, pc, op, rx_block, header,
                       handled, failed_assert>>
    <3>1. dma # NULL
      BY <1>2
    <3>2. QED
      BY <3>1 DEF HostSends, task
  <2>4. QED
    BY <2>1, <2>2, <2>3
<1>4. /\ UNCHANGED <<Claimed, Taken, Waiting, ReadPos, Unreduced>>
      /\ UNCHANGED Busy
  BY <1>1, <1>3, WaitingInt DEF Claimed, Taken, Waiting, Busy, ReadPos, Unreduced
<1>5. \A s \in Int : Offset(s)' = Offset(s)
  BY <1>4 DEF Offset
<1>6. Offset(dma) = Waiting - 1
  BY <1>1 DEF RunInv, PointersInv
<1>7. Busy => rx_block # dma
  BY <1>1 DEF IndInv, Safe, ParsedBlockIsPrivate, Parsing, Busy, RunInv, TaskInv
<1>8. TypeOK'
  BY <1>2, <1>3 DEF IndInv, TypeOK, Buf!Block
<1>9. BootInv'
  BY <1>1, <1>3 DEF BootInv
<1>10. Safe'
  BY <1>3 DEF IndInv, Safe, ExactlyOnceInOrder, NeverParsesNull, ParsedBlockIsPrivate, Parsing
<1>11. WaitingBounds'
  BY <1>1, <1>3, <1>4 DEF RunInv, WaitingBounds
<1>12. PointersInv'
  <2>1. w \in Int /\ dma \in Int
    BY <1>2, WaitingInt
  <2>2. Offset(w)' = Offset(w) /\ Offset(dma)' = Offset(dma)
    BY <1>3, <1>5, <2>1
  <2>3. overflow' <=> (Unreduced + Waiting >= MAX_BLOCK_SIZE)'
    BY <1>1, <1>3, <1>4 DEF RunInv, PointersInv
  <2>4. QED
    BY <1>1, <1>3, <1>4, <2>2, <2>3 DEF RunInv, PointersInv
<1>13. BlocksInv'
  <2>1. ASSUME NEW s \in Slots, Offset(s)' < Waiting' - 1
        PROVE  pool'[s] = [buffer |-> Taken' + 1 + Offset(s)', state |-> 1]
    <3>1. Offset(s)' = Offset(s)
      BY <1>5, WaitingInt
    <3>2. s # dma /\ Offset(s) < Waiting - 1
      BY <1>4, <1>6, <2>1, <3>1, WaitingInt
    <3>3. pool'[s] = pool[s]
      BY <1>2, <1>3, <3>2
    <3>4. QED
      BY <1>1, <1>4, <3>1, <3>2, <3>3 DEF RunInv, BlocksInv
  <2>2. pool'[dma'].state = 0 /\ pool'[dma'].buffer = sent'
    BY <1>1, <1>2, <1>3 DEF RunInv, BlocksInv, Buf!Block
  <2>3. QED
    BY <2>1, <2>2 DEF BlocksInv
<1>14. TaskInv'
  <2>1. Busy => rx_block \in Slots /\ pool'[rx_block].buffer = Taken
    BY <1>1, <1>2, <1>3, <1>7 DEF RunInv, TaskInv
  <2>2. QED
    BY <1>1, <1>3, <1>4, <2>1 DEF RunInv, TaskInv
<1>15. QED
  BY <1>8, <1>9, <1>10, <1>11, <1>12, <1>13, <1>14 DEF IndInv, RingInv

LEMMA EventRunStep ==
  ASSUME IndInv, event_run
  PROVE  IndInv'
<1> USE RxAssumption, BufSlots, NullValue
<1>1. /\ pc = "event_run" /\ Running /\ ~irq /\ sent = 0 /\ handled = <<>>
      /\ w = 0 /\ r = 0 /\ ~overflow /\ rx_block = NULL /\ op = "seek"
  BY DEF IndInv, BootInv, event_run
<1>2. 0 \in Slots /\ pool \in [Slots -> Buf!Block] /\ Buf!Wrap(0) = 1 /\ 1 \in Slots
  BY WrapValue DEF IndInv, TypeOK, Slots
<1>3. /\ pool' = [pool EXCEPT ![0] = [pool[0] EXCEPT !.state = 0]]
      /\ prev_w_block' = 0 /\ w' = 1 /\ r' = 0 /\ dma' = 0 /\ pc' = "overflow"
      /\ UNCHANGED <<irq, sent, op, rx_block, header, handled, failed_assert>>
  BY <1>1, <1>2 DEF event_run, Buf!buffer_get_write_block, Buf!Take
<1>4. overflow' <=> FALSE
  <2>1. overflow' <=> (overflow \/ w' = 0)
    BY DEF event_run, Buf!buffer_get_write_block, Buf!Take
  <2>2. w' # 0
    BY <1>3
  <2>3. QED
    BY <1>1, <2>1, <2>2
<1>5. overflow' \in BOOLEAN
  BY DEF event_run, Buf!buffer_get_write_block, Buf!Take
<1>6. pool'[0].state = 0 /\ pool' \in [Slots -> Buf!Block]
  BY <1>2, <1>3 DEF Buf!Block
<1>7. /\ Claimed' = 1 /\ Taken' = 0 /\ Waiting' = 1 /\ ReadPos' = 0
      /\ Unreduced' = 0 /\ ~Busy'
  BY <1>1, <1>3 DEF Claimed, Taken, Waiting, ReadPos, Unreduced, Busy
<1>8. \A s \in Slots : Offset(s)' = s
  BY <1>7 DEF Offset, Slots
<1>9. TypeOK'
  BY <1>2, <1>3, <1>5, <1>6 DEF IndInv, TypeOK, Slots
<1>10. BootInv' /\ Safe'
  BY <1>1, <1>2, <1>3
     DEF IndInv, BootInv, Safe, ExactlyOnceInOrder, NeverParsesNull, ParsedBlockIsPrivate, Parsing
<1>11. WaitingBounds'
  BY <1>1, <1>3, <1>7 DEF WaitingBounds
<1>12. PointersInv'
  <2>1. Offset(w)' = Waiting' /\ Offset(dma)' = Waiting' - 1
    BY <1>2, <1>3, <1>7, <1>8
  <2>2. ~(Unreduced + Waiting >= MAX_BLOCK_SIZE)'
    BY <1>7
  <2>3. QED
    BY <1>3, <1>4, <2>1, <2>2 DEF PointersInv
<1>13. BlocksInv'
  BY <1>1, <1>3, <1>6, <1>7, <1>8 DEF BlocksInv, Slots
<1>14. TaskInv'
  BY <1>1, <1>2, <1>3, <1>7 DEF TaskInv
<1>15. QED
  BY <1>9, <1>10, <1>11, <1>12, <1>13, <1>14 DEF IndInv, RingInv

\* The interrupt finds a free slot: its claim goes past neither the block
\* the task is parsing nor the oldest unread one.
LEMMA RoomToClaim ==
  ASSUME IndInv, RunInv, SafeWindow, pc # "event_run", irq
  PROVE  /\ Claimed = sent /\ Waiting <= MAX_BLOCK_SIZE - 2
         /\ Offset(w) = Waiting
         /\ ReadPos \in Slots
         /\ w # r
         /\ Busy => w # rx_block
<1> USE RxAssumption, BufSlots, NullValue
<1>1. Claimed = sent /\ 1 <= Waiting /\ Waiting <= MAX_BLOCK_SIZE - 2
  BY WaitingInt DEF Claimed, Waiting, Taken, RunInv, WaitingBounds, SafeWindow
<1>2. Offset(w) = Waiting
  BY DEF RunInv, PointersInv
<1>3. ReadPos \in Slots /\ (Busy => rx_block \in Slots /\ ReadPos = Buf!Wrap(rx_block))
  BY WrapValue DEF RunInv, TaskInv, ReadPos, Busy
<1>4. w # ReadPos
  BY <1>1, <1>2, <1>3 DEF Offset, Slots
<1>5. pc # "reduce" => w # r
  BY <1>4 DEF ReadPos
<1>6. pc = "reduce" => w # r
  <2>1. HAVE pc = "reduce"
  <2>2. r = rx_block + 1 /\ rx_block \in Slots /\ ReadPos = Buf!Wrap(rx_block)
    BY <1>3, <2>1 DEF RunInv, TaskInv, Busy
  <2>3. CASE r = MAX_BLOCK_SIZE
    BY <2>3, WaitingInt DEF Slots
  <2>4. CASE r # MAX_BLOCK_SIZE
    BY <1>4, <2>2, <2>4, WrapValue
  <2>5. QED
    BY <2>3, <2>4
<1>7. Busy => w # rx_block
  <2>1. HAVE Busy
  <2>2. rx_block \in Slots /\ ReadPos = IF rx_block + 1 = MAX_BLOCK_SIZE THEN 0
                                                               ELSE rx_block + 1
    BY <1>3, <2>1, WrapValue
  <2>3. w = rx_block => Offset(w) = MAX_BLOCK_SIZE - 1
    BY <2>2 DEF Offset, Slots
  <2>4. QED
    BY <1>1, <1>2, <2>3
<1>8. QED
  BY <1>1, <1>2, <1>3, <1>5, <1>6, <1>7

\* Two slots at the same distance from the read position are one slot.
LEMMA OffsetInjective ==
  ASSUME NEW s \in Slots, NEW t \in Slots, ReadPos \in Slots, Offset(s) = Offset(t)
  PROVE  s = t
BY RxAssumption DEF Offset, Slots

LEMMA ClaimStep ==
  ASSUME IndInv, SafeWindow, RunInv, pc # "event_run", Running, irq, irq' = FALSE,
         Buf!buffer_get_write_block(Completed), dma' = w,
         UNCHANGED <<sent, task, failed_assert>>
  PROVE  IndInv'
<1> USE RxAssumption, BufSlots, NullValue
<1>1. /\ dma \in Slots /\ w \in Slots /\ prev_w_block = dma
      /\ pool \in [Slots -> Buf!Block]
  BY DEF IndInv, TypeOK, Safe, RunInv, PointersInv
<1>2. /\ Claimed = sent /\ Waiting >= 1 /\ Waiting <= MAX_BLOCK_SIZE - 2
      /\ Offset(w) = Waiting /\ ReadPos \in Slots /\ (Busy => w # rx_block)
  BY RoomToClaim DEF RunInv, WaitingBounds
<1>3. /\ Offset(dma) = Waiting - 1 /\ pool[dma].buffer = sent
      /\ (overflow <=> Unreduced + Waiting >= MAX_BLOCK_SIZE)
  BY DEF RunInv, PointersInv, BlocksInv
<1>4. dma # w
  BY <1>2, <1>3, WaitingInt
<1>5. /\ pool' = [Completed EXCEPT ![w] = [Completed[w] EXCEPT !.state = 0]]
      /\ prev_w_block' = w /\ w' = Buf!Wrap(w) /\ dma' = w /\ irq' = FALSE
      /\ UNCHANGED <<r, sent, pc, op, rx_block, header, handled, failed_assert>>
  BY DEF Buf!buffer_get_write_block, Buf!Take, task
<1>6. /\ w' \in Slots
      /\ w' = IF w + 1 = MAX_BLOCK_SIZE THEN 0 ELSE w + 1
  BY <1>1, <1>5, WrapValue
<1>7. /\ pool' \in [Slots -> Buf!Block]
      /\ \A s \in Slots : pool'[s].buffer = pool[s].buffer
      /\ \A s \in Slots \ {w, dma} : pool'[s] = pool[s]
      /\ pool'[dma] = [buffer |-> sent, state |-> 1]
      /\ pool'[w].state = 0
  <2>1. Completed = [pool EXCEPT ![dma] = [buffer |-> sent, state |-> 1]]
    <3>1. [pool[dma] EXCEPT !.state = 1] = [buffer |-> sent, state |-> 1]
      BY <1>1, <1>3 DEF Buf!Block
    <3>2. Completed = [pool EXCEPT ![dma] = [pool[dma] EXCEPT !.state = 1]]
      BY <1>1 DEF Completed
    <3>3. QED
      BY <3>1, <3>2
  <2>2. pool' = [pool EXCEPT ![dma] = [buffer |-> sent, state |-> 1],
                             ![w] = [buffer |-> pool[w].buffer, state |-> 0]]
    <3>1. Completed[w] = pool[w]
      BY <1>1, <1>4, <2>1
    <3>2. [Completed[w] EXCEPT !.state = 0] = [buffer |-> pool[w].buffer, state |-> 0]
      BY <1>1, <3>1 DEF Buf!Block
    <3>3. pool' = [Completed EXCEPT ![w] = [buffer |-> pool[w].buffer, state |-> 0]]
      BY <1>5, <3>2
    <3>4. QED
      BY <2>1, <3>3
  <2>3. [buffer |-> sent, state |-> 1] \in Buf!Block
    BY <1>1, <1>3 DEF Buf!Block
  <2>4. [buffer |-> pool[w].buffer, state |-> 0] \in Buf!Block
    BY <1>1 DEF Buf!Block
  <2>5. QED
    BY <1>1, <1>3, <1>4, <2>2, <2>3, <2>4
<1>8. /\ Claimed' = Claimed + 1 /\ Taken' = Taken /\ Waiting' = Waiting + 1
      /\ ReadPos' = ReadPos /\ Unreduced' = Unreduced /\ Busy' = Busy
  <2>1. UNCHANGED <<r, pc, rx_block, handled, sent>> /\ irq' = FALSE
    BY <1>5
  <2>2. Busy' = Busy /\ ReadPos' = ReadPos /\ Unreduced' = Unreduced
    BY <2>1 DEF Busy, ReadPos, Unreduced
  <2>3. Taken' = Taken
    BY <2>1, <2>2 DEF Taken
  <2>4. Claimed' = Claimed + 1
    BY <1>2, <2>1, WaitingInt DEF Claimed
  <2>5. QED
    BY <2>2, <2>3, <2>4, WaitingInt DEF Waiting
<1>9. \A s \in Int : Offset(s)' = Offset(s)
  BY <1>8 DEF Offset
<1>10. overflow' <=> overflow \/ w' = 0
  BY DEF Buf!buffer_get_write_block, Buf!Take
<1>11. TypeOK'
  <2>1. overflow' \in BOOLEAN
    BY DEF Buf!buffer_get_write_block, Buf!Take
  <2>2. prev_w_block' \in Slots /\ w' \in Slots /\ dma' \in Slots
    BY <1>1, <1>5, <1>6
  <2>3. pool' \in [Slots -> Buf!Block]
    BY <1>7
  <2>4. /\ irq' \in BOOLEAN
        /\ UNCHANGED <<r, sent, pc, op, rx_block, header, handled, failed_assert>>
    BY <1>5
  <2>5. QED
    BY <2>1, <2>2, <2>3, <2>4 DEF IndInv, TypeOK, Buf!Block, Frames
<1>12. BootInv'
  BY <1>5 DEF BootInv
<1>13. Safe'
  BY <1>1, <1>2, <1>5
     DEF IndInv, Safe, ExactlyOnceInOrder, NeverParsesNull, ParsedBlockIsPrivate, Parsing, Busy
<1>14. WaitingBounds'
  BY <1>2, <1>5, <1>8, WaitingInt DEF RunInv, WaitingBounds
<1>15. PointersInv'
  <2>1. Offset(dma)' = Waiting' - 1
    BY <1>1, <1>2, <1>5, <1>8, <1>9, WaitingInt
  <2>2. Offset(w') = Waiting + 1
    BY <1>1, <1>2, <1>6 DEF Offset, Slots
  <2>3. Offset(w)' = Waiting'
    BY <1>1, <1>6, <1>8, <1>9, <2>2, WaitingInt
  <2>4. Unreduced \in Int
    BY WaitingInt DEF Unreduced, RunInv, TaskInv, Busy, Slots
  <2>5. ASSUME overflow
        PROVE  overflow' <=> (Unreduced + Waiting >= MAX_BLOCK_SIZE)'
    <3>1. Unreduced + Waiting >= MAX_BLOCK_SIZE
      BY <1>3, <2>5
    <3>2. Waiting' = Waiting + 1 /\ Unreduced' = Unreduced
      BY <1>8
    <3>3. Unreduced' + Waiting' >= MAX_BLOCK_SIZE
      BY <2>4, <3>1, <3>2, WaitingInt
    <3>4. QED
      BY <1>10, <2>5, <3>3
  <2>6. ASSUME ~overflow
        PROVE  overflow' <=> (Unreduced + Waiting >= MAX_BLOCK_SIZE)'
    <3>1. Unreduced + Waiting < MAX_BLOCK_SIZE
      BY <1>3, <2>4, <2>6, WaitingInt
    <3>2. Unreduced = ReadPos
      <4>1. CASE pc = "reduce"
        <5>1. /\ rx_block \in Slots /\ ReadPos = Buf!Wrap(rx_block)
              /\ Unreduced = rx_block + 1
          BY <4>1 DEF RunInv, TaskInv, Busy, Unreduced
        <5>2. rx_block + 1 < MAX_BLOCK_SIZE
          BY <1>2, <3>1, <5>1, WaitingInt DEF Slots
        <5>3. QED
          BY <5>1, <5>2, WrapValue
      <4>2. CASE pc = "clear"
        BY <1>2, <3>1, <4>2, WaitingInt DEF Unreduced
      <4>3. CASE pc \notin {"reduce", "clear"}
        BY <4>3 DEF Unreduced, ReadPos
      <4>4. QED
        BY <4>1, <4>2, <4>3
    <3>3. w = Unreduced + Waiting
      BY <1>1, <1>2, <3>1, <3>2 DEF Offset, Slots
    <3>4. w' = 0 <=> Unreduced + Waiting + 1 >= MAX_BLOCK_SIZE
      BY <1>1, <1>2, <1>6, <3>1, <3>2, <3>3 DEF Slots
    <3>5. Waiting' = Waiting + 1 /\ Unreduced' = Unreduced
      BY <1>8
    <3>6. Unreduced' + Waiting' = Unreduced + Waiting + 1
      BY <2>4, <3>5, WaitingInt
    <3>7. Unreduced' + Waiting' >= MAX_BLOCK_SIZE <=> w' = 0
      BY <3>4, <3>6
    <3>8. QED
      BY <1>10, <2>6, <3>7
  <2>7. overflow' <=> (Unreduced + Waiting >= MAX_BLOCK_SIZE)'
    BY <2>5, <2>6
  <2>8. prev_w_block' = dma'
    BY <1>5
  <2>9. QED
    BY <2>1, <2>3, <2>7, <2>8 DEF PointersInv
<1>16. BlocksInv'
  <2>1. ASSUME NEW s \in Slots, Offset(s)' < Waiting' - 1
        PROVE  pool'[s] = [buffer |-> Taken' + 1 + Offset(s)', state |-> 1]
    <3>1. Offset(s)' = Offset(s) /\ Offset(s) < Waiting /\ Offset(s) \in Int
      BY <1>2, <1>8, <1>9, <2>1, WaitingInt DEF Offset, Slots
    <3>2. s # w
      BY <1>2, <3>1, WaitingInt
    <3>3. CASE Offset(s) < Waiting - 1
      <4>1. pool[s] = [buffer |-> Taken + 1 + Offset(s), state |-> 1]
        BY <3>3 DEF RunInv, BlocksInv
      <4>2. s # dma
        BY <1>3, <3>3, WaitingInt
      <4>3. QED
        BY <1>7, <1>8, <3>1, <3>2, <4>1, <4>2
    <3>4. CASE Offset(s) = Waiting - 1
      <4>1. s = dma
        BY <1>1, <1>2, <1>3, <3>4, OffsetInjective
      <4>2. sent = Taken + 1 + Offset(s)
        BY <1>2, <3>4, WaitingInt DEF Waiting
      <4>3. QED
        BY <1>7, <1>8, <3>1, <4>1, <4>2
    <3>5. QED
      BY <3>1, <3>3, <3>4, WaitingInt
  <2>2. QED
    BY <1>5, <1>7, <2>1 DEF BlocksInv
<1>17. TaskInv'
  <2>1. Busy => rx_block \in Slots /\ pool'[rx_block].buffer = Taken
    BY <1>7 DEF RunInv, TaskInv
  <2>2. op' = "get" /\ ~Busy' => Waiting' >= 2
    BY <1>2, <1>8, WaitingInt
  <2>3. QED
    BY <1>5, <1>8, <2>1, <2>2 DEF RunInv, TaskInv
<1>18. QED
  BY <1>11, <1>12, <1>13, <1>14, <1>15, <1>16, <1>17 DEF IndInv, RingInv

LEMMA CallbackStep ==
  ASSUME IndInv, SafeWindow, HAL_UARTEx_RxEventCallback
  PROVE  IndInv'
<1> USE RxAssumption, BufSlots, NullValue
<1>1. pc # "event_run" /\ Running /\ irq /\ irq' = FALSE /\ UNCHANGED <<sent, task>>
  BY DEF IndInv, BootInv, HAL_UARTEx_RxEventCallback
<1>2. RunInv
  BY <1>1 DEF IndInv, RingInv, RunInv
<1>3. CASE ~Buf!WriterAssert /\ ~NDEBUG
  <2>1. /\ pool' = Completed /\ failed_assert' = 38
        /\ UNCHANGED <<prev_w_block, w, r, overflow, dma>>
    BY <1>3 DEF HAL_UARTEx_RxEventCallback
  <2>2. prev_w_block \in Slots
    BY <1>1, <1>2 DEF IndInv, TypeOK, Safe, RunInv, PointersInv
  <2>3. pool' \in [Slots -> Buf!Block]
    BY <2>1, <2>2 DEF IndInv, TypeOK, Completed, Buf!Block
  <2>4. TypeOK'
    <3>1. /\ irq' \in BOOLEAN /\ failed_assert' \in {0, 38, 60, 79}
          /\ UNCHANGED <<prev_w_block, w, r, overflow, dma, sent, pc, op, rx_block,
                         header, handled>>
      BY <1>1, <2>1 DEF task
    <3>2. QED
      BY <2>3, <3>1 DEF IndInv, TypeOK, Buf!Block, Frames
  <2>5. BootInv'
    BY <1>1, <2>1 DEF BootInv, task
  <2>6. Safe'
    BY <1>1, <2>1
       DEF IndInv, Safe, ExactlyOnceInOrder, NeverParsesNull, ParsedBlockIsPrivate, Parsing, task
  <2>7. RingInv'
    BY <2>1 DEF RingInv, Running
  <2>8. QED
    BY <2>4, <2>5, <2>6, <2>7 DEF IndInv
<1>4. CASE ~(~Buf!WriterAssert /\ ~NDEBUG)
  <2>1. ~Buf!NoFreeBlock
    BY <1>1, <1>2, RoomToClaim DEF Buf!NoFreeBlock
  <2>2. /\ Buf!buffer_get_write_block(Completed) /\ dma' = w
        /\ UNCHANGED failed_assert
    BY <1>4, <2>1 DEF HAL_UARTEx_RxEventCallback
  <2>3. QED
    BY <1>1, <1>2, <2>2, ClaimStep
<1>5. QED
  BY <1>3, <1>4
-------------------------------------------------------------------------------
LEMMA InitIndInv == Init => IndInv
<1> USE RxAssumption, BufSlots, NullValue
<1> SUFFICES ASSUME Init PROVE IndInv
  OBVIOUS
<1>1. /\ pool = [s \in Slots |-> [buffer |-> 0, state |-> 0]]
      /\ prev_w_block = NULL /\ w = 0 /\ r = 0 /\ overflow = FALSE
      /\ dma = NULL /\ irq = FALSE /\ sent = 0 /\ pc = "event_run" /\ op = "seek"
      /\ rx_block = NULL /\ header = 0 /\ handled = <<>> /\ failed_assert = 0
  BY DEF Init, Buf!Init, NULL
<1>2. handled \in Seq([header : Frames, payload : Frames]) /\ Len(handled) = 0
  BY <1>1, EmptySeq
<1>3. [buffer |-> 0, state |-> 0] \in Buf!Block
  BY DEF Buf!Block, Frames
<1>4. TypeOK
  BY <1>1, <1>2, <1>3 DEF TypeOK, Frames, Slots
<1>5. BootInv
  BY <1>1 DEF BootInv, Running
<1>6. Safe
  BY <1>1, <1>2 DEF Safe, ExactlyOnceInOrder, NeverParsesNull, ParsedBlockIsPrivate, Parsing
<1>7. RingInv
  BY <1>1 DEF RingInv
<1>8. QED
  BY <1>4, <1>5, <1>6, <1>7 DEF IndInv

LEMMA NextIndInv ==
  ASSUME IndInv, SafeWindow, [Next]_vars
  PROVE  IndInv'
<1>1. CASE event_run
  BY <1>1, EventRunStep
<1>2. CASE HostSends
  BY <1>2, HostSendsStep
<1>3. CASE HAL_UARTEx_RxEventCallback
  BY <1>3, CallbackStep
<1>4. CASE event_step
  BY <1>4, ReadOverflowStep, CheckAssertStep, CompareEmptyStep, ReadStateStep,
     IncrementRStep, ReduceRStep, ClearOverflowStep, ParseHeaderStep, DispatchStep
     DEF event_step
<1>5. CASE UNCHANGED vars
  <2>1. TypeOK'
    BY <1>5 DEF IndInv, TypeOK, vars, ring, task, Buf!Block, Frames
  <2>2. BootInv'
    BY <1>5 DEF IndInv, BootInv, Running, vars, ring, task
  <2>3. Safe'
    BY <1>5 DEF IndInv, Safe, ExactlyOnceInOrder, NeverParsesNull,
                ParsedBlockIsPrivate, Parsing, vars, ring, task
  <2>4. RingInv'
    BY <1>5 DEF IndInv, RingInv, WaitingBounds, PointersInv, BlocksInv, TaskInv,
                Waiting, Claimed, Taken, Busy, ReadPos, Offset, Unreduced, Running,
                vars, ring, task
  <2>5. QED
    BY <2>1, <2>2, <2>3, <2>4 DEF IndInv
<1>6. QED
  BY <1>1, <1>2, <1>3, <1>4, <1>5 DEF Next

LEMMA SpecIndInv ==
  ASSUME SafeWindow
  PROVE  Spec => []IndInv
BY InitIndInv, NextIndInv, PTL DEF Spec

(***************************************************************************)
(* Every variable keeps its type: the pointers stay inside the pool, and r *)
(* leaves it only between the two stores of its increment.                 *)
(***************************************************************************)
THEOREM SpecTypeOK == SafeWindow => (Spec => []TypeOK)
<1> SUFFICES ASSUME SafeWindow PROVE Spec => []TypeOK
  OBVIOUS
<1>1. IndInv => TypeOK
  BY DEF IndInv
<1>2. QED
  BY SpecIndInv, <1>1, PTL

(***************************************************************************)
(* With at most MAX_BLOCK_SIZE - 2 frames outstanding the callbacks see    *)
(* every frame once, whole and in the order the host sent them, however    *)
(* the interrupt interleaves with the accesses of the event task.          *)
(***************************************************************************)
THEOREM SpecExactlyOnceInOrder == SafeWindow => (Spec => []ExactlyOnceInOrder)
<1> SUFFICES ASSUME SafeWindow PROVE Spec => []ExactlyOnceInOrder
  OBVIOUS
<1>1. IndInv => ExactlyOnceInOrder
  BY DEF IndInv, Safe
<1>2. QED
  BY SpecIndInv, <1>1, PTL

(***************************************************************************)
(* buffer_get_read_block returns a block whenever buffer_seek_read_block   *)
(* just did, so event_step never parses the null pointer.                  *)
(***************************************************************************)
THEOREM SpecNeverParsesNull == SafeWindow => (Spec => []NeverParsesNull)
<1> SUFFICES ASSUME SafeWindow PROVE Spec => []NeverParsesNull
  OBVIOUS
<1>1. IndInv => NeverParsesNull
  BY DEF IndInv, Safe
<1>2. QED
  BY SpecIndInv, <1>1, PTL

(***************************************************************************)
(* The interrupt never points the DMA at the block the task is parsing.    *)
(***************************************************************************)
THEOREM SpecParsedBlockIsPrivate == SafeWindow => (Spec => []ParsedBlockIsPrivate)
<1> SUFFICES ASSUME SafeWindow PROVE Spec => []ParsedBlockIsPrivate
  OBVIOUS
<1>1. IndInv => ParsedBlockIsPrivate
  BY DEF IndInv, Safe
<1>2. QED
  BY SpecIndInv, <1>1, PTL

(***************************************************************************)
(* The receive DMA is never left switched off after an interrupt.          *)
(***************************************************************************)
THEOREM SpecReceiverStaysArmed == SafeWindow => (Spec => []ReceiverStaysArmed)
<1> SUFFICES ASSUME SafeWindow PROVE Spec => []ReceiverStaysArmed
  OBVIOUS
<1>1. IndInv => ReceiverStaysArmed
  BY DEF IndInv, Safe, ReceiverStaysArmed
<1>2. QED
  BY SpecIndInv, <1>1, PTL

(***************************************************************************)
(* The relation between the pointers, the flag and the frames counted: the *)
(* invariant the others follow from.                                       *)
(***************************************************************************)
THEOREM SpecRingInv == SafeWindow => (Spec => []RingInv)
<1> SUFFICES ASSUME SafeWindow PROVE Spec => []RingInv
  OBVIOUS
<1>1. IndInv => RingInv
  BY DEF IndInv
<1>2. QED
  BY SpecIndInv, <1>1, PTL
===============================================================================
