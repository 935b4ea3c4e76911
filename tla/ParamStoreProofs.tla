---------------------------- MODULE ParamStoreProofs ----------------------------
(***************************************************************************)
(* Proofs about ParamStore, EventTable and Pid, for every number of        *)
(* doublewords, every set of parameters with whatever gains, every size of *)
(* the command table and every application that fills it.                  *)
(***************************************************************************)
EXTENDS ParamStore, SequenceTheorems, TLAPS

Registrations == [code : Codes, callback : Callbacks]

(***************************************************************************)
(* The search of a code has a first hit whenever it has any.  Without it   *)
(* event_find_chain would be known to return nothing in particular.        *)
(***************************************************************************)
HasFirst ==
  \A code \in Codes : FoundAt(code) # {} =>
    \E i \in FoundAt(code) : \A j \in FoundAt(code) : i <= j

TableInv == TableTypeOK /\ HasFirst /\ RunsWhatWasRegistered

(***************************************************************************)
(* The choice of event_find_chain among the hits is the first of them.     *)
(***************************************************************************)
LEMMA FirstHit ==
  ASSUME NEW hits \in SUBSET Nat, NEW i \in hits, \A j \in hits : i <= j
  PROVE  (CHOOSE n \in hits : \A j \in hits : n <= j) = i
<1> DEFINE First(n) == n \in hits /\ \A j \in hits : n <= j
<1>1. \A n : First(n) => n = i
  OBVIOUS
<1>2. First(i)
  OBVIOUS
<1>3. First(CHOOSE n : First(n))
  <2> HIDE DEF First
  <2>1. QED
    BY <1>2
<1>4. (CHOOSE n : First(n)) = i
  <2> HIDE DEF First
  <2>1. QED
    BY <1>1, <1>3
<1>5. QED
  BY <1>4

(***************************************************************************)
(* An empty table, and one that does not change.                           *)
(***************************************************************************)
LEMMA EmptyTable == TableInit => TableInv
<1> SUFFICES ASSUME TableInit PROVE TableInv
  OBVIOUS
<1>1. \A code : FoundAt(code) = {}
  BY DEF TableInit, FoundAt
<1>2. TableTypeOK
  BY TableAssumption DEF TableInit, TableTypeOK
<1>3. HasFirst /\ RunsWhatWasRegistered
  BY <1>1 DEF TableInit, HasFirst, RunsWhatWasRegistered, Dispatched, event_find_chain
<1>4. QED
  BY <1>2, <1>3 DEF TableInv

(***************************************************************************)
(* The same of the table after event_init.                                 *)
(***************************************************************************)
LEMMA NewTable == event_init => TableInv'
<1> SUFFICES ASSUME event_init PROVE TableInv'
  OBVIOUS
<1>1. \A code : FoundAt(code)' = {}
  BY DEF event_init, FoundAt
<1>2. TableTypeOK'
  BY TableAssumption DEF event_init, TableTypeOK
<1>3. HasFirst' /\ RunsWhatWasRegistered'
  BY <1>1 DEF event_init, HasFirst, RunsWhatWasRegistered, Dispatched, event_find_chain
<1>4. QED
  BY <1>2, <1>3 DEF TableInv

(***************************************************************************)
(* A step that leaves the table alone leaves what it promises alone.       *)
(***************************************************************************)
LEMMA SameTable == TableInv /\ UNCHANGED table => TableInv'
<1> SUFFICES ASSUME TableInv, chains' = chains, promised' = promised PROVE TableInv'
  BY DEF table
<1>1. /\ \A code : FoundAt(code)' = FoundAt(code)
      /\ \A code : Dispatched(code)' = Dispatched(code)
  BY DEF FoundAt, Dispatched, event_find_chain
<1>2. QED
  BY <1>1 DEF TableInv, TableTypeOK, HasFirst, RunsWhatWasRegistered

(***************************************************************************)
(* A registration changes only what its own code finds, and that only when *)
(* the code was not in the table.                                          *)
(***************************************************************************)
LEMMA RegisterKeepsTable ==
  ASSUME TableInv, NEW c \in Codes, NEW cbfn \in Callbacks, event_register(c, cbfn)
  PROVE  TableInv'
<1> USE TableAssumption DEF TableInv
<1>1. CASE UNCHANGED table
  BY <1>1, SameTable
<1>2. CASE /\ Len(chains) # MAX_EVENT_CHAIN
           /\ chains' = Append(chains, [code |-> c, callback |-> cbfn])
           /\ promised' = [promised EXCEPT ![c] = IF @ = NoCallback THEN cbfn ELSE @]
  <2> DEFINE n == Len(chains) + 1
  <2> USE <1>2
  <2>1. /\ chains \in Seq(Registrations) /\ Len(chains) \in Nat
        /\ chains' \in Seq(Registrations)
        /\ Len(chains') = n
        /\ chains'[n] = [code |-> c, callback |-> cbfn]
        /\ \A i \in 1 .. Len(chains) : chains'[i] = chains[i]
    BY DEF TableTypeOK, Registrations
  <2>2. TableTypeOK'
    BY <2>1 DEF TableTypeOK, Registrations
  <2>3. ASSUME NEW code \in Codes
        PROVE  FoundAt(code)' = FoundAt(code) \union (IF code = c THEN {n} ELSE {})
    BY <2>1 DEF FoundAt
  <2>4. ASSUME NEW code \in Codes
        PROVE  \A j \in FoundAt(code) : j \in 1 .. Len(chains) /\ j < n
    BY <2>1 DEF FoundAt
  <2>5. ASSUME NEW code \in Codes, NEW i \in FoundAt(code),
               \A j \in FoundAt(code) : i <= j
        PROVE  /\ i \in FoundAt(code)' /\ \A j \in FoundAt(code)' : i <= j
               /\ Dispatched(code)' = promised'[code]
    <3>1. /\ i \in FoundAt(code)' /\ \A j \in FoundAt(code)' : i <= j
      BY <2>1, <2>3, <2>4, <2>5
    <3>2. event_find_chain(code)' = i /\ event_find_chain(code) = i
      <4>1. event_find_chain(code) = i
        <5>1. FoundAt(code) \in SUBSET Nat /\ FoundAt(code) # {}
          BY <2>4, <2>5
        <5>2. QED
          BY <2>5, <5>1, FirstHit DEF event_find_chain
      <4>2. event_find_chain(code)' = i
        <5>1. FoundAt(code)' \in SUBSET Nat /\ FoundAt(code)' # {}
          BY <2>1, <2>3, <2>4, <2>5
        <5>2. QED
          BY <3>1, <5>1, FirstHit DEF event_find_chain
      <4>3. QED
        BY <4>1, <4>2
    <3>3. i \in 1 .. Len(chains) /\ i # -1
      BY <2>1, <2>4, <2>5
    <3>4. Dispatched(code)' = chains[i].callback /\ Dispatched(code) = chains[i].callback
      BY <2>1, <3>2, <3>3 DEF Dispatched
    <3>5. promised[code] = chains[i].callback
      BY <3>4 DEF RunsWhatWasRegistered
    <3>6. chains[i].callback \in Callbacks
      <4>1. chains[i] \in Registrations
        BY <2>1, <3>3
      <4>2. QED
        BY <4>1 DEF Registrations
    <3>7. promised'[code] = promised[code]
      BY <3>5, <3>6 DEF TableTypeOK
    <3>8. QED
      BY <3>1, <3>4, <3>5, <3>7
  <2>6. ASSUME NEW code \in Codes, FoundAt(code) = {}
        PROVE  /\ FoundAt(code)' # {} =>
                    \E i \in FoundAt(code)' : \A j \in FoundAt(code)' : i <= j
               /\ Dispatched(code)' = promised'[code]
    <3>1. promised[code] = NoCallback
      BY <2>6 DEF RunsWhatWasRegistered, Dispatched, event_find_chain
    <3>2. CASE code = c
      <4>1. FoundAt(code)' = {n} /\ n <= n
        BY <2>1, <2>3, <2>6, <3>2
      <4>2. event_find_chain(code)' = n
        <5>1. FoundAt(code)' \in SUBSET Nat /\ FoundAt(code)' # {}
          BY <2>1, <4>1
        <5>2. QED
          BY <4>1, <5>1, FirstHit DEF event_find_chain
      <4>3. Dispatched(code)' = cbfn
        BY <2>1, <4>2, <3>2 DEF Dispatched
      <4>4. promised'[code] = cbfn
        BY <3>1, <3>2 DEF TableTypeOK
      <4>5. QED
        BY <4>1, <4>3, <4>4
    <3>3. CASE code # c
      <4>1. FoundAt(code)' = {}
        BY <2>3, <2>6, <3>3
      <4>2. Dispatched(code)' = NoCallback
        BY <4>1 DEF Dispatched, event_find_chain
      <4>3. promised'[code] = promised[code]
        BY <3>3 DEF TableTypeOK
      <4>4. QED
        BY <3>1, <4>1, <4>2, <4>3
    <3>4. QED
      BY <3>2, <3>3
  <2>7. HasFirst'
    BY <2>5, <2>6 DEF HasFirst
  <2>8. RunsWhatWasRegistered'
    BY <2>5, <2>6 DEF HasFirst, RunsWhatWasRegistered
  <2>9. QED
    BY <2>2, <2>7, <2>8
<1>3. QED
  BY <1>1, <1>2 DEF event_register
-------------------------------------------------------------------------------
GainRecord == [number : BOOLEAN, p : Nat, i : Nat, d : Nat, ramp : Nat, limit : Nat,
               tf : Nat]
PidState == [number : BOOLEAN, integral : Int, output : Int, error : Int]
FilterState == [number : BOOLEAN, y : Int]

Within(self, g) ==
  \A u \in {self.output, self.integral} : -g.limit <= u /\ u <= g.limit

(***************************************************************************)
(* Every doubleword means gains, and those that are not numbers have no    *)
(* time constant.                                                          *)
(***************************************************************************)
LEMMA GainsOfWord ==
  ASSUME NEW word \in Word
  PROVE  /\ GainsOf(word) \in GainRecord
         /\ GainsOf(word).tf > 0 => GainsOf(word).number
<1>1. CASE word \in Sets
  BY <1>1, StoreAssumption DEF GainsOf, GainRecord
<1>2. CASE word \notin Sets
  BY <1>2 DEF GainsOf, GainRecord
<1>3. QED
  BY <1>1, <1>2

(***************************************************************************)
(* _constrain to a limit returns a number within it.                       *)
(***************************************************************************)
LEMMA ConstrainWithin ==
  ASSUME NEW amt \in Int, NEW limit \in Nat
  PROVE  _constrain(amt, -limit, limit) \in -limit .. limit
BY DEF _constrain

(***************************************************************************)
(* The ramp leads from one output within the limits to another.            *)
(***************************************************************************)
LEMMA RampWithin ==
  ASSUME NEW limit \in Nat, NEW output \in -limit .. limit,
         NEW last \in -limit .. limit, NEW step \in Nat
  PROVE  _constrain(output, last - step, last + step) \in -limit .. limit
BY DEF _constrain

(***************************************************************************)
(* pid_calc computes a state of numbers from numbers, within the limit of  *)
(* its gains when the state before was.                                    *)
(***************************************************************************)
LEMMA PidCalc ==
  ASSUME NEW self \in PidState, NEW g \in GainRecord, NEW error \in Int, NEW ms \in Nat
  PROVE  /\ pid_calc(self, g, error, ms) \in PidState
         /\ pid_calc(self, g, error, ms).number <=> self.number /\ g.number
         /\ Within(self, g) => Within(pid_calc(self, g, error, ms), g)
<1> DEFINE next == pid_calc(self, g, error, ms)
<1>1. CASE ~(self.number /\ g.number)
  <2>1. next = NotANumber
    BY <1>1 DEF pid_calc
  <2>2. g.limit \in Nat
    BY DEF GainRecord
  <2>3. QED
    BY <1>1, <2>1, <2>2 DEF NotANumber, PidState, Within
<1>2. CASE self.number /\ g.number
  <2> DEFINE ts == Seconds(ms)
             sum == self.integral + g.i * ts * (error + self.error)
             integral == _constrain(sum, -g.limit, g.limit)
             derivative == (g.d * (error - self.error)) \div ts
             output == _constrain(g.p * error + integral + derivative, -g.limit, g.limit)
             ramped == IF g.ramp > 0
                       THEN _constrain(output, self.output - g.ramp * ts,
                                               self.output + g.ramp * ts)
                       ELSE output
  <2>1. next = [number |-> TRUE, integral |-> integral, error |-> error,
                output |-> ramped]
    BY <1>2 DEF pid_calc
  <2>2. ts \in Nat \ {0}
    BY DEF Seconds
  <2>3. /\ g.i \in Nat /\ g.p \in Nat /\ g.d \in Nat /\ g.limit \in Nat /\ g.ramp \in Nat
        /\ self.integral \in Int /\ self.error \in Int /\ self.output \in Int
    BY DEF GainRecord, PidState
  <2>4. sum \in Int
    <3>1. g.i * ts \in Int /\ error + self.error \in Int
      BY <2>2, <2>3
    <3>2. QED
      BY <2>3, <3>1
  <2>5. integral \in -g.limit .. g.limit
    <3> HIDE DEF sum
    <3>1. QED
      BY <2>3, <2>4, ConstrainWithin
  <2>6. derivative \in Int
    <3>1. g.d * (error - self.error) \in Int
      BY <2>3
    <3>2. QED
      BY <2>2, <3>1
  <2>7. output \in -g.limit .. g.limit
    <3>1. g.p * error \in Int
      BY <2>3
    <3> HIDE DEF integral, derivative
    <3>2. g.p * error + integral + derivative \in Int
      BY <2>3, <2>5, <2>6, <3>1
    <3>3. QED
      BY <2>3, <3>2, ConstrainWithin
  <2>8. g.ramp * ts \in Nat
    BY <2>2, <2>3
  <2>9. ramped \in Int
    <3> HIDE DEF output, ts
    <3>1. QED
      BY <2>3, <2>7, <2>8 DEF _constrain
  <2>10. ASSUME Within(self, g) PROVE ramped \in -g.limit .. g.limit
    <3>1. self.output \in -g.limit .. g.limit
      BY <2>3, <2>10 DEF Within
    <3> HIDE DEF output, ts
    <3>2. QED
      BY <2>3, <2>7, <2>8, <3>1, RampWithin
  <2> HIDE DEF ts, sum, integral, derivative, output, ramped
  <2>11. next \in PidState /\ next.number
    BY <2>1, <2>3, <2>5, <2>9 DEF PidState
  <2>12. Within(self, g) => Within(next, g)
    BY <2>1, <2>3, <2>5, <2>10 DEF Within
  <2>13. QED
    BY <1>2, <2>11, <2>12
<1>3. QED
  BY <1>1, <1>2

(***************************************************************************)
(* lowpass_filter_calc computes a number from one, unless its time         *)
(* constant is zero.                                                       *)
(***************************************************************************)
LEMMA FilterCalc ==
  ASSUME NEW self \in FilterState, NEW g \in GainRecord, NEW x \in Int, NEW ms \in Nat
  PROVE  /\ lowpass_filter_calc(self, g, x, ms) \in FilterState
         /\ self.number /\ g.number /\ g.tf > 0 => lowpass_filter_calc(self, g, x, ms).number
<1>1. g.tf \in Nat /\ self.y \in Int
  BY DEF GainRecord, FilterState
<1>2. CASE ms > 300
  BY <1>2 DEF lowpass_filter_calc, FilterState
<1>3. CASE ms <= 300 /\ (~self.number \/ ~g.number \/ g.tf + ms = 0)
  <2>1. lowpass_filter_calc(self, g, x, ms) = [number |-> FALSE, y |-> 0]
    BY <1>3 DEF lowpass_filter_calc
  <2>2. ~(self.number /\ g.number /\ g.tf > 0)
    BY <1>1, <1>3
  <2>3. QED
    BY <2>1, <2>2 DEF FilterState
<1>4. CASE ~(ms > 300) /\ ~(ms <= 300 /\ (~self.number \/ ~g.number \/ g.tf + ms = 0))
  <2> DEFINE y == (g.tf * self.y + ms * x) \div (g.tf + ms)
  <2>1. lowpass_filter_calc(self, g, x, ms) = [number |-> TRUE, y |-> y]
    BY <1>4 DEF lowpass_filter_calc
  <2>2. g.tf + ms \in Nat \ {0}
    BY <1>1, <1>4
  <2>3. g.tf * self.y \in Int /\ ms * x \in Int
    BY <1>1
  <2>4. y \in Int
    BY <2>2, <2>3
  <2>5. QED
    BY <2>1, <2>4 DEF FilterState
<1>5. QED
  BY <1>2, <1>3, <1>4
-------------------------------------------------------------------------------
(***************************************************************************)
(* The table at every step: Register fills it, a start empties it.         *)
(***************************************************************************)
LEMMA TableStep ==
  ASSUME TypeOK, TableInv, [Next]_vars
  PROVE  TableInv'
<1>1. CASE Register
  <2>1. firmware \in Seq(Registrations) /\ k \in 1 .. Len(firmware)
    <3>1. firmware \in Seq(Registrations)
      BY StoreAssumption DEF TypeOK, Registrations
    <3>2. k \in 1 .. Len(firmware) + 1 /\ k <= Len(firmware) /\ Len(firmware) \in Nat
      BY <1>1, <3>1 DEF Register, TypeOK
    <3>3. QED
      BY <3>1, <3>2
  <2>2. firmware[k] \in Registrations
    BY <2>1
  <2>3. firmware[k].code \in Codes /\ firmware[k].callback \in Callbacks
    BY <2>2 DEF Registrations
  <2>4. QED
    BY <1>1, <2>3, RegisterKeepsTable DEF Register
<1>2. CASE Crash
  BY <1>2, NewTable DEF Crash
<1>3. CASE ~Register /\ ~Crash
  <2>1. UNCHANGED table
    BY <1>3 DEF Next, vars, event_run, Command, SetParams, Unpack, Stop, motor_params_reset,
       motor_set_control_type, RestoreState, motor_init_params_cb, motor_flash_params_cb,
       Erase, Program, motor_step
  <2>2. QED
    BY <2>1, SameTable
<1>4. QED
  BY <1>1, <1>2, <1>3

(***************************************************************************)
(* A step of the motor loop computes states of a PID and a filter.         *)
(***************************************************************************)
LEMMA MotorStep ==
  ASSUME TypeOK, NEW velocity \in Velocities, NEW ms \in Elapsed,
         motor_step(velocity, ms)
  PROVE  /\ pid' \in PidState /\ filter' \in FilterState
         /\ streak' \in -MaxStreak .. MaxStreak
         /\ Within(pid, PidGains) /\ pid.number /\ pid'.number => Within(pid', PidGains)
         /\ FilterGains.tf > 0 /\ filter.number =>
              filter'.number /\ (pid.number /\ PidGains.number => pid'.number)
<1>1. velocity \in Int /\ ms \in Nat /\ MaxStreak \in Nat
  BY StoreAssumption
<1>2. PidGains \in GainRecord /\ FilterGains \in GainRecord
      /\ (FilterGains.tf > 0 => FilterGains.number)
  <2>1. PidWord \in Index /\ FilterWord \in Index
    BY StoreAssumption DEF Index
  <2>2. controllers[PidWord] \in Word /\ controllers[FilterWord] \in Word
    BY <2>1 DEF TypeOK, Image
  <2>3. QED
    BY <2>2, GainsOfWord DEF PidGains, FilterGains
<1>3. /\ filter' \in FilterState
      /\ FilterGains.tf > 0 /\ filter.number => filter'.number
  <2>1. filter \in FilterState
    BY DEF TypeOK, FilterState
  <2>2. filter' = lowpass_filter_calc(filter, FilterGains, velocity, ms)
    BY DEF motor_step, FilterGains
  <2>3. QED
    BY <1>1, <1>2, <2>1, <2>2, FilterCalc
<1>4. -filter'.y \in Int
  BY <1>3 DEF FilterState
<1>5. pid \in PidState
  BY DEF TypeOK, PidState
<1> DEFINE next == pid_calc(pid, PidGains, -filter'.y, ms)
<1>6. /\ next \in PidState
      /\ next.number <=> pid.number /\ PidGains.number
      /\ Within(pid, PidGains) => Within(next, PidGains)
  <2> HIDE DEF next
  <2>1. QED
    BY <1>1, <1>2, <1>4, <1>5, PidCalc DEF next
<1>7. pid' = IF filter'.number THEN next ELSE NotANumber
  BY DEF motor_step, PidGains
<1> HIDE DEF next
<1>8. pid' \in PidState
  BY <1>6, <1>7 DEF NotANumber, PidState
<1>9. pid'.number => pid' = next
  BY <1>7 DEF NotANumber
<1>10. streak' \in -MaxStreak .. MaxStreak
  <2>1. streak' = IF pid'.number THEN Streak(pid'.error) ELSE 0
    BY DEF motor_step
  <2>2. streak \in -MaxStreak .. MaxStreak /\ pid'.error \in Int
    BY <1>8 DEF TypeOK, PidState
  <2>3. Streak(pid'.error) \in -MaxStreak .. MaxStreak
    BY <1>1, <2>2 DEF Streak, _constrain
  <2>4. QED
    BY <1>1, <2>1, <2>3
<1>11. QED
  BY <1>3, <1>6, <1>7, <1>8, <1>9, <1>10

(***************************************************************************)
(* Every step keeps the types.                                             *)
(***************************************************************************)
LEMMA TypeStep ==
  ASSUME TypeOK, TableInv, [Next]_vars
  PROVE  TypeOK'
<1> DEFINE Images == {flash, params, controllers, incoming, reported} \subseteq Image
           Locals == {state, saved_state} \subseteq {0, 1} /\ control_type \in Word
           Controllers == /\ pid \in PidState /\ filter \in FilterState
                          /\ streak \in -MaxStreak .. MaxStreak
           Place == /\ pc \in {"boot", "idle", "unpack", "stop", "reset",
                               "set_control_type", "restore", "erase", "program"}
                    /\ k \in IF pc = "boot" THEN 1 .. Len(firmware) + 1 ELSE Index
           Firmware == firmware \in Firmwares
<1>1. TableTypeOK'
  BY TableStep DEF TableInv
<1>2. Images /\ Locals /\ Controllers /\ Place /\ Firmware
  BY DEF TypeOK, PidState, FilterState
<1>3. /\ Words \in Nat \ {0} /\ 1 \in Index /\ PidWord \in Index /\ FilterWord \in Index
      /\ Len(firmware) \in Nat
  BY <1>2, StoreAssumption DEF Index
<1>4. /\ \A s \in Word : Uniform(s) \in Image
      /\ None \in Image
      /\ \A word : StateOf(word) \in {0, 1}
      /\ Zero \in Word /\ Erased \in Word
  BY DEF Uniform, Image, None, StateOf, Word
<1>5. pid_init \in PidState /\ lowpass_filter_init \in FilterState /\ MaxStreak \in Nat
  BY StoreAssumption DEF pid_init, PidState, lowpass_filter_init, FilterState
<1>6. ASSUME NEW image \in Image, NEW i \in Index, NEW other \in Image
      PROVE  [image EXCEPT ![i] = other[i]] \in Image /\ image[1] \in Word
  BY <1>3 DEF Image
<1>7. ASSUME k \in Index
      PROVE  (IF k < Words THEN k + 1 ELSE 1) \in Index
  BY <1>3, <1>7 DEF Index
<1>8. Images' /\ Locals' /\ Controllers' /\ Place' /\ Firmware'
  <2>1. CASE UNCHANGED vars
    BY <1>2, <2>1 DEF vars, memory, control, locals
  <2>2. CASE Register
    BY <1>2, <1>3, <2>2 DEF Register, memory, control, locals
  <2>3. CASE event_run
    BY <1>2, <1>3, <2>3 DEF event_run, memory, control, locals, Goto
  <2>4. CASE pc = "idle" /\ SetParams
    <3>1. PICK s \in Sets, older \in Sets \union {Zero}, length \in 0 .. Words :
            incoming' = [i \in Index |-> IF i <= length THEN s ELSE older]
      BY <2>4 DEF SetParams
    <3>2. incoming' \in Image
      BY <3>1 DEF Image, Word
    <3>3. QED
      BY <1>2, <1>3, <1>4, <2>4, <3>2 DEF SetParams, control, Goto
  <2>5. CASE pc = "idle" /\ motor_init_params_cb
    BY <1>2, <1>4, <2>5 DEF motor_init_params_cb, locals, control, Goto
  <2>6. CASE pc = "idle" /\ motor_flash_params_cb
    BY <1>2, <2>6 DEF motor_flash_params_cb, locals, memory, control, Goto
  <2>7. CASE Unpack
    <3>1. /\ k \in Index /\ params \in Image /\ incoming \in Image
          /\ params' = [params EXCEPT ![k] = incoming[k]]
          /\ k' = IF k < Words THEN k + 1 ELSE 1
      BY <1>2, <2>7 DEF Unpack
    <3>2. params' \in Image /\ k' \in Index
      BY <1>6, <1>7, <3>1
    <3>3. QED
      BY <1>2, <2>7, <3>2 DEF Unpack, locals, control, Goto
  <2>8. CASE Stop
    BY <1>2, <2>8 DEF Stop, control, Goto
  <2>9. CASE motor_params_reset
    <3>1. /\ k \in Index /\ controllers \in Image /\ params \in Image
          /\ controllers' = [controllers EXCEPT ![k] = params[k]]
          /\ k' = IF k < Words THEN k + 1 ELSE 1
      BY <1>2, <2>9 DEF motor_params_reset
    <3>2. controllers' \in Image /\ k' \in Index
      BY <1>6, <1>7, <3>1
    <3>3. Controllers'
      BY <1>2, <1>5, <2>9 DEF motor_params_reset
    <3>4. QED
      BY <1>2, <2>9, <3>2, <3>3 DEF motor_params_reset, locals, Goto
  <2>10. CASE motor_set_control_type
    BY <1>2, <1>6, <2>10 DEF motor_set_control_type, locals, control, Goto
  <2>11. CASE RestoreState
    BY <1>2, <1>4, <2>11 DEF RestoreState, control, Goto
  <2>12. CASE Erase
    BY <1>2, <1>3, <1>4, <2>12 DEF Erase, memory, locals, control, Goto
  <2>13. CASE Program
    BY <1>2, <1>3, <1>6, <2>13 DEF Program, memory, locals, control, Goto, Index
  <2>14. ASSUME NEW velocity \in Velocities, NEW ms \in Elapsed,
                motor_step(velocity, ms)
         PROVE  Images' /\ Locals' /\ Controllers' /\ Place' /\ Firmware'
    <3>1. Controllers'
      BY <2>14, MotorStep
    <3>2. QED
      BY <1>2, <2>14, <3>1 DEF motor_step, memory, locals
  <2>15. CASE Crash
    <3>1. flash \in Image /\ flash[1] \in Word
      BY <1>2, <1>3 DEF Image
    <3>2. Controllers'
      BY <1>5, <2>15 DEF Crash
    <3>3. Place' /\ Firmware'
      BY <1>2, <1>3, <2>15 DEF Crash, Goto
    <3>4. QED
      BY <1>2, <1>4, <2>15, <3>1, <3>2, <3>3 DEF Crash
  <2>16. QED
    BY <2>1, <2>2, <2>3, <2>4, <2>5, <2>6, <2>7, <2>8, <2>9, <2>10, <2>11, <2>12,
       <2>13, <2>14, <2>15 DEF Next, Command
<1>9. QED
  BY <1>1, <1>8 DEF TypeOK, PidState, FilterState
-------------------------------------------------------------------------------
(***************************************************************************)
(* What a command has done so far.  Between commands the controllers of a  *)
(* working motor have the parameters in RAM; a frame replaces the words    *)
(* below k; once stopped, the words below k of the controllers are new.    *)
(***************************************************************************)
Resetting == {"reset", "set_control_type", "restore"}

MemoryInv ==
  /\ pc \in {"boot", "idle", "erase", "program"} =>
       /\ state = StateOf(params[1])
       /\ state = 1 => controllers = params /\ control_type = params[1]
  /\ pc = "unpack" => /\ state = StateOf(incoming[1])
                      /\ \A i \in 1 .. k - 1 : params[i] = incoming[i]
  /\ pc = "stop" => state = StateOf(params[1]) /\ k = 1
  /\ pc = "reset" => \A i \in 1 .. k - 1 : controllers[i] = params[i]
  /\ pc \in {"set_control_type", "restore"} => controllers = params
  /\ pc \in Resetting => state = 0 /\ saved_state = StateOf(params[1])
  /\ pc = "restore" => control_type = params[1]
  /\ pc \notin {"reset", "set_control_type"} => control_type = controllers[1]

\* The words below k of the page are written; none is reported meanwhile.
FlashInv ==
  /\ pc = "program" => /\ reported = None
                       /\ \A i \in 1 .. k - 1 : flash[i] = params[i]
  /\ ReportedIsInFlash

\* The PID is reset before the filter.
ControlInv ==
  /\ WithinLimit
  /\ ResetRestoresNumbers
  /\ pc = "reset" /\ k > PidWord /\ PidGains.number => pid.number

IInv == TypeOK /\ TableInv /\ MemoryInv /\ FlashInv /\ ControlInv

(***************************************************************************)
(* Two images are one when they agree up to the word written last.         *)
(***************************************************************************)
LEMMA LastWord ==
  ASSUME NEW a \in Image, NEW b \in Image, NEW n \in Index,
         \A i \in 1 .. n - 1 : a[i] = b[i]
  PROVE  /\ \A i \in 1 .. n : [a EXCEPT ![n] = b[n]][i] = b[i]
         /\ n = Words => [a EXCEPT ![n] = b[n]] = b
<1> DEFINE c == [a EXCEPT ![n] = b[n]]
<1>1. Words \in Nat \ {0}
  BY StoreAssumption
<1>2. n \in 1 .. Words /\ \A i \in 1 .. n : i \in Index /\ (i = n \/ i \in 1 .. n - 1)
  BY <1>1 DEF Index
<1>3. c \in Image /\ \A i \in Index : c[i] = IF i = n THEN b[n] ELSE a[i]
  BY DEF Image
<1> HIDE DEF c
<1>4. \A i \in 1 .. n : c[i] = b[i]
  BY <1>2, <1>3
<1>5. n = Words => c = b
  BY <1>3, <1>4 DEF Image, Index
<1>6. QED
  BY <1>4, <1>5 DEF c

(***************************************************************************)
(* Every step of a command, of the motor loop and of a reset keeps the     *)
(* memory consistent.                                                      *)
(***************************************************************************)
LEMMA MemoryStep ==
  ASSUME TypeOK, MemoryInv, [Next]_vars
  PROVE  MemoryInv'
<1>1. /\ Words \in Nat \ {0} /\ 1 \in Index
      /\ params \in Image /\ controllers \in Image /\ incoming \in Image
      /\ state \in {0, 1}
  BY StoreAssumption DEF TypeOK, Index
<1>2. k \in Index \/ pc = "boot"
  BY DEF TypeOK
<1>3. ASSUME UNCHANGED memory, UNCHANGED locals, UNCHANGED <<pc, k>>
      PROVE  MemoryInv'
  BY <1>3 DEF MemoryInv, memory, locals, Resetting
<1>4. ASSUME UNCHANGED memory, UNCHANGED locals,
             pc \in {"boot", "idle", "erase", "program"},
             pc' \in {"boot", "idle", "erase", "program"}
      PROVE  MemoryInv'
  BY <1>4 DEF MemoryInv, memory, locals, Resetting
<1>5. CASE UNCHANGED vars
  BY <1>3, <1>5 DEF vars
<1>6. CASE Register \/ event_run
  BY <1>4, <1>6 DEF Register, event_run, Goto
<1>7. CASE pc = "idle" /\ SetParams
  <2>1. /\ pc' = "unpack" /\ k' = 1 /\ state' = StateOf(incoming'[1])
        /\ UNCHANGED <<params, controllers, control_type>>
        /\ control_type = controllers[1]
    BY <1>7 DEF SetParams, Goto, MemoryInv
  <2>2. QED
    BY <2>1 DEF MemoryInv, Resetting
<1>8. CASE pc = "idle" /\ motor_init_params_cb
  <2>1. params'[1] = Zero /\ StateOf(Zero) = 0
    BY <1>1, <1>8, StoreAssumption DEF motor_init_params_cb, Uniform, StateOf
  <2>2. QED
    BY <1>8, <2>1 DEF motor_init_params_cb, Goto, MemoryInv, Resetting
<1>9. CASE pc = "idle" /\ motor_flash_params_cb
  BY <1>4, <1>9 DEF motor_flash_params_cb, Goto
<1>10. CASE Unpack
  <2>1. k \in Index /\ \A i \in 1 .. k - 1 : params[i] = incoming[i]
    BY <1>2, <1>10 DEF Unpack, MemoryInv
  <2>2. \A i \in 1 .. k : params'[i] = incoming[i]
    BY <1>1, <1>10, <2>1, LastWord DEF Unpack
  <2>3. /\ UNCHANGED <<state, controllers, control_type, locals>>
        /\ state = StateOf(incoming[1]) /\ control_type = controllers[1]
    BY <1>10 DEF Unpack, MemoryInv
  <2>4. CASE k < Words
    <3>1. pc' = "unpack" /\ k' = k + 1
      BY <1>10, <2>4 DEF Unpack, Goto
    <3>2. k' - 1 = k
      BY <2>1, <3>1 DEF Index
    <3>3. QED
      BY <2>2, <2>3, <3>1, <3>2 DEF MemoryInv, Resetting, locals
  <2>5. CASE ~(k < Words)
    <3>1. pc' = "stop" /\ k' = 1 /\ 1 \in 1 .. k
      BY <1>10, <2>1, <2>5 DEF Unpack, Goto, Index
    <3>2. state' = StateOf(params'[1])
      BY <2>2, <2>3, <3>1
    <3>3. QED
      BY <2>3, <3>1, <3>2 DEF MemoryInv, Resetting
  <2>6. QED
    BY <2>4, <2>5
<1>11. CASE Stop
  BY <1>11 DEF Stop, Goto, MemoryInv, Resetting
<1>12. CASE motor_params_reset
  <2>1. k \in Index /\ \A i \in 1 .. k - 1 : controllers[i] = params[i]
    BY <1>2, <1>12 DEF motor_params_reset, MemoryInv
  <2>2. /\ \A i \in 1 .. k : controllers'[i] = params[i]
        /\ k = Words => controllers' = params
    BY <1>1, <1>12, <2>1, LastWord DEF motor_params_reset
  <2>3. /\ UNCHANGED <<params, state, control_type, locals>>
        /\ state = 0 /\ saved_state = StateOf(params[1])
    BY <1>12 DEF motor_params_reset, MemoryInv, Resetting
  <2>4. CASE k < Words
    <3>1. pc' = "reset" /\ k' = k + 1
      BY <1>12, <2>4 DEF motor_params_reset, Goto
    <3>2. k' - 1 = k
      BY <2>1, <3>1 DEF Index
    <3>3. QED
      BY <2>2, <2>3, <3>1, <3>2 DEF MemoryInv, Resetting, locals
  <2>5. CASE ~(k < Words)
    <3>1. pc' = "set_control_type" /\ k = Words
      BY <1>1, <1>12, <2>1, <2>5 DEF motor_params_reset, Goto, Index
    <3>2. QED
      BY <2>2, <2>3, <3>1 DEF MemoryInv, Resetting, locals
  <2>6. QED
    BY <2>4, <2>5
<1>13. CASE motor_set_control_type
  BY <1>13 DEF motor_set_control_type, Goto, MemoryInv, Resetting, locals
<1>14. CASE RestoreState
  BY <1>14 DEF RestoreState, Goto, MemoryInv, Resetting
<1>15. CASE Erase \/ Program
  BY <1>4, <1>15 DEF Erase, Program, Goto
<1>16. ASSUME NEW velocity \in Velocities, NEW ms \in Elapsed, motor_step(velocity, ms)
       PROVE  MemoryInv'
  BY <1>3, <1>16 DEF motor_step
<1>17. CASE Crash
  BY <1>17 DEF Crash, Goto, MemoryInv, Resetting
<1>18. QED
  BY <1>5, <1>6, <1>7, <1>8, <1>9, <1>10, <1>11, <1>12, <1>13, <1>14, <1>15, <1>16, <1>17
     DEF Next, Command

(***************************************************************************)
(* Only Erase and Program touch the page, and Erase withdraws the report.  *)
(***************************************************************************)
LEMMA FlashStep ==
  ASSUME TypeOK, FlashInv, [Next]_vars
  PROVE  FlashInv'
<1>1. /\ Words \in Nat \ {0}
      /\ params \in Image /\ flash \in Image
  BY StoreAssumption DEF TypeOK
<1>2. ASSUME UNCHANGED <<flash, reported>>, pc' # "program"
      PROVE  FlashInv'
  BY <1>2 DEF FlashInv, ReportedIsInFlash
<1>3. CASE UNCHANGED vars
  BY <1>3 DEF FlashInv, ReportedIsInFlash, vars, memory
<1>4. CASE Register
  BY <1>2, <1>4 DEF Register
<1>5. CASE Erase
  <2>1. reported' = None /\ k' = 1 /\ \A i \in 1 .. k' - 1 : FALSE
    BY <1>5 DEF Erase
  <2>2. QED
    BY <2>1 DEF FlashInv, ReportedIsInFlash
<1>6. CASE Program
  <2>1. /\ k \in Index /\ \A i \in 1 .. k - 1 : flash[i] = params[i]
        /\ reported = None /\ params' = params
    BY <1>6 DEF Program, FlashInv, TypeOK, memory
  <2>2. CASE UNCHANGED <<flash, reported>> /\ pc' = "idle"
    BY <1>2, <2>2
  <2>3. CASE flash' = [flash EXCEPT ![k] = params[k]] /\ k < Words /\ k' = k + 1
             /\ UNCHANGED reported
    <3>1. k' - 1 = k /\ \A i \in 1 .. k : flash'[i] = params[i]
      BY <1>1, <2>1, <2>3, LastWord DEF Index
    <3>2. QED
      BY <2>1, <2>3, <3>1 DEF FlashInv, ReportedIsInFlash
  <2>4. CASE flash' = [flash EXCEPT ![k] = params[k]] /\ k = Words /\ pc' = "idle"
             /\ reported' = params
    <3>1. flash' = params
      BY <1>1, <2>1, <2>4, LastWord
    <3>2. QED
      BY <2>4, <3>1 DEF FlashInv, ReportedIsInFlash
  <2>5. QED
    BY <1>6, <2>2, <2>3, <2>4 DEF Program, Goto
<1>7. ASSUME NEW velocity \in Velocities, NEW ms \in Elapsed, motor_step(velocity, ms)
      PROVE  FlashInv'
  BY <1>7 DEF motor_step, memory, FlashInv, ReportedIsInFlash
<1>8. CASE \/ event_run \/ SetParams \/ motor_init_params_cb \/ motor_flash_params_cb
           \/ Unpack \/ Stop \/ motor_params_reset \/ motor_set_control_type
           \/ RestoreState \/ Crash
  <2>1. UNCHANGED <<flash, reported>> /\ pc' # "program"
    BY <1>8 DEF event_run, SetParams, motor_init_params_cb, motor_flash_params_cb, Unpack,
       Stop, motor_params_reset, motor_set_control_type, RestoreState, Crash, Goto
  <2>2. QED
    BY <1>2, <2>1
<1>9. QED
  BY <1>3, <1>4, <1>5, <1>6, <1>7, <1>8 DEF Next, Command

(***************************************************************************)
(* The control loop: motor_step keeps to the limit and to numbers; a reset *)
(* of the controllers starts both from 0.                                  *)
(***************************************************************************)
LEMMA ControlStep ==
  ASSUME TypeOK, MemoryInv, ControlInv, [Next]_vars
  PROVE  ControlInv'
<1>1. /\ PidWord \in Index /\ FilterWord \in Index /\ PidWord < FilterWord
      /\ PidWord \in Nat /\ FilterWord \in Nat /\ 1 <= PidWord
  BY StoreAssumption DEF Index
<1>2. controllers \in Image /\ flash \in Image
  BY DEF TypeOK
<1>3. ASSUME NEW image \in Image, NEW i \in Index
      PROVE  GainsOf(image[i]) \in GainRecord
  BY <1>3, GainsOfWord DEF Image
<1>4. ASSUME UNCHANGED <<controllers, pid, filter>>, pc' # "reset" \/ k' = 1
      PROVE  ControlInv'
  BY <1>1, <1>4 DEF ControlInv, WithinLimit, ResetRestoresNumbers, PidGains, FilterGains
<1>5. ASSUME NEW g \in GainRecord
      PROVE  Within(pid_init, g) /\ pid_init.number /\ lowpass_filter_init.number
  BY DEF pid_init, Within, GainRecord, lowpass_filter_init
<1>6. CASE UNCHANGED vars
  BY <1>6 DEF vars, memory, control, ControlInv, WithinLimit, ResetRestoresNumbers,
     PidGains, FilterGains
<1>7. CASE motor_params_reset
  <2>1. /\ k \in Index /\ pc = "reset"
        /\ controllers' = [controllers EXCEPT ![k] = params[k]]
        /\ pid' = IF k = PidWord THEN pid_init ELSE pid
        /\ filter' = IF k = FilterWord THEN lowpass_filter_init ELSE filter
        /\ k' = IF k < Words THEN k + 1 ELSE 1
    BY <1>7 DEF motor_params_reset, TypeOK
  <2>2. /\ controllers'[PidWord] = IF k = PidWord THEN params[k] ELSE controllers[PidWord]
        /\ controllers'[FilterWord] = IF k = FilterWord THEN params[k] ELSE controllers[FilterWord]
        /\ controllers' \in Image
    BY <1>1, <1>2, <2>1 DEF Image, TypeOK
  <2>3. PidGains' \in GainRecord
    BY <1>1, <1>3, <2>2 DEF PidGains
  <2>4. WithinLimit'
    <3>1. CASE k = PidWord
      BY <1>5, <2>1, <2>3, <3>1 DEF WithinLimit, Within
    <3>2. CASE k # PidWord
      BY <2>1, <2>2, <3>2 DEF ControlInv, WithinLimit, PidGains
    <3>3. QED
      BY <3>1, <3>2
  <2>5. k \in Nat /\ (k' > PidWord => k > PidWord \/ k = PidWord)
    BY <1>1, <2>1, StoreAssumption DEF Index
  <2>6. k' > PidWord /\ PidGains'.number => pid'.number
    <3>1. CASE k = PidWord
      BY <1>5, <2>1, <2>3, <3>1
    <3>2. CASE k # PidWord
      BY <2>1, <2>2, <2>5, <3>2 DEF ControlInv, PidGains
    <3>3. QED
      BY <3>1, <3>2
  <2>7. ResetRestoresNumbers'
    <3>1. CASE k = FilterWord
      <4>1. k > PidWord /\ k # PidWord
        BY <1>1, <3>1
      <4>2. filter'.number
        BY <1>5, <2>1, <2>3, <3>1
      <4>3. PidGains'.number => pid'.number
        BY <2>1, <2>2, <4>1 DEF ControlInv, PidGains
      <4>4. QED
        BY <4>2, <4>3 DEF ResetRestoresNumbers
    <3>2. CASE k = PidWord
      <4>1. k # FilterWord
        BY <1>1, <3>2
      <4>2. FilterGains' = FilterGains /\ filter' = filter /\ pid'.number
        BY <1>5, <2>1, <2>2, <2>3, <3>2, <4>1 DEF FilterGains
      <4>3. QED
        BY <4>2 DEF ControlInv, ResetRestoresNumbers
    <3>3. CASE k # FilterWord /\ k # PidWord
      BY <2>1, <2>2, <3>3 DEF ControlInv, ResetRestoresNumbers, PidGains, FilterGains
    <3>4. QED
      BY <3>1, <3>2, <3>3
  <2>8. QED
    BY <2>4, <2>6, <2>7 DEF ControlInv
<1>8. ASSUME NEW velocity \in Velocities, NEW ms \in Elapsed, motor_step(velocity, ms)
      PROVE  ControlInv'
  <2>1. /\ UNCHANGED <<controllers, pc, k>> /\ pc # "reset"
        /\ PidGains' = PidGains /\ FilterGains' = FilterGains
    BY <1>8 DEF motor_step, memory, MemoryInv, Resetting, PidGains, FilterGains
  <2>2. /\ FilterGains.tf > 0 /\ filter.number =>
             filter'.number /\ (pid.number /\ PidGains.number => pid'.number)
        /\ Within(pid, PidGains) /\ pid.number /\ pid'.number => Within(pid', PidGains)
    BY <1>8, MotorStep
  <2>3. pid'.number /\ PidGains.number => pid.number
    <3>1. PidGains \in GainRecord
      BY <1>1, <1>2, <1>3 DEF PidGains
    <3>2. QED
      BY <1>8, <3>1 DEF motor_step, pid_calc, NotANumber, PidGains
  <2>4. QED
    BY <2>1, <2>2, <2>3 DEF ControlInv, WithinLimit, ResetRestoresNumbers, Within
<1>9. CASE Crash
  <2>1. /\ controllers' = flash /\ pid' = pid_init /\ filter' = lowpass_filter_init
        /\ pc' = "boot"
    BY <1>9 DEF Crash, Goto
  <2>2. PidGains' \in GainRecord
    BY <1>1, <1>2, <1>3, <2>1 DEF PidGains
  <2>3. QED
    BY <1>5, <2>1, <2>2 DEF ControlInv, WithinLimit, ResetRestoresNumbers, Within
<1>10. CASE Stop
  <2>1. k = 1 /\ k' = k /\ UNCHANGED <<controllers, pid, filter>>
    BY <1>10 DEF Stop, control, MemoryInv
  <2>2. QED
    BY <1>4, <2>1
<1>11. CASE \/ Register \/ event_run \/ SetParams \/ motor_init_params_cb
            \/ motor_flash_params_cb \/ Unpack \/ motor_set_control_type \/ RestoreState
            \/ Erase \/ Program
  <2>1. UNCHANGED <<controllers, pid, filter>> /\ pc' # "reset"
    BY <1>11 DEF Register, event_run, SetParams, motor_init_params_cb,
       motor_flash_params_cb, Unpack, motor_set_control_type, RestoreState, Erase, Program,
       memory, control, Goto
  <2>2. QED
    BY <1>4, <2>1
<1>12. QED
  BY <1>6, <1>7, <1>8, <1>9, <1>10, <1>11 DEF Next, Command
-------------------------------------------------------------------------------
(***************************************************************************)
(* Every state of the module satisfies the inductive invariant: a start    *)
(* does, and a step keeps each of its parts.                               *)
(***************************************************************************)
LEMMA InitIInv == Init => IInv
<1> SUFFICES ASSUME Init PROVE IInv
  OBVIOUS
<1>1. /\ Words \in Nat \ {0} /\ PidWord \in Index /\ FilterWord \in Index
      /\ 1 \in Index /\ MaxStreak \in Nat
  BY StoreAssumption DEF Index
<1>2. PICK s \in Word : flash = Uniform(s)
  BY DEF Init
<1>3. flash \in Image /\ None \in Image /\ Uniform(Zero) \in Image /\ flash[1] \in Word
  BY <1>1, <1>2 DEF Uniform, Image, None, Word
<1>4. TableInv
  BY EmptyTable DEF Init
<1>5. TypeOK
  <2>1. /\ pid \in PidState /\ filter \in FilterState /\ streak \in -MaxStreak .. MaxStreak
        /\ state \in {0, 1}
    BY <1>1 DEF Init, pid_init, lowpass_filter_init, PidState, FilterState, StateOf
  <2>2. k \in 1 .. Len(firmware) + 1 /\ firmware \in Firmwares
    <3>1. firmware \in Seq(Registrations)
      BY StoreAssumption DEF Init, Registrations
    <3>2. Len(firmware) \in Nat
      BY <3>1
    <3>3. QED
      BY <3>2 DEF Init
  <2>3. QED
    BY <1>3, <1>4, <2>1, <2>2 DEF Init, TypeOK, TableInv, PidState, FilterState
<1>6. MemoryInv
  BY DEF Init, MemoryInv, Resetting
<1>7. FlashInv
  BY DEF Init, FlashInv, ReportedIsInFlash
<1>8. ControlInv
  <2>1. PidGains \in GainRecord
    BY <1>1, <1>3, GainsOfWord DEF Init, PidGains, Image
  <2>2. QED
    BY <2>1 DEF Init, ControlInv, WithinLimit, ResetRestoresNumbers, pid_init,
       lowpass_filter_init, GainRecord
<1>9. QED
  BY <1>4, <1>5, <1>6, <1>7, <1>8 DEF IInv

(***************************************************************************)
(* One lemma above per part.                                               *)
(***************************************************************************)
LEMMA IInvStep == IInv /\ [Next]_vars => IInv'
BY TableStep, TypeStep, MemoryStep, FlashStep, ControlStep DEF IInv

(***************************************************************************)
(* The invariant holds always.                                             *)
(***************************************************************************)
LEMMA SpecIInv == Spec => []IInv
<1>1. Init => IInv
  BY InitIInv
<1>2. IInv /\ [Next]_vars => IInv'
  BY IInvStep
<1>3. QED
  BY <1>1, <1>2, PTL DEF Spec

(***************************************************************************)
(* The variables keep their types: k stays in the image, or the            *)
(* registrations, and the command table within its size, in every          *)
(* interleaving of commands, motor steps and resets.                       *)
(***************************************************************************)
THEOREM SpecTypeOK == Spec => []TypeOK
<1>1. IInv => TypeOK
  BY DEF IInv
<1>2. QED
  BY <1>1, SpecIInv, PTL

(***************************************************************************)
(* A frame runs what event_register accepted first for its code, for a     *)
(* table of any size and any application, one that registers too much      *)
(* included.                                                               *)
(***************************************************************************)
THEOREM SpecRunsWhatWasRegistered == Spec => []RunsWhatWasRegistered
<1>1. IInv => RunsWhatWasRegistered
  BY DEF IInv, TableInv
<1>2. QED
  BY <1>1, SpecIInv, PTL

(***************************************************************************)
(* A save that returned 0 is in flash, for images of any length and resets *)
(* at any step.                                                            *)
(***************************************************************************)
THEOREM SpecReportedIsInFlash == Spec => []ReportedIsInFlash
<1>1. IInv => ReportedIsInFlash
  BY DEF IInv, FlashInv
<1>2. QED
  BY <1>1, SpecIInv, PTL

(***************************************************************************)
(* No motor step sees the controllers of two images or a mode that is not  *)
(* theirs, for images of any length.                                       *)
(***************************************************************************)
THEOREM SpecStopsWhileResetting == Spec => []StopsWhileResetting
<1>1. IInv => StopsWhileResetting
  BY DEF IInv, MemoryInv, StopsWhileResetting, Resetting
<1>2. QED
  BY <1>1, SpecIInv, PTL

(***************************************************************************)
(* Between commands a working motor runs the parameters in RAM, whatever   *)
(* the frame before held and wherever a reset cut it.                      *)
(***************************************************************************)
THEOREM SpecReportsWhatRuns == Spec => []ReportsWhatRuns
<1>1. IInv => ReportsWhatRuns
  BY DEF IInv, MemoryInv, ReportsWhatRuns
<1>2. QED
  BY <1>1, SpecIInv, PTL

(***************************************************************************)
(* The PID keeps to the limit in force for all gains, velocities and times *)
(* between steps, over every change of the gains.                          *)
(***************************************************************************)
THEOREM SpecWithinLimit == Spec => []WithinLimit
<1>1. IInv => WithinLimit
  BY DEF IInv, ControlInv
<1>2. QED
  BY <1>1, SpecIInv, PTL

(***************************************************************************)
(* Gains that are numbers, with a time constant, make the loop compute     *)
(* numbers whatever it computed before them.                               *)
(***************************************************************************)
THEOREM SpecResetRestoresNumbers == Spec => []ResetRestoresNumbers
<1>1. IInv => ResetRestoresNumbers
  BY DEF IInv, ControlInv
<1>2. QED
  BY <1>1, SpecIInv, PTL
-------------------------------------------------------------------------------
(***************************************************************************)
(* How far a run of s errors of one sign has pushed the PID: the integral, *)
(* which a full one the other way delays most, grows by twice the integral *)
(* gain a step after the first; when it has no sign of its own any more,   *)
(* the output follows as fast as the ramp allows.                          *)
(***************************************************************************)
Integrating(g) == g \in GainRecord /\ g.p > 0 /\ g.i > 0 /\ g.d = 0 /\ g.limit > 0

FullRun(g) == 2 + (g.limit - 1) \div (2 * g.i)

Pushed(g, s, integral, output, error) ==
  /\ error > 0
  /\ integral >= 0 \/ integral >= (2 * g.i) * (s - 1) - g.limit
  /\ s >= FullRun(g) =>
       output > 0 \/ (g.ramp > 0 /\ output >= g.ramp * (s - FullRun(g) + 1) - g.limit)

WindupInv ==
  pid.number /\ Integrating(PidGains) =>
    /\ streak > 0 => Pushed(PidGains, streak, pid.integral, pid.output, pid.error)
    /\ streak < 0 => Pushed(PidGains, -streak, -pid.integral, -pid.output, -pid.error)

\* The integral and the output of pid_calc without a derivative gain.
NextIntegral(g, ts, integral, last, error) ==
  _constrain(integral + g.i * ts * (error + last), -g.limit, g.limit)

NextOutput(g, ts, integral, output, error) ==
  LET wanted == _constrain(g.p * error + integral, -g.limit, g.limit)
  IN IF g.ramp > 0 THEN _constrain(wanted, output - g.ramp * ts, output + g.ramp * ts)
                   ELSE wanted

(***************************************************************************)
(* What pid_calc computes when the derivative gain is 0.                   *)
(***************************************************************************)
LEMMA PidNext ==
  ASSUME NEW self \in PidState, NEW g, Integrating(g), g.number, self.number,
         NEW error \in Int, NEW ms \in Nat
  PROVE  LET ts == Seconds(ms)
             integral == NextIntegral(g, ts, self.integral, self.error, error)
         IN  /\ ts \in Nat \ {0}
             /\ integral \in -g.limit .. g.limit
             /\ pid_calc(self, g, error, ms) =
                  [number |-> TRUE, integral |-> integral, error |-> error,
                   output |-> NextOutput(g, ts, integral, self.output, error)]
<1>1. PICK ts \in Nat \ {0} : ts = Seconds(ms)
  BY DEF Seconds
<1>2. /\ g.i \in Nat /\ g.p \in Nat /\ g.d = 0 /\ g.limit \in Nat /\ g.ramp \in Nat
      /\ self.integral \in Int /\ self.error \in Int /\ self.output \in Int
  BY DEF Integrating, GainRecord, PidState
<1>3. g.i * ts * (error + self.error) \in Int
  <2>1. PICK a \in Int : a = g.i * ts
    BY <1>2
  <2>2. a * (error + self.error) \in Int
    BY <1>2, <2>1
  <2>3. QED
    BY <2>1, <2>2
<1>4. NextIntegral(g, ts, self.integral, self.error, error) \in -g.limit .. g.limit
  <2>1. PICK x \in Int : x = self.integral + g.i * ts * (error + self.error)
    BY <1>2, <1>3
  <2>2. QED
    BY <1>2, <2>1, ConstrainWithin DEF NextIntegral
<1>5. (g.d * (error - self.error)) \div ts = 0
  <2>1. g.d * (error - self.error) = 0
    BY <1>2
  <2>2. 0 \div ts = 0
    BY <1>1
  <2>3. QED
    BY <2>1, <2>2
<1>6. PICK integral \in Int : integral = NextIntegral(g, ts, self.integral, self.error, error)
  BY <1>2, <1>4
<1>7. PICK x \in Int : x = g.p * error
  BY <1>2
<1>8. g.p * error + integral + 0 = g.p * error + integral
  <2>1. x + integral + 0 = x + integral
    OBVIOUS
  <2>2. QED
    BY <1>7, <2>1
<1>9. pid_calc(self, g, error, ms) =
        [number |-> TRUE, integral |-> integral, error |-> error,
         output |-> NextOutput(g, ts, integral, self.output, error)]
  BY <1>1, <1>5, <1>6, <1>8 DEF pid_calc, NextIntegral, NextOutput
<1>10. QED
  BY <1>1, <1>4, <1>6, <1>9

(***************************************************************************)
(* The PID computes the negative of what it computes from the negatives.   *)
(***************************************************************************)
LEMMA MirrorConstrain ==
  ASSUME NEW x \in Int, NEW low \in Int, NEW high \in Int, low <= high
  PROVE  _constrain(-x, -high, -low) = -_constrain(x, low, high)
BY DEF _constrain

LEMMA MirrorIntegral ==
  ASSUME NEW g, Integrating(g), NEW ts \in Nat \ {0}, NEW integral \in Int, NEW last \in Int,
         NEW error \in Int
  PROVE  NextIntegral(g, ts, -integral, -last, -error)
           = -NextIntegral(g, ts, integral, last, error)
<1>1. /\ g.i \in Nat /\ g.limit \in Nat
      /\ -g.limit \in Int /\ -g.limit <= g.limit /\ -(-g.limit) = g.limit
  BY DEF Integrating, GainRecord
<1>2. PICK a \in Int : a = g.i * ts
  BY <1>1
<1>3. PICK b \in Int : b = a * (error + last)
  BY <1>2
<1>4. a * (-error + -last) = -b
  BY <1>2, <1>3
<1>5. PICK x \in Int : x = integral + b
  BY <1>3
<1>6. -integral + -b = -x
  BY <1>5
<1>7. _constrain(-x, -g.limit, g.limit) = -_constrain(x, -g.limit, g.limit)
  BY <1>1, MirrorConstrain
<1>8. QED
  BY <1>2, <1>3, <1>4, <1>5, <1>6, <1>7 DEF NextIntegral

LEMMA MirrorOutput ==
  ASSUME NEW g, Integrating(g), NEW ts \in Nat \ {0}, NEW integral \in Int,
         NEW output \in Int, NEW error \in Int
  PROVE  NextOutput(g, ts, -integral, -output, -error)
           = -NextOutput(g, ts, integral, output, error)
<1>1. /\ g.p \in Nat /\ g.limit \in Nat /\ g.ramp \in Nat
      /\ -g.limit \in Int /\ -g.limit <= g.limit /\ -(-g.limit) = g.limit
  BY DEF Integrating, GainRecord
<1>2. PICK b \in Int : b = g.p * error
  BY <1>1
<1>3. g.p * (-error) = -b
  BY <1>1, <1>2
<1>4. PICK x \in Int : x = b + integral
  BY <1>2
<1>5. -b + -integral = -x
  BY <1>4
<1>6. PICK w \in Int : w = _constrain(x, -g.limit, g.limit)
  BY <1>1 DEF _constrain
<1>7. _constrain(-x, -g.limit, g.limit) = -w
  BY <1>1, <1>6, MirrorConstrain
<1>8. PICK r \in Nat : r = g.ramp * ts
  BY <1>1
<1>9. PICK low \in Int : low = output - r
  BY <1>8
<1>10. PICK high \in Int : high = output + r
  BY <1>8
<1>11. low <= high /\ -output - r = -high /\ -output + r = -low
  BY <1>8, <1>9, <1>10
<1>12. _constrain(-w, -high, -low) = -_constrain(w, low, high)
  BY <1>11, MirrorConstrain
<1>13. /\ NextOutput(g, ts, integral, output, error)
            = IF g.ramp > 0 THEN _constrain(w, low, high) ELSE w
       /\ NextOutput(g, ts, -integral, -output, -error)
            = IF g.ramp > 0 THEN _constrain(-w, -high, -low) ELSE -w
  BY <1>2, <1>3, <1>4, <1>5, <1>6, <1>7, <1>8, <1>9, <1>10, <1>11 DEF NextOutput
<1>14. QED
  BY <1>12, <1>13

(***************************************************************************)
(* Multiplying by a natural number keeps an order.                         *)
(***************************************************************************)
LEMMA ProductOrder ==
  ASSUME NEW a \in Nat, NEW x \in Int, NEW y \in Int, x <= y
  PROVE  a * x <= a * y
<1>1. a * (y - x) \in Nat
  <2>1. y - x \in Nat
    OBVIOUS
  <2>2. QED
    BY <2>1
<1>2. a * (y - x) = a * y - a * x /\ a * x \in Int /\ a * y \in Int
  OBVIOUS
<1>3. QED
  BY <1>1, <1>2

(***************************************************************************)
(* One more than the quotient is enough to make up the whole.              *)
(***************************************************************************)
LEMMA RoundedUp ==
  ASSUME NEW x \in Nat, NEW b \in Nat \ {0}
  PROVE  x \div b \in Nat /\ b * (x \div b + 1) > x
<1>1. /\ x \div b \in Int /\ x % b \in 0 .. b - 1
      /\ x = b * (x \div b) + (x % b)
  OBVIOUS
<1>2. PICK q \in Int : q = x \div b
  BY <1>1
<1>3. PICK r \in 0 .. b - 1 : r = x % b
  BY <1>1
<1>4. x = b * q + r /\ b * q \in Int /\ b * (q + 1) = b * q + b
  BY <1>1, <1>2, <1>3
<1>5. ASSUME q <= -1 PROVE FALSE
  <2>1. b * q <= b * (-1) /\ b * (-1) = -b
    BY <1>5, ProductOrder
  <2>2. QED
    BY <1>4, <2>1
<1>6. QED
  BY <1>2, <1>4, <1>5

LEMMA FullRunIs ==
  ASSUME NEW g, Integrating(g)
  PROVE  /\ FullRun(g) \in Nat /\ FullRun(g) >= 2
         /\ \A s \in Nat : s >= FullRun(g) => (2 * g.i) * (s - 1) >= g.limit
<1>1. g.i \in Nat /\ g.i > 0 /\ g.limit \in Nat /\ g.limit > 0
  BY DEF Integrating, GainRecord
<1>2. PICK b \in Nat \ {0} : b = 2 * g.i
  BY <1>1
<1>3. PICK x \in Nat : x = g.limit - 1
  BY <1>1
<1>4. PICK q \in Nat : q = x \div b /\ b * (q + 1) > x
  BY RoundedUp
<1>5. FullRun(g) = 2 + q
  BY <1>2, <1>3, <1>4 DEF FullRun
<1>6. ASSUME NEW s \in Nat, s >= 2 + q
      PROVE  b * (s - 1) >= g.limit
  <2>1. b * (q + 1) <= b * (s - 1)
    BY <1>6, ProductOrder
  <2>2. b * (q + 1) \in Int /\ b * (s - 1) \in Int
    BY <1>6
  <2>3. QED
    BY <1>1, <1>3, <1>4, <2>1, <2>2
<1>7. QED
  BY <1>2, <1>5, <1>6

(***************************************************************************)
(* A step with an error of the same sign again pushes the PID further.     *)
(***************************************************************************)
LEMMA IntegralPushed ==
  ASSUME NEW g, Integrating(g), NEW ts \in Nat \ {0},
         NEW integral \in -g.limit .. g.limit, NEW last \in Int, NEW output \in Int,
         NEW error \in Int, error > 0,
         NEW s \in Nat, NEW s1 \in Nat, 1 <= s1, s1 <= s + 1,
         s > 0 => Pushed(g, s, integral, output, last)
  PROVE  LET next == NextIntegral(g, ts, integral, last, error)
         IN  next >= 0 \/ next >= (2 * g.i) * (s1 - 1) - g.limit
<1>1. g.i \in Nat /\ g.i > 0 /\ g.limit \in Nat /\ g.limit > 0 /\ integral \in Int
  BY DEF Integrating, GainRecord
<1>2. PICK a \in Nat : a = g.i * ts
  BY <1>1
<1>3. g.i <= a
  <2>1. g.i * 1 <= g.i * ts
    BY <1>1, ProductOrder
  <2>2. QED
    BY <1>1, <1>2, <2>1
<1>4. PICK d \in Int : d = a * (error + last)
  BY <1>2
<1>5. PICK next \in Int : next = NextIntegral(g, ts, integral, last, error)
                          /\ next = _constrain(integral + d, -g.limit, g.limit)
  BY <1>1, <1>2, <1>4 DEF NextIntegral, _constrain
<1>6. PICK b \in Nat : b = 2 * g.i
  BY <1>1
<1>7. CASE s = 0
  <2>1. b * (s1 - 1) = 0
    BY <1>6, <1>7
  <2>2. next >= -g.limit
    BY <1>1, <1>4, <1>5 DEF _constrain
  <2>3. QED
    BY <1>1, <1>5, <1>6, <2>1, <2>2
<1>8. CASE s > 0
  <2>1. last > 0 /\ (integral >= 0 \/ integral >= b * (s - 1) - g.limit)
    BY <1>6, <1>8 DEF Pushed
  <2>2. d >= b
    <3>1. a * 2 <= a * (error + last)
      BY <2>1, ProductOrder
    <3>2. QED
      BY <1>1, <1>2, <1>3, <1>4, <1>6, <3>1
  <2>3. PICK z \in Int : z = b * (s - 1)
    BY <1>6
  <2>4. PICK z1 \in Int : z1 = b * (s1 - 1)
    BY <1>6
  <2>5. z1 <= z + b
    <3>1. b * (s1 - 1) <= b * s
      BY ProductOrder
    <3>2. b * s = z + b
      BY <2>3
    <3>3. QED
      BY <2>4, <3>1, <3>2
  <2>6. next >= 0 \/ next >= z1 - g.limit
    BY <1>1, <1>4, <1>5, <2>1, <2>2, <2>3, <2>4, <2>5 DEF _constrain
  <2>7. QED
    BY <1>5, <1>6, <2>4, <2>6
<1>9. QED
  BY <1>7, <1>8

LEMMA OutputPushed ==
  ASSUME NEW g, Integrating(g), NEW ts \in Nat \ {0},
         NEW integral \in Int, integral >= 0,
         NEW output \in -g.limit .. g.limit, NEW error \in Int, error > 0,
         NEW s \in Nat, NEW s1 \in Nat, FullRun(g) <= s1, s1 <= s + 1,
         s >= FullRun(g) =>
           output > 0 \/ (g.ramp > 0 /\ output >= g.ramp * (s - FullRun(g) + 1) - g.limit)
  PROVE  LET next == NextOutput(g, ts, integral, output, error)
         IN  next > 0 \/ (g.ramp > 0 /\ next >= g.ramp * (s1 - FullRun(g) + 1) - g.limit)
<1>1. g.p \in Nat /\ g.p > 0 /\ g.limit \in Nat /\ g.limit > 0 /\ g.ramp \in Nat
      /\ output \in Int
  BY DEF Integrating, GainRecord
<1>2. PICK n \in Nat : n = FullRun(g)
  BY FullRunIs
<1>3. PICK x \in Int : x = g.p * error
  BY <1>1
<1>4. x >= 1
  <2>1. g.p * 1 <= g.p * error
    BY <1>1, ProductOrder
  <2>2. QED
    BY <1>1, <1>3, <2>1
<1>5. PICK w \in Int : w = _constrain(g.p * error + integral, -g.limit, g.limit) /\ w > 0
  BY <1>1, <1>3, <1>4 DEF _constrain
<1>6. PICK r \in Nat : r = g.ramp * ts /\ g.ramp <= r
  <2>1. g.ramp * 1 <= g.ramp * ts
    BY <1>1, ProductOrder
  <2>2. QED
    BY <1>1, <2>1
<1>7. PICK next \in Int :
        /\ next = NextOutput(g, ts, integral, output, error)
        /\ next = IF g.ramp > 0 THEN _constrain(w, output - r, output + r) ELSE w
  BY <1>1, <1>5, <1>6 DEF NextOutput, _constrain
<1>8. CASE g.ramp = 0
  BY <1>1, <1>5, <1>7, <1>8
<1>9. CASE g.ramp > 0
  <2>1. next > 0 \/ next >= output + g.ramp
    BY <1>1, <1>5, <1>6, <1>7, <1>9 DEF _constrain
  <2>2. CASE s < n
    <3>1. g.ramp * (s1 - n + 1) = g.ramp
      BY <1>1, <1>2, <2>2
    <3>2. QED
      BY <1>1, <1>2, <1>7, <1>9, <2>1, <3>1
  <2>3. CASE s >= n
    <3>1. PICK z \in Int : z = g.ramp * (s - n + 1)
      BY <1>1, <1>2
    <3>2. PICK z1 \in Int : z1 = g.ramp * (s1 - n + 1)
      BY <1>1, <1>2
    <3>3. z1 <= z + g.ramp
      <4>1. g.ramp * (s1 - n + 1) <= g.ramp * (s - n + 2)
        BY <1>1, <1>2, ProductOrder
      <4>2. g.ramp * (s - n + 2) = z + g.ramp
        BY <1>1, <1>2, <3>1
      <4>3. QED
        BY <3>2, <4>1, <4>2
    <3>4. output > 0 \/ output >= z - g.limit
      BY <1>2, <2>3, <3>1
    <3>5. next > 0 \/ next >= z1 - g.limit
      BY <1>1, <2>1, <3>1, <3>2, <3>3, <3>4
    <3>6. QED
      BY <1>2, <1>7, <1>9, <3>2, <3>5
  <2>4. QED
    BY <1>2, <2>2, <2>3
<1>10. QED
  BY <1>1, <1>8, <1>9

LEMMA Push ==
  ASSUME NEW g, Integrating(g), NEW ts \in Nat \ {0},
         NEW integral \in -g.limit .. g.limit, NEW output \in -g.limit .. g.limit,
         NEW last \in Int, NEW error \in Int, error > 0,
         NEW s \in Nat, NEW s1 \in Nat, 1 <= s1, s1 <= s + 1,
         s > 0 => Pushed(g, s, integral, output, last)
  PROVE  LET next == NextIntegral(g, ts, integral, last, error)
         IN  Pushed(g, s1, next, NextOutput(g, ts, next, output, error), error)
<1>1. g.i \in Nat /\ g.limit \in Nat /\ g.limit > 0
  BY DEF Integrating, GainRecord
<1>2. PICK next \in Int : next = NextIntegral(g, ts, integral, last, error)
  <2>1. g.i * ts * (error + last) \in Int
    <3>1. PICK a \in Int : a = g.i * ts
      BY <1>1
    <3>2. QED
      BY <3>1
  <2>2. QED
    BY <1>1, <2>1 DEF NextIntegral, _constrain
<1>3. next >= 0 \/ next >= (2 * g.i) * (s1 - 1) - g.limit
  BY <1>1, <1>2, IntegralPushed
<1>4. ASSUME s1 >= FullRun(g)
      PROVE  LET after == NextOutput(g, ts, next, output, error)
             IN  after > 0 \/ (g.ramp > 0 /\ after >= g.ramp * (s1 - FullRun(g) + 1) - g.limit)
  <2>1. next >= 0
    <3>1. (2 * g.i) * (s1 - 1) >= g.limit
      BY <1>4, FullRunIs
    <3>2. PICK z \in Int : z = (2 * g.i) * (s1 - 1)
      BY <1>1
    <3>3. QED
      BY <1>1, <1>3, <3>1, <3>2
  <2>2. s >= FullRun(g) =>
          output > 0 \/ (g.ramp > 0 /\ output >= g.ramp * (s - FullRun(g) + 1) - g.limit)
    BY FullRunIs DEF Pushed
  <2>3. QED
    BY <1>4, <2>1, <2>2, OutputPushed
<1>5. QED
  BY <1>2, <1>3, <1>4 DEF Pushed

(***************************************************************************)
(* A motor step keeps WindupInv: the errors of one sign push the PID, and  *)
(* those of the other are their mirror.                                    *)
(***************************************************************************)
LEMMA WindupMotor ==
  ASSUME IInv, WindupInv, NEW velocity \in Velocities, NEW ms \in Elapsed,
         motor_step(velocity, ms)
  PROVE  WindupInv'
<1>1. ms \in Nat /\ MaxStreak \in Nat /\ PidWord \in Index
  BY StoreAssumption DEF Index
<1>2. PidGains' = PidGains
  BY DEF motor_step, memory, PidGains
<1>3. /\ pid \in PidState /\ pid' \in PidState /\ filter' \in FilterState
      /\ streak \in Int /\ streak' \in Int
  BY <1>1, MotorStep DEF IInv, TypeOK, PidState
<1> SUFFICES ASSUME pid'.number, Integrating(PidGains)
             PROVE  /\ streak' > 0 => Pushed(PidGains, streak', pid'.integral,
                                             pid'.output, pid'.error)
                    /\ streak' < 0 => Pushed(PidGains, -streak', -pid'.integral,
                                             -pid'.output, -pid'.error)
  BY <1>2 DEF WindupInv
<1>4. PICK g : g = PidGains /\ Integrating(g) /\ g \in GainRecord
  BY DEF Integrating
<1>5. PICK error \in Int : error = -filter'.y
  BY <1>3 DEF FilterState
<1>6. pid' = pid_calc(pid, g, error, ms) /\ pid.number /\ g.number
  <2>1. pid' = pid_calc(pid, g, error, ms)
    BY <1>4, <1>5 DEF motor_step, PidGains, NotANumber
  <2>2. QED
    BY <2>1 DEF pid_calc, NotANumber
<1>7. g.limit \in Nat /\ pid.integral \in -g.limit .. g.limit /\ pid.output \in -g.limit .. g.limit
      /\ pid.error \in Int
  BY <1>3, <1>4, <1>6 DEF IInv, ControlInv, WithinLimit, GainRecord, PidState
<1>8. PICK ts \in Nat \ {0} : ts = Seconds(ms)
  BY <1>1 DEF Seconds
<1>9. PICK integral \in Int : integral = NextIntegral(g, ts, pid.integral, pid.error, error)
  BY <1>1, <1>3, <1>4, <1>6, <1>7, <1>8, PidNext
<1>10. /\ pid'.integral = integral /\ pid'.error = error
       /\ pid'.output = NextOutput(g, ts, integral, pid.output, error)
  BY <1>1, <1>3, <1>4, <1>6, <1>8, <1>9, PidNext
<1>11. streak' = Streak(error)
  BY <1>10 DEF motor_step
<1>12. /\ streak > 0 => Pushed(g, streak, pid.integral, pid.output, pid.error)
       /\ streak < 0 => Pushed(g, -streak, -pid.integral, -pid.output, -pid.error)
  BY <1>4, <1>6 DEF WindupInv
<1>13. CASE error > 0
  <2>1. streak' >= 0 /\ streak' <= (IF streak < 0 THEN 0 ELSE streak) + 1
    BY <1>1, <1>3, <1>11, <1>13 DEF Streak, _constrain, IInv, TypeOK
  <2>2. PICK s \in Nat : /\ s = IF streak < 0 THEN 0 ELSE streak
                         /\ streak' <= s + 1
    BY <1>3, <2>1
  <2>3. s > 0 => Pushed(g, s, pid.integral, pid.output, pid.error)
    BY <1>3, <1>12, <2>2
  <2>4. ASSUME streak' > 0
        PROVE  Pushed(g, streak', integral, NextOutput(g, ts, integral, pid.output, error), error)
    BY <1>3, <1>4, <1>7, <1>8, <1>9, <1>13, <2>2, <2>3, <2>4, Push
  <2>5. QED
    BY <1>3, <1>4, <1>10, <2>1, <2>4
<1>14. CASE error < 0
  <2>1. PICK t \in Int :
          t = streak' /\ t <= 0 /\ -t <= (IF streak > 0 THEN 0 ELSE -streak) + 1
    <3>1. streak \in -MaxStreak .. MaxStreak
      BY DEF IInv, TypeOK
    <3>2. PICK t \in Int : t = IF streak > 0 THEN -1 ELSE _constrain(streak - 1, -MaxStreak, 0)
      BY <1>1, <1>3, <3>1 DEF _constrain
    <3>3. t = streak'
      BY <1>11, <1>14, <3>2 DEF Streak
    <3>4. t <= 0 /\ -t <= (IF streak > 0 THEN 0 ELSE -streak) + 1
      BY <1>1, <1>3, <3>1, <3>2 DEF _constrain
    <3>5. QED
      BY <3>3, <3>4
  <2>2. PICK s \in Nat : /\ s = IF streak > 0 THEN 0 ELSE -streak
                         /\ -t <= s + 1
    <3>1. (IF streak > 0 THEN 0 ELSE -streak) \in Nat
      BY <1>3
    <3>2. QED
      BY <2>1, <3>1
  <2>3. s > 0 => Pushed(g, s, -pid.integral, -pid.output, -pid.error)
    BY <1>3, <1>12, <2>2
  <2>4. /\ -pid.integral \in -g.limit .. g.limit /\ -pid.output \in -g.limit .. g.limit
        /\ -pid.error \in Int /\ -error \in Int /\ -error > 0
        /\ pid.integral \in Int /\ pid.output \in Int
    BY <1>7, <1>14
  <2>5. /\ NextIntegral(g, ts, -pid.integral, -pid.error, -error) = -integral
        /\ NextOutput(g, ts, -integral, -pid.output, -error)
             = -NextOutput(g, ts, integral, pid.output, error)
    <3>1. NextIntegral(g, ts, -pid.integral, -pid.error, -error)
            = -NextIntegral(g, ts, pid.integral, pid.error, error)
      BY <1>4, <1>7, <1>8, <2>4, MirrorIntegral
    <3>2. NextOutput(g, ts, -integral, -pid.output, -error)
            = -NextOutput(g, ts, integral, pid.output, error)
      <4>1. PICK output \in Int : output = pid.output
        BY <2>4
      <4>2. NextOutput(g, ts, -integral, -output, -error)
              = -NextOutput(g, ts, integral, output, error)
        BY <1>4, <1>7, MirrorOutput
      <4>3. QED
        BY <4>1, <4>2
    <3>3. QED
      BY <1>9, <3>1, <3>2
  <2>6. ASSUME t < 0
        PROVE  Pushed(g, -t, -integral,
                      -NextOutput(g, ts, integral, pid.output, error), -error)
    <3>1. PICK s1 \in Nat : s1 = -t /\ 1 <= s1 /\ s1 <= s + 1
      <4>1. -t \in Nat /\ 1 <= -t
        BY <2>6
      <4>2. QED
        BY <2>2, <4>1
    <3>2. PICK e \in Int : e = -error /\ e > 0
      BY <2>4
    <3>3. Pushed(g, s1, NextIntegral(g, ts, -pid.integral, -pid.error, e),
                 NextOutput(g, ts, NextIntegral(g, ts, -pid.integral, -pid.error, e),
                            -pid.output, e), e)
      BY <1>4, <1>8, <2>3, <2>4, <3>1, <3>2, Push
    <3>4. QED
      BY <2>5, <3>1, <3>2, <3>3
  <2>7. QED
    BY <1>3, <1>4, <1>10, <2>1, <2>6
<1>15. CASE error = 0
  BY <1>11, <1>15 DEF Streak
<1>16. QED
  BY <1>13, <1>14, <1>15

(***************************************************************************)
(* Every step keeps WindupInv: what is initialised anew starts a run.      *)
(***************************************************************************)
LEMMA WindupStep == IInv /\ WindupInv /\ [Next]_vars => WindupInv'
<1> SUFFICES ASSUME IInv, WindupInv, [Next]_vars PROVE WindupInv'
  OBVIOUS
<1>1. ASSUME streak' = 0 PROVE WindupInv'
  BY <1>1 DEF WindupInv
<1>2. ASSUME UNCHANGED <<controllers, pid, streak>> PROVE WindupInv'
  BY <1>2 DEF WindupInv, PidGains
<1>3. CASE UNCHANGED vars
  BY <1>2, <1>3 DEF vars, memory, control
<1>4. CASE motor_params_reset
  <2>1. CASE k = PidWord
    BY <1>1, <1>4, <2>1 DEF motor_params_reset
  <2>2. CASE k # PidWord
    <3>1. UNCHANGED <<pid, streak>> /\ PidGains' = PidGains
      <4>1. PidWord \in Index /\ controllers \in Image
        BY StoreAssumption DEF Index, IInv, TypeOK
      <4>2. QED
        BY <1>4, <2>2, <4>1 DEF motor_params_reset, PidGains, Image
    <3>2. QED
      BY <3>1 DEF WindupInv
  <2>3. QED
    BY <2>1, <2>2
<1>5. ASSUME NEW velocity \in Velocities, NEW ms \in Elapsed, motor_step(velocity, ms)
      PROVE  WindupInv'
  BY <1>5, WindupMotor
<1>6. CASE Crash
  BY <1>1, <1>6 DEF Crash
<1>7. CASE \/ Register \/ event_run \/ SetParams \/ motor_init_params_cb
           \/ motor_flash_params_cb \/ Unpack \/ Stop \/ motor_set_control_type
           \/ RestoreState \/ Erase \/ Program
  <2>1. UNCHANGED <<controllers, pid, streak>>
    BY <1>7 DEF Register, event_run, SetParams, motor_init_params_cb,
       motor_flash_params_cb, Unpack, Stop, motor_set_control_type, RestoreState, Erase,
       Program, memory, control
  <2>2. QED
    BY <1>2, <2>1
<1>8. QED
  BY <1>3, <1>4, <1>5, <1>6, <1>7 DEF Next, Command

(***************************************************************************)
(* After Patience steps a full output has been worn down as well.          *)
(***************************************************************************)
LEMMA PatienceIsEnough ==
  ASSUME NEW g, Integrating(g), NEW s \in Int, s >= Patience(g),
         NEW integral \in Int, NEW output \in Int, NEW error \in Int,
         s > 0 => Pushed(g, s, integral, output, error)
  PROVE  output > 0
<1>1. g.limit \in Nat /\ g.limit > 0 /\ g.ramp \in Nat
  BY DEF Integrating, GainRecord
<1>2. PICK n \in Nat : n = FullRun(g) /\ n >= 2
  BY FullRunIs
<1>3. Patience(g) = n + (IF g.ramp > 0 THEN g.limit \div g.ramp + 1 ELSE 0)
  BY <1>2 DEF Patience, FullRun
<1>4. CASE g.ramp = 0
  <2>1. Patience(g) = n
    BY <1>2, <1>3, <1>4
  <2>2. QED
    BY <1>1, <1>2, <1>4, <2>1 DEF Pushed
<1>5. CASE g.ramp > 0
  <2>1. PICK q \in Nat : q = g.limit \div g.ramp /\ g.ramp * (q + 1) > g.limit
    <3>1. g.ramp \in Nat \ {0}
      BY <1>1, <1>5
    <3>2. g.limit \div g.ramp \in Nat /\ g.ramp * (g.limit \div g.ramp + 1) > g.limit
      BY <1>1, <3>1, RoundedUp
    <3>3. QED
      BY <3>2
  <2>2. s >= n + q + 1
    BY <1>2, <1>3, <1>5, <2>1
  <2>3. output > 0 \/ output >= g.ramp * (s - n + 1) - g.limit
    BY <1>2, <2>1, <2>2 DEF Pushed
  <2>4. g.ramp * (q + 1) <= g.ramp * (s - n + 1)
    BY <1>1, <1>2, <2>1, <2>2, ProductOrder
  <2>5. PICK z \in Int : z = g.ramp * (s - n + 1)
    BY <1>1, <1>2
  <2>6. PICK z0 \in Int : z0 = g.ramp * (q + 1)
    BY <1>1, <2>1
  <2>7. QED
    BY <1>1, <2>1, <2>3, <2>4, <2>5, <2>6
<1>6. QED
  BY <1>1, <1>4, <1>5

(***************************************************************************)
(* No windup: once the error has kept its sign for as many steps as a full *)
(* integral and a full output take to be worn down, the output has that    *)
(* sign, for every gain, limit and ramp, every timing of the motor loop    *)
(* and whatever drove the PID before.                                      *)
(***************************************************************************)
THEOREM SpecFollowsError == Spec => []FollowsError
<1>1. Init => WindupInv
  BY DEF Init, WindupInv
<1>2. IInv /\ WindupInv => FollowsError
  <2> SUFFICES ASSUME IInv, WindupInv, pid.number,
                      PidGains.p > 0, PidGains.i > 0, PidGains.d = 0, PidGains.limit > 0
               PROVE  /\ streak >= Patience(PidGains) => pid.output > 0
                      /\ streak <= -Patience(PidGains) => pid.output < 0
    BY DEF FollowsError
  <2>1. PidWord \in Index /\ controllers \in Image
    BY StoreAssumption DEF Index, IInv, TypeOK
  <2>2. PidGains \in GainRecord
    BY <2>1, GainsOfWord DEF PidGains, Image
  <2>3. PICK g : g = PidGains /\ Integrating(g)
    BY <2>2 DEF Integrating
  <2>4. streak \in Int /\ pid.integral \in Int /\ pid.output \in Int /\ pid.error \in Int
    BY DEF IInv, TypeOK
  <2>5. /\ streak > 0 => Pushed(g, streak, pid.integral, pid.output, pid.error)
        /\ streak < 0 => Pushed(g, -streak, -pid.integral, -pid.output, -pid.error)
    BY <2>3 DEF WindupInv
  <2>6. streak >= Patience(g) => pid.output > 0
    BY <2>3, <2>4, <2>5, PatienceIsEnough
  <2>7. ASSUME streak <= -Patience(g) PROVE pid.output < 0
    <3>1. PICK n \in Nat : n = FullRun(g)
      BY <2>3, FullRunIs
    <3>2. Patience(g) \in Int
      <4>1. g.limit \in Nat /\ g.ramp \in Nat
        BY <2>2, <2>3 DEF GainRecord
      <4>2. g.ramp > 0 => g.limit \div g.ramp \in Nat
        BY <4>1, RoundedUp
      <4>3. QED
        BY <3>1, <4>1, <4>2 DEF Patience, FullRun
    <3>3. PICK s \in Int : s = -streak /\ s >= Patience(g) /\ (s > 0 => streak < 0)
      BY <2>4, <2>7, <3>2
    <3>4. PICK output \in Int : output = -pid.output
      BY <2>4
    <3>5. -pid.integral \in Int /\ -pid.error \in Int
      BY <2>4
    <3>6. s > 0 => Pushed(g, s, -pid.integral, output, -pid.error)
      BY <2>5, <3>3, <3>4
    <3>7. output > 0
      BY <2>3, <3>3, <3>5, <3>6, PatienceIsEnough
    <3>8. QED
      BY <2>4, <3>4, <3>7
  <2>8. QED
    BY <2>3, <2>6, <2>7
<1>3. QED
  BY <1>1, <1>2, WindupStep, SpecIInv, PTL DEF Spec
===============================================================================
