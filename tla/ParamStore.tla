------------------------------ MODULE ParamStore ------------------------------
(***************************************************************************)
(* Motor parameters (motor_params.c, event_callbacks/, protocol_motor.c):  *)
(* global_motor_params in RAM, the copy in the last flash page, and the    *)
(* controllers that are initialised from them and run the motor.  After a  *)
(* start has filled the command table the event task runs one command of   *)
(* the host at a time; a reset or a power loss may come between any two    *)
(* steps, and the HAL may report a flash error.                            *)
(*                                                                         *)
(* The motor loop of the application is not in the repository: it steps    *)
(* the motor with its controllers while info.state is 1, and may do so     *)
(* between any two steps of a command.  motor_step runs the filter of the  *)
(* shaft velocity and its PID here (VELOCITY without PLL, target 0); the   *)
(* controllers of the other modes are the same functions.                  *)
(*                                                                         *)
(* A parameter set is an image of Words doublewords.  A doubleword is      *)
(* known by the set it comes from; the first one holds info.state and      *)
(* mode, the others the gains: PidWord those of the PID, FilterWord the    *)
(* time constant of its filter.                                            *)
(***************************************************************************)
EXTENDS EventTable, Pid

CONSTANTS Words,      \* doublewords of an image, 14 in the code
          PidWord, FilterWord,
          Sets,       \* the parameter sets the host sends
          Working,    \* those of them with info.state = 1
          Gains,      \* and what their doublewords hold
          Zero,       \* the set of the memset in motor_init_params_cb
          Erased,     \* a doubleword of an erased flash page
          Firmwares,  \* the registrations of an application, in order
          Velocities, \* of the shaft
          Elapsed,    \* milliseconds between two motor steps
          MaxStreak   \* bound on streak

ASSUME StoreAssumption ==
  /\ Words \in Nat \ {0}
  /\ PidWord \in 2 .. Words /\ FilterWord \in PidWord + 1 .. Words
  /\ Working \subseteq Sets
  /\ Zero \notin Sets /\ Erased \notin Sets \union {Zero}
  /\ Gains \in [Sets -> [number : {TRUE}, p : Nat, i : Nat, d : Nat,
                         ramp : Nat, limit : Nat, tf : Nat]]
  /\ Velocities \subseteq Int /\ Elapsed \subseteq Nat
  /\ MaxStreak \in Nat
  /\ \A f \in Firmwares : f \in Seq([code : Codes, callback : Callbacks])

VARIABLES firmware,      \* which application it is
          flash,         \* the parameter page
          params,        \* global_motor_params but for info.state
          state,         \* global_motor_params.info.state
          controllers,   \* the image the PIDs and filters were initialised from
          control_type,  \* the set motor.control_type comes from
          pid, filter,   \* the state of a PID and a filter
          pc, k,         \* the event task: its place in a command, next word
          incoming,      \* the image unpacked from the frame in progress
          saved_state,   \* the local variable of motor_set_params_cb
          reported,      \* image of the last motor_params_save that returned 0,
                         \* while no later one has begun
          streak         \* history: steps in a row with an error of one sign

control == <<pid, filter, streak>>
memory == <<params, state, controllers, control_type>>
locals == <<incoming, saved_state>>
vars == <<flash, memory, control, pc, k, locals, reported, table, firmware>>

Index == 1 .. Words
Word == Sets \union {Zero, Erased}
Image == [Index -> Word]

Uniform(s) == [i \in Index |-> s]
None == Uniform(Erased)

\* What a doubleword means to a PID and a filter: all ones are not a number.
GainsOf(word) ==
  IF word \in Sets THEN Gains[word]
  ELSE [number |-> word = Zero, p |-> 0, i |-> 0, d |-> 0, ramp |-> 0,
        limit |-> 0, tf |-> 0]

\* info.state in the first doubleword of an image.  Of an erased page it is
\* all ones, and the motor loop takes anything but 0 for working.
StateOf(word) == IF word \in Working \union {Erased} THEN 1 ELSE 0

Goto(label) == pc' = label
-------------------------------------------------------------------------------
(***************************************************************************)
(* motor_set_params_cb: unpack the frame over global_motor_params, its     *)
(* info.state first, stop the motor, initialise the controllers from the   *)
(* new gains, reset the motor, and only then restore info.state.  Nothing  *)
(* compares the length of the frame with the image: beyond it the block    *)
(* still has the end of an older frame, or the zeros it started with.      *)
(***************************************************************************)
SetParams ==
  /\ \E s \in Sets, older \in Sets \union {Zero}, length \in 0 .. Words :
       incoming' = [i \in Index |-> IF i <= length THEN s ELSE older]
  /\ state' = StateOf(incoming'[1])
  /\ k' = 1
  /\ Goto("unpack")
  /\ UNCHANGED <<flash, params, controllers, control_type, saved_state, reported,
                 control, table, firmware>>

Unpack ==
  /\ pc = "unpack"
  /\ params' = [params EXCEPT ![k] = incoming[k]]
  /\ k' = IF k < Words THEN k + 1 ELSE 1
  /\ Goto(IF k < Words THEN "unpack" ELSE "stop")
  /\ UNCHANGED <<flash, state, controllers, control_type, locals, reported, control, table, firmware>>

NoStopMutant ==
  /\ pc = "stop"
  /\ saved_state' = state
  /\ Goto("reset")
  /\ UNCHANGED <<flash, memory, k, incoming, reported, control, table, firmware>>

Stop ==
  /\ pc = "stop"
  /\ saved_state' = state
  /\ state' = 0
  /\ Goto("reset")
  /\ UNCHANGED <<flash, params, controllers, control_type, k, incoming, reported,
                 control, table, firmware>>

KeptFilterMutant ==
  /\ pc = "reset"
  /\ controllers' = [controllers EXCEPT ![k] = params[k]]
  /\ IF k = PidWord THEN pid' = pid_init /\ streak' = 0
                    ELSE UNCHANGED <<pid, streak>>
  /\ UNCHANGED filter
  /\ k' = IF k < Words THEN k + 1 ELSE 1
  /\ Goto(IF k < Words THEN "reset" ELSE "set_control_type")
  /\ UNCHANGED <<flash, params, state, control_type, locals, reported, table, firmware>>

KeptOutputMutant ==
  /\ pc = "reset"
  /\ controllers' = [controllers EXCEPT ![k] = params[k]]
  /\ IF k = PidWord THEN pid' = [pid_init EXCEPT !.output = pid.output] /\ streak' = 0
                    ELSE UNCHANGED <<pid, streak>>
  /\ filter' = IF k = FilterWord THEN lowpass_filter_init ELSE filter
  /\ k' = IF k < Words THEN k + 1 ELSE 1
  /\ Goto(IF k < Words THEN "reset" ELSE "set_control_type")
  /\ UNCHANGED <<flash, params, state, control_type, locals, reported, table, firmware>>

motor_params_reset ==
  /\ pc = "reset"
  /\ controllers' = [controllers EXCEPT ![k] = params[k]]
  /\ IF k = PidWord THEN pid' = pid_init /\ streak' = 0
                    ELSE UNCHANGED <<pid, streak>>
  /\ filter' = IF k = FilterWord THEN lowpass_filter_init ELSE filter
  /\ k' = IF k < Words THEN k + 1 ELSE 1
  /\ Goto(IF k < Words THEN "reset" ELSE "set_control_type")
  /\ UNCHANGED <<flash, params, state, control_type, locals, reported, table, firmware>>

SkipControlTypeMutant ==
  /\ pc = "set_control_type"
  /\ Goto("restore")
  /\ UNCHANGED <<flash, memory, k, locals, reported, control, table, firmware>>

motor_set_control_type ==
  /\ pc = "set_control_type"
  /\ control_type' = params[1]
  /\ Goto("restore")
  /\ UNCHANGED <<flash, params, state, controllers, k, locals, reported, control, table, firmware>>

RestoreState ==
  /\ pc = "restore"
  /\ state' = saved_state
  /\ Goto("idle")
  /\ incoming' = Uniform(Zero) /\ saved_state' = 0 \* dead from here
  /\ UNCHANGED <<flash, params, controllers, control_type, k, reported, control, table, firmware>>
-------------------------------------------------------------------------------
(***************************************************************************)
(* motor_init_params_cb clears the parameters in RAM and saves them; the   *)
(* controllers keep the gains they have.  motor_flash_params_cb saves.     *)
(***************************************************************************)
motor_init_params_cb ==
  /\ params' = Uniform(Zero)
  /\ state' = 0
  /\ Goto("erase")
  /\ UNCHANGED <<flash, controllers, control_type, k, locals, reported, control, table, firmware>>

motor_flash_params_cb ==
  /\ Goto("erase")
  /\ UNCHANGED <<flash, memory, k, locals, reported, control, table, firmware>>

(***************************************************************************)
(* motor_params_save: erase the page, then program it word by word.  The   *)
(* first error ends it.                                                    *)
(***************************************************************************)
Erase ==
  /\ pc = "erase"
  /\ reported' = None
  /\ k' = 1
  /\ \/ flash' = Uniform(Erased) /\ Goto("program")
     \/ flash' \in {flash, Uniform(Erased)} /\ Goto("idle")
  /\ UNCHANGED <<memory, locals, control, table, firmware>>

ReportEarlyMutant ==
  /\ pc = "program"
  /\ \/ /\ flash' = [flash EXCEPT ![k] = params[k]]
        /\ reported' = params
        /\ IF k < Words THEN k' = k + 1 /\ Goto("program")
                        ELSE k' = 1 /\ Goto("idle")
     \/ UNCHANGED <<flash, reported>> /\ k' = 1 /\ Goto("idle")
  /\ UNCHANGED <<memory, locals, control, table, firmware>>

PastTheEndMutant ==
  /\ pc = "program"
  /\ \/ /\ flash' = [flash EXCEPT ![k] = params[k]]
        /\ k' = k + 1
        /\ \/ k < Words /\ Goto("program") /\ UNCHANGED reported
           \/ k = Words /\ Goto("idle") /\ reported' = params
     \/ UNCHANGED <<flash, reported>> /\ k' = 1 /\ Goto("idle")
  /\ UNCHANGED <<memory, locals, control, table, firmware>>

Program ==
  /\ pc = "program"
  /\ \/ /\ flash' = [flash EXCEPT ![k] = params[k]]
        /\ \/ k < Words /\ k' = k + 1 /\ Goto("program") /\ UNCHANGED reported
           \/ k = Words /\ k' = 1 /\ Goto("idle") /\ reported' = params
     \/ UNCHANGED <<flash, reported>> /\ k' = 1 /\ Goto("idle")
  /\ UNCHANGED <<memory, locals, control, table, firmware>>

(***************************************************************************)
(* The motor loop: motor_shaft_velocity filters the velocity of the shaft, *)
(* and the PID gets what it lacks to the target.                           *)
(***************************************************************************)
Streak(error) ==
  CASE error > 0 -> IF streak < 0 THEN 1 ELSE _constrain(streak + 1, 0, MaxStreak)
    [] error < 0 -> IF streak > 0 THEN -1 ELSE _constrain(streak - 1, -MaxStreak, 0)
    [] OTHER -> 0

motor_step(velocity, ms) ==
  /\ pc # "boot" /\ state = 1
  /\ filter' = lowpass_filter_calc(filter, GainsOf(controllers[FilterWord]),
                                   velocity, ms)
  /\ pid' = IF filter'.number
            THEN pid_calc(pid, GainsOf(controllers[PidWord]), -filter'.y, ms)
            ELSE NotANumber
  /\ streak' = IF pid'.number THEN Streak(pid'.error) ELSE 0
  /\ UNCHANGED <<flash, memory, pc, k, locals, reported, table, firmware>>

(***************************************************************************)
(* A reset anywhere, and the start of the application: motor_params_load,  *)
(* motor_params_reset and motor_init with the loaded mode, event_init, the *)
(* registrations of its commands, and event_run.                           *)
(***************************************************************************)
Crash ==
  /\ params' = flash
  /\ state' = StateOf(flash[1])
  /\ controllers' = flash
  /\ pid' = pid_init /\ filter' = lowpass_filter_init /\ streak' = 0
  /\ control_type' = flash[1]
  /\ incoming' = Uniform(Zero) /\ saved_state' = 0
  /\ event_init
  /\ k' = 1
  /\ Goto("boot")
  /\ UNCHANGED <<flash, reported, firmware>>

Register ==
  /\ pc = "boot" /\ k <= Len(firmware)
  /\ event_register(firmware[k].code, firmware[k].callback)
  /\ k' = k + 1
  /\ UNCHANGED <<flash, memory, control, pc, locals, reported, firmware>>

event_run ==
  /\ pc = "boot" /\ k > Len(firmware)
  /\ Goto("idle")
  /\ k' = 1
  /\ UNCHANGED <<flash, memory, control, locals, reported, table, firmware>>
-------------------------------------------------------------------------------
\* A device with one of the host's sets, or nothing, in flash.
Init ==
  /\ firmware \in Firmwares
  /\ flash \in {Uniform(s) : s \in Word}
  /\ params = flash
  /\ state = StateOf(flash[1])
  /\ controllers = flash
  /\ control_type = flash[1]
  /\ pid = pid_init /\ filter = lowpass_filter_init /\ streak = 0
  /\ pc = "boot"
  /\ k = 1
  /\ incoming = Uniform(Zero)
  /\ saved_state = 0
  /\ reported = None
  /\ TableInit

Command(code) ==
  /\ pc = "idle"
  /\ \/ Dispatched(code) = "motor_set_params_cb" /\ SetParams
     \/ Dispatched(code) = "motor_init_params_cb" /\ motor_init_params_cb
     \/ Dispatched(code) = "motor_flash_params_cb" /\ motor_flash_params_cb

Next == \/ Register
        \/ event_run
        \/ \E code \in Codes : Command(code)
        \/ Unpack
        \/ Stop
        \/ motor_params_reset
        \/ motor_set_control_type
        \/ RestoreState
        \/ Erase
        \/ Program
        \/ \E velocity \in Velocities, ms \in Elapsed : motor_step(velocity, ms)
        \/ Crash

Spec == Init /\ [][Next]_vars
-------------------------------------------------------------------------------
TypeOK ==
  /\ {flash, params, controllers, incoming, reported} \subseteq Image
  /\ {state, saved_state} \subseteq {0, 1}
  /\ control_type \in Word
  /\ pid \in [number : BOOLEAN, integral : Int, output : Int, error : Int]
  /\ filter \in [number : BOOLEAN, y : Int]
  /\ streak \in -MaxStreak .. MaxStreak
  /\ pc \in {"boot", "idle", "unpack", "stop", "reset", "set_control_type",
             "restore", "erase", "program"}
  /\ k \in IF pc = "boot" THEN 1 .. Len(firmware) + 1 ELSE Index
  /\ TableTypeOK
  /\ firmware \in Firmwares

(***************************************************************************)
(* What a save that returned 0 wrote, and "flash params success" told the  *)
(* host, is in flash until another save begins, whatever else is received  *)
(* and wherever the device resets.                                         *)
(***************************************************************************)
ReportedIsInFlash == reported # None => flash = reported

(***************************************************************************)
(* The motor is never stepped with controllers of two images, or with a    *)
(* mode that is not theirs: motor_set_params_cb stops it first.            *)
(***************************************************************************)
StopsWhileResetting ==
  state = 1 => /\ pc \notin {"reset", "set_control_type", "restore"}
               /\ control_type = controllers[1]

(***************************************************************************)
(* Between commands, and after a reset that cut one short, info.state      *)
(* belongs to the set in RAM, and a working motor runs with the parameters *)
(* that motor_load_params_cb would report.                                 *)
(***************************************************************************)
ReportsWhatRuns ==
  pc \in {"boot", "idle"} =>
    /\ state = StateOf(params[1])
    /\ state = 1 => controllers = params /\ control_type = params[1]

\* The gains the PID and the filter were initialised with.
PidGains == GainsOf(controllers[PidWord])
FilterGains == GainsOf(controllers[FilterWord])

(***************************************************************************)
(* The output and the integral keep to the limit of the gains in force,    *)
(* over every change of parameters: the ramp starts from the last output,  *)
(* which must not be one that a larger limit allowed.                      *)
(***************************************************************************)
WithinLimit ==
  pid.number /\ PidGains.number =>
    \A u \in {pid.output, pid.integral} : -PidGains.limit <= u /\ u <= PidGains.limit

(***************************************************************************)
(* With gains that are numbers and a time constant that is not zero the    *)
(* loop computes numbers, whatever an earlier image, an erased page or a   *)
(* filter without time constant has left in it.                            *)
(***************************************************************************)
ResetRestoresNumbers ==
  FilterGains.tf > 0 =>
    /\ filter.number
    /\ PidGains.number => pid.number

\* Steps in which a full integral and a full output are worn down.
Patience(g) == 2 + (g.limit - 1) \div (2 * g.i)
                 + (IF g.ramp > 0 THEN g.limit \div g.ramp + 1 ELSE 0)

(***************************************************************************)
(* No windup: after Patience steps with an error of one sign the output    *)
(* has that sign, for however long it was driven the other way before.     *)
(***************************************************************************)
FollowsError ==
  LET g == PidGains
  IN pid.number /\ g.p > 0 /\ g.i > 0 /\ g.d = 0 /\ g.limit > 0 =>
       /\ streak >= Patience(g) => pid.output > 0
       /\ streak <= -Patience(g) => pid.output < 0
===============================================================================
