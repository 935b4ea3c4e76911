---------------------------------- MODULE Pid ----------------------------------
(***************************************************************************)
(* The PID controller (pid.c) and the low-pass filter (lowpass_filter.c)   *)
(* of a control loop, as functions of their state, their parameters, the   *)
(* input and the milliseconds since the call before.  ParamStore runs them.*)
(*                                                                         *)
(* Numbers are integers and quotients are rounded down; i stands for half  *)
(* the integral gain.  NaN is kept apart: the flag of a state says whether *)
(* its fields are numbers, and the flag of the parameters whether they are,*)
(* which those of an erased flash page are not.                            *)
(***************************************************************************)
EXTENDS Integers

_constrain(amt, low, high) ==
  IF amt < low THEN low ELSE IF amt > high THEN high ELSE amt

NotANumber == [number |-> FALSE, integral |-> 0, output |-> 0, error |-> 0]
-------------------------------------------------------------------------------
\* The tick difference is 64 bits unsigned: a wrapped tick is a long time.
Seconds(ms) == IF ms = 0 \/ ms > 500 THEN 1 ELSE ms

pid_init == [number |-> TRUE, integral |-> 0, output |-> 0, error |-> 0]

UnclippedIntegralMutant(self, g, error, ms) ==
  LET ts == Seconds(ms)
      integral == self.integral + g.i * ts * (error + self.error)
      derivative == (g.d * (error - self.error)) \div ts
      output == _constrain(g.p * error + integral + derivative, -g.limit, g.limit)
  IN IF ~(self.number /\ g.number) THEN NotANumber
     ELSE [number |-> TRUE, integral |-> integral, error |-> error,
           output |-> IF g.ramp > 0
                      THEN _constrain(output, self.output - g.ramp * ts,
                                              self.output + g.ramp * ts)
                      ELSE output]

pid_calc(self, g, error, ms) ==
  LET ts == Seconds(ms)
      integral == _constrain(self.integral + g.i * ts * (error + self.error),
                             -g.limit, g.limit)
      derivative == (g.d * (error - self.error)) \div ts
      output == _constrain(g.p * error + integral + derivative, -g.limit, g.limit)
  IN IF ~(self.number /\ g.number) THEN NotANumber
     ELSE [number |-> TRUE, integral |-> integral, error |-> error,
           output |-> IF g.ramp > 0
                      THEN _constrain(output, self.output - g.ramp * ts,
                                              self.output + g.ramp * ts)
                      ELSE output]
-------------------------------------------------------------------------------
lowpass_filter_init == [number |-> TRUE, y |-> 0]

(***************************************************************************)
(* 0 / 0 with no time constant and two calls in one tick.  What is not a   *)
(* number stays so, but for the input that a gap of 300 ms passes through. *)
(***************************************************************************)
lowpass_filter_calc(self, g, x, ms) ==
  CASE ms > 300 -> [number |-> TRUE, y |-> x]
    [] ms <= 300 /\ (~self.number \/ ~g.number \/ g.tf + ms = 0) ->
         [number |-> FALSE, y |-> 0]
    [] OTHER -> [number |-> TRUE, y |-> (g.tf * self.y + ms * x) \div (g.tf + ms)]
===============================================================================
