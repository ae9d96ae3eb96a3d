------------------------------- MODULE Timer -------------------------------
(***************************************************************************)
(* Delays by the time stamp counter (kernel/timer.c).  rdtsc returns 32    *)
(* bits of it: in 64-bit code its constraint stands for one register.      *)
(* The counter is only kept while something looks at it; what it is at the *)
(* start of a delay is anything.                                           *)
(***************************************************************************)
EXTENDS Integers

CONSTANTS
    TscMod,         \* 2^32
    Huge            \* a difference below zero, in 64 bits

ASSUME TimerAssumption == TscMod \in Nat \ {0, 1} /\ Huge \in Nat /\ Huge >= 2 * TscMod

VARIABLES
    cpuHz,          \* cpu_hz, in counts per delay
    tsc,
    timeout,        \* of the delay that is running
    delaying

timerVars == <<cpuHz, tsc, timeout, delaying>>

TimerInit ==
    /\ cpuHz = 0
    /\ tsc = 0
    /\ timeout = 0
    /\ delaying = FALSE

\* setup_timer: the counts while the interval timer runs down, which may
\* wrap around.
Calibrate ==
    /\ \E start, end \in 0 .. TscMod - 1 :
          /\ start # end
          /\ cpuHz' = IF start < end THEN end - start ELSE Huge
    /\ UNCHANGED <<tsc, timeout, delaying>>

Delay ==
    /\ delaying' = TRUE
    /\ tsc' \in 0 .. TscMod - 1
    /\ timeout' = tsc' + cpuHz
    /\ cpuHz' = cpuHz

TscStep ==
    /\ delaying
    /\ tsc' = (tsc + 1) % TscMod
    /\ UNCHANGED <<cpuHz, timeout, delaying>>

\* A look at the counter: the delay is over before its time has come.
DelayEnd ==
    /\ delaying
    /\ tsc < timeout
    /\ delaying' = FALSE
    /\ tsc' = 0 /\ timeout' = 0 /\ cpuHz' = cpuHz
=============================================================================
