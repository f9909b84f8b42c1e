----------------------------- MODULE HiLoDetect -----------------------------
(***************************************************************************)
(* transitionHiLoDetect of issp.c: the poll every operation on the target  *)
(* ends with.  It waits for the chip to raise SDATA, then for the chip to  *)
(* lower it; each of the two loops counts its own timer down and gives up  *)
(* when it finds it at zero.  The chip drives the pin when it likes.       *)
(***************************************************************************)
EXTENDS Integers

CONSTANTS
  TransitionTimeout,   \* TRANSITION_TIMEOUT: iterations that last about 100 ms
  TimerModulus         \* 2^32 for the uint32_t timer

ASSUME TimerAssumption ==
  TransitionTimeout \in Nat /\ TimerModulus \in Nat /\ TransitionTimeout < TimerModulus

VARIABLES
  sdata,    \* the level of the pin
  loop,     \* the loop the function is in, or what it returned
  timer,
  reads     \* history: how often the pin was read

detectVars == <<sdata, loop, timer, reads>>

Loops   == {"awaitHigh", "awaitLow"}
Results == {"detected", "timeout"}

\* A bound on the history, beyond anything the function reaches.
MaxReads == 3 * (TransitionTimeout + 1)

DetectInit ==
  /\ sdata \in {0, 1}
  /\ loop = "awaitHigh"
  /\ timer = TransitionTimeout
  /\ reads = 0

\* The target, or the pull of an undriven line, changes the level.
TargetDrives == sdata' = 1 - sdata /\ UNCHANGED <<loop, timer, reads>>

CountRead == reads' = IF reads < MaxReads THEN reads + 1 ELSE reads

\* Mutants of the next definition, for the tests of the properties.
TickOrTimeout_Signed ==
  /\ timer' = timer - 1
  /\ loop' = IF timer = 0 THEN "timeout" ELSE loop

TickOrTimeout_AfterWrap ==
  /\ timer' = (timer - 1) % TimerModulus
  /\ loop' = IF timer > TransitionTimeout THEN "timeout" ELSE loop

TickOrTimeout_Never ==
  /\ timer' = (timer - 1) % TimerModulus
  /\ UNCHANGED loop

\* "timer-- == 0": compared before the decrement, which wraps.
TickOrTimeout ==
  /\ timer' = (timer - 1) % TimerModulus
  /\ loop' = IF timer = 0 THEN "timeout" ELSE loop

\* One pass of the first loop.
AwaitHigh ==
  /\ loop = "awaitHigh"
  /\ \/ sdata = 1 /\ loop' = "awaitLow" /\ timer' = TransitionTimeout
     \/ sdata = 0 /\ TickOrTimeout
  /\ CountRead
  /\ UNCHANGED sdata

\* One pass of the second loop.
AwaitLow ==
  /\ loop = "awaitLow"
  /\ \/ sdata = 0 /\ loop' = "detected" /\ UNCHANGED timer
     \/ sdata = 1 /\ TickOrTimeout
  /\ CountRead
  /\ UNCHANGED sdata

Poll == AwaitHigh \/ AwaitLow

DetectNext == TargetDrives \/ Poll

DetectSpec == DetectInit /\ [][DetectNext]_detectVars

\* The main thread never sleeps inside the poll; nothing is asked of the target.
FairDetectSpec == DetectSpec /\ WF_detectVars(Poll)

-----------------------------------------------------------------------------
DetectTypeOK ==
  /\ sdata \in {0, 1}
  /\ loop \in Loops \cup Results
  /\ timer \in 0..(TimerModulus - 1)
  /\ reads \in 0..MaxReads

\* Whatever the chip does with SDATA, the function returns after at most twice the
\* budget of one loop: the main thread is never held longer by one poll.
WaitBounded == reads <= 2 * (TransitionTimeout + 1)

\* It always returns, also on a line that is stuck or that toggles for ever: the timer
\* is found at zero before it can wrap.
Returns == <>(loop \in Results)

\* The comment at the head of the function: it gives up "if the wait in the two loops
\* totals more than 100 msec".  One budget, and the last read of each loop.
TotalWithinOneBudget == reads <= TransitionTimeout + 2
=============================================================================
