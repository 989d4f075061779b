------------------------------- MODULE Budget -------------------------------
(* The bound the composed components share.  Everything that comes from      *)
(* outside - a request, an event, a timer's run, a fault - spends one unit;  *)
(* the steps of what has been started are free.  A bound on the sum lets     *)
(* every pair and triple of stimuli meet without multiplying their bounds.   *)
EXTENDS Naturals

CONSTANT MaxStimuli  \* Bound: requests, timer runs and faults in a behaviour

ASSUME BudgetAssumption == MaxStimuli \in Nat

VARIABLE stimuli     \* how many of them there have been

BudgetOK == stimuli \in 0..MaxStimuli

Spend(n) == stimuli + n <= MaxStimuli /\ stimuli' = stimuli + n

=============================================================================
