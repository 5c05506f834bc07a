---------------------------- MODULE AdminClicks ----------------------------
\* What bounds the behaviours of the administration's pages.
EXTENDS Naturals
CONSTANTS MaxClicks, MaxFaults
ASSUME ClicksAssumption == {MaxClicks, MaxFaults} \subseteq Nat
VARIABLES
  clicks,  \* bound: clicks that make a call or change the page
  faults   \* bound: calls that fail
ClicksTypeOK == clicks \in 0..MaxClicks /\ faults \in 0..MaxFaults
Click == clicks < MaxClicks /\ clicks' = clicks + 1 /\ UNCHANGED faults
Fault == faults < MaxFaults /\ faults' = faults + 1 /\ UNCHANGED clicks
Neither == UNCHANGED <<clicks, faults>>
=============================================================================
