---------------------------- MODULE Coordinator ----------------------------
(***************************************************************************)
(* MultiDomainRunner.step of sim/endpoints/helpers.py: the phases that     *)
(* bracket a rising edge.  EndpointCoordinator is the case of one domain.  *)
(* A module that composes endpoints conjoins their handlers to the phases. *)
(***************************************************************************)
EXTENDS Naturals

CONSTANT Domains          \* one clock each

VARIABLES
    phase,                \* where step() is; "idle" between calls
    clk,                  \* [Domains -> 0..1]
    risen                 \* last_risen

coordination == <<phase, clk, risen>>

CoordinatorInit ==
    /\ phase = "idle"
    /\ clk = [d \in Domains |-> 0]
    /\ risen = {}

\* tick_pre() on every domain.
TickPrePhase ==
    /\ phase = "idle" /\ phase' = "settle"
    /\ UNCHANGED <<clk, risen>>

\* sim.settle().
SettlePhase ==
    /\ phase = "settle" /\ phase' = "sample"
    /\ UNCHANGED <<clk, risen>>

\* sample_pre() on every domain.
SamplePrePhase ==
    /\ phase = "sample" /\ phase' = "advance"
    /\ UNCHANGED <<clk, risen>>

\* One run_step(): the clocks of toggled change level together.
Rising(toggled) == {d \in toggled : clk[d] = 0}
ClockLevels(toggled) == [d \in Domains |-> IF d \in toggled THEN 1 - clk[d] ELSE clk[d]]
RunStepPhase(toggled) ==
    /\ phase = "advance" /\ toggled # {}
    /\ clk' = ClockLevels(toggled)
    /\ phase' = IF Rising(toggled) = {} THEN "advance" ELSE "post"
    /\ risen' = Rising(toggled)

\* run_step() returns False, no event being left, and step() gives up.
StopPhase ==
    /\ phase = "advance" /\ phase' = "idle"
    /\ risen' = {} /\ UNCHANGED clk

\* tick_post() on the domains whose clock rose.
TickPostPhase ==
    /\ phase = "post" /\ phase' = "idle"
    /\ UNCHANGED <<clk, risen>>

CoordinatorOK ==
    /\ phase \in {"idle", "settle", "sample", "advance", "post"}
    /\ clk \in [Domains -> 0 .. 1]
    /\ risen \in SUBSET Domains
=============================================================================
