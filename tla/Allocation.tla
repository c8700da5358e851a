------------------------------ MODULE Allocation ------------------------------
(***************************************************************************)
(* netinsight/optimization/solver.py and kkt.py: the bandwidth of the four *)
(* QoS classes, from the linear program's solver or, when the minima do    *)
(* not fit or the solver gives no optimum, from _fallback_allocation; and  *)
(* the conditions by which KKTVerifier tells an optimum.                   *)
(*                                                                         *)
(* The numbers of the code are floats.  Here they are whole, and an        *)
(* allocation is counted in units of one over the sum of the priorities,   *)
(* in which each share is whole too: the threshold of 0.001 below which    *)
(* the code forgets slack is then no slack.  The callers give four         *)
(* priorities, all positive, and bounds that need not be in order.         *)
(***************************************************************************)
EXTENDS Integers

CONSTANTS MaxPriority, MaxBound, MaxCapacity   (* bounds of the inputs         *)

ASSUME AllocationAssumption == /\ MaxPriority \in Nat \ {0}
                               /\ MaxBound \in Nat
                               /\ MaxCapacity \in Nat

VARIABLES prio, lo, hi, capacity,   (* c_priorities, m_min, M_max, B_capacity  *)
          pc,      (* where solve_allocation is                                *)
          status,  (* the status of its result                                 *)
          alloc,   (* allocations, in units of 1 / Weight                      *)
          slack,   (* the capacity the redistribution has left, likewise       *)
          queue    (* the classes it has not come to                           *)

inputs == <<prio, lo, hi, capacity>>
vars == <<inputs, pc, status, alloc, slack, queue>>

Class == 1..4
Sum(f) == f[1] + f[2] + f[3] + f[4]
Weight == Sum(prio)
Least(a, b) == IF a < b THEN a ELSE b
Most(a, b) == IF a < b THEN b ELSE a

\* Weight times the bounds.
Low == [i \in Class |-> Weight * lo[i]]
High == [i \in Class |-> Weight * hi[i]]
Total == Weight * capacity

Starved == Sum(lo) > capacity

Init == /\ prio \in [Class -> 1..MaxPriority]
        /\ lo \in [Class -> 0..MaxBound]
        /\ hi \in [Class -> 0..MaxBound]
        /\ capacity \in 0..MaxCapacity
        /\ pc = "solve" /\ status = "none"
        /\ alloc = [i \in Class |-> 0]
        /\ slack = 0
        /\ queue = {}

-----------------------------------------------------------------------------
(* The linear program and KKTVerifier.verify, whose tolerance is 0 here.  A *)
(* multiplier belongs to each row of G: the capacity, and each class's      *)
(* minimum and maximum.                                                     *)

Utility(x) == prio[1] * x[1] + prio[2] * x[2] + prio[3] * x[3] + prio[4] * x[4]

PrimalFeasible(x) == /\ \A i \in Class : lo[i] <= x[i] /\ x[i] <= hi[i]
                     /\ Sum(x) <= capacity

DualFeasible(z) == z.sum >= 0 /\ \A i \in Class : z.lower[i] >= 0 /\ z.upper[i] >= 0

ComplementarySlackness(x, z) == /\ z.sum * (Sum(x) - capacity) = 0
                                /\ \A i \in Class : /\ z.lower[i] * (lo[i] - x[i]) = 0
                                                    /\ z.upper[i] * (x[i] - hi[i]) = 0

\* c + G^T z = 0, where c is minus the priorities.
Stationary(z) == \A i \in Class : z.sum - z.lower[i] + z.upper[i] - prio[i] = 0

VerifiedWithoutSlackness(x, z) == PrimalFeasible(x) /\ DualFeasible(z) /\ Stationary(z)

Verified(x, z) == /\ PrimalFeasible(x) /\ DualFeasible(z)
                  /\ ComplementarySlackness(x, z) /\ Stationary(z)

-----------------------------------------------------------------------------
\* The multipliers that go with the one of the capacity: a class pays for the
\* difference to its priority at one of its bounds.
Multipliers(s) == [sum |-> s, lower |-> [i \in Class |-> Most(0, s - prio[i])],
                             upper |-> [i \in Class |-> Most(0, prio[i] - s)]]

\* CVXOPT's "optimal".  The code records what verify finds and reports the solution,
\* clipped to the bounds, whatever that is; assumed is that a solution CVXOPT calls
\* optimal, and its multipliers, meet the four conditions.
Solved == /\ pc = "solve" /\ ~Starved
          /\ \E x \in [Class -> 0..MaxBound], s \in 0..MaxPriority :
               /\ Verified(x, Multipliers(s))
               /\ alloc' = [i \in Class |-> Weight * Most(lo[i], Least(hi[i], x[i]))]
          /\ pc' = "done" /\ status' = "optimal"
          /\ UNCHANGED <<inputs, slack, queue>>

\* The shares of the capacity when it does not cover the minima.
Shares == [i \in Class |-> Least(capacity * prio[i], High[i])]

GuaranteedIgnoringMinima == [i \in Class |-> Least(capacity * prio[i], High[i])]

\* The minima, and of what remains a share up to the maximum.
Guaranteed == [i \in Class |-> Low[i] + Least(prio[i] * (capacity - Sum(lo)),
                                              Most(0, High[i] - Low[i]))]

\* The minima do not fit, or the solver fails or finds no optimum.
FallBack == /\ pc = "solve"
            /\ alloc' = IF Starved THEN Shares ELSE Guaranteed
            /\ slack' = Total - Sum(alloc')
            /\ queue' = Class
            /\ pc' = "redistribute" /\ status' = "fallback"
            /\ UNCHANGED inputs

\* The order of the priorities, equal ones in the order of the list.
Before(i, j) == prio[j] < prio[i] \/ (prio[j] = prio[i] /\ i < j)

NextAscending(i) == /\ i \in queue
                    /\ \A j \in queue \ {i} : prio[i] < prio[j] \/ (prio[j] = prio[i] /\ i < j)

\* The class whose turn it is.
NextOfQueue(i) == /\ i \in queue
                  /\ \A j \in queue \ {i} : Before(i, j)

RedistributeForgetsSlack(i) ==
  /\ pc = "redistribute" /\ slack > 0 /\ NextOfQueue(i)
  /\ alloc' = [alloc EXCEPT ![i] = @ + Least(slack, Most(0, High[i] - @))]
  /\ queue' = queue \ {i}
  /\ UNCHANGED <<inputs, pc, status, slack>>

Redistribute(i) ==
  /\ pc = "redistribute" /\ slack > 0 /\ NextOfQueue(i)
  /\ LET added == Least(slack, Most(0, High[i] - alloc[i])) IN
       /\ alloc' = [alloc EXCEPT ![i] = @ + added]
       /\ slack' = slack - added
  /\ queue' = queue \ {i}
  /\ UNCHANGED <<inputs, pc, status>>

FinishAtOnce == /\ pc = "redistribute" /\ pc' = "done"
                /\ UNCHANGED <<inputs, status, alloc, slack, queue>>

Finish == /\ pc = "redistribute" /\ (slack <= 0 \/ queue = {})
          /\ pc' = "done"
          /\ UNCHANGED <<inputs, status, alloc, slack, queue>>

Next == Solved \/ FallBack \/ (\E i \in Class : Redistribute(i)) \/ Finish

Spec == Init /\ [][Next]_vars
-----------------------------------------------------------------------------
\* The types of the variables.
TypeOK == /\ prio \in [Class -> 1..MaxPriority]
          /\ lo \in [Class -> 0..MaxBound]
          /\ hi \in [Class -> 0..MaxBound]
          /\ capacity \in 0..MaxCapacity
          /\ pc \in {"solve", "redistribute", "done"}
          /\ status \in {"none", "optimal", "fallback"}
          /\ alloc \in [Class -> Nat]
          /\ slack \in Nat
          /\ queue \subseteq Class

\* Whatever the bounds, the classes never get more than there is.
FitsCapacity == Sum(alloc) <= Total

\* When the minima fit, every class keeps its minimum; and no class gets more than
\* its maximum, unless its minimum already is more.
BoundsKept == pc = "done" =>
                \A i \in Class : /\ ~Starved => alloc[i] >= Low[i]
                                 /\ alloc[i] <= High[i] \/ alloc[i] = Low[i]

\* No capacity is left over while a class is below its maximum.
WorkConserving == pc = "done" => Sum(alloc) = Total \/ \A i \in Class : alloc[i] >= High[i]

\* When the minima do not fit, a class gets at least as much as any that comes after
\* it by priority, unless it has its maximum.
PriorityRespected ==
  pc = "done" /\ Starved =>
    \A i, j \in Class : Before(i, j) => alloc[i] >= alloc[j] \/ alloc[i] = High[i]

\* An allocation reported as optimal, with KKT conditions that hold, is: none that keeps
\* the bounds and the capacity has a greater utility.
SolutionBest ==
  pc = "done" /\ status = "optimal" =>
    \A y \in [Class -> 0..MaxBound] : PrimalFeasible(y) => Weight * Utility(y) <= Utility(alloc)

-----------------------------------------------------------------------------
(* The inductive invariant behind all of them.                              *)

\* What holds of the shares from their computation on.
SharesInv == /\ \A i \in Class : /\ ~Starved => alloc[i] >= Low[i]
                                 /\ alloc[i] <= High[i] \/ (~Starved /\ alloc[i] = Low[i])
             /\ Starved => \A i, j \in Class : Before(i, j) => alloc[i] >= alloc[j] \/ alloc[i] = High[i]

\* As long as there is slack, the classes it has come to have their maximum.
SlackInv == /\ slack = Total - Sum(alloc)
            /\ slack > 0 => \A i \in Class \ queue : alloc[i] >= High[i]

AInv == /\ TypeOK
        /\ pc = "solve" => \A i \in Class : alloc[i] = 0
        /\ pc # "solve" => SharesInv
        /\ pc = "redistribute" => SlackInv
        /\ pc = "done" => FitsCapacity /\ WorkConserving /\ SolutionBest
        /\ pc = "redistribute" => status = "fallback"
=============================================================================
