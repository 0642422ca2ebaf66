---------------------------- MODULE MCScheduler ----------------------------
(* Instances of Scheduler for TLC.                                         *)
EXTENDS Scheduler, TLC

CONSTANTS r1, r2, r3, k1, k2, k3, c1, c2, c3, f

\* Requests with names of their own, a third one that uses the name of the first
\* again, and requests that have one name, one after the other.
OwnKeys == r1 :> k1 @@ r2 :> k2 @@ r3 :> k3
ReusedKey == r1 :> k1 @@ r2 :> k2 @@ r3 :> k1
OneKey == [r \in Requests |-> k1]

\* Cluster names: one per key, and the first cluster for unlimited sharing.
NamedAfterKey ==
  [x \in Purposes \X Keys |-> IF x[2] = k1 THEN c1 ELSE IF x[2] = k2 THEN c2 ELSE c3]
NamedAfterTemplate == [p \in Purposes |-> c1]

Exclusive ==
  [tenancy |-> "Exclusive", tenancyCount |-> 0, purposes |-> {},
   generateName |-> FALSE, deletable |-> TRUE]
Pair == [Exclusive EXCEPT !.tenancy = "Shared", !.tenancyCount = 2]
Unlimited == [Exclusive EXCEPT !.tenancy = "Shared"]

PairOnly == "pair" :> Pair
ExclusiveOnly == "exclusive" :> Exclusive
ExclusiveAndUnlimited == "exclusive" :> Exclusive @@ "unlimited" :> Unlimited

AllPair == [r \in Requests |-> "pair"]
AllExclusive == [r \in Requests |-> "exclusive"]
UnlimitedThenExclusive == r1 :> "unlimited" @@ r2 :> "exclusive"
=============================================================================
