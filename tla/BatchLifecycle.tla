--------------------------- MODULE BatchLifecycle ---------------------------
(***************************************************************************)
(* What the server promises about a telemetry batch, without workers, row   *)
(* locks or retry counters.  An accepted batch stays pending until its      *)
(* samples are stored or it is set aside; a batch set aside can be reopened *)
(* MaxReprocess times, and waits for its payload each time; after that      *)
(* setting it aside is final.  The payload stored is the one accepted.      *)
(***************************************************************************)
EXTENDS Naturals

CONSTANTS Batches, Digests, NoDigest, MaxReprocess

VARIABLES phase, accepted, stored, reopened

lifecycleVars == <<phase, accepted, stored, reopened>>

Phase == {"absent", "pending", "stored", "parked", "awaiting", "exhausted"}

LifecycleTypeOK ==
  /\ phase    \in [Batches -> Phase]
  /\ accepted \in [Batches -> Digests \cup {NoDigest}]
  /\ stored   \in [Batches -> SUBSET Digests]
  /\ reopened \in [Batches -> 0..MaxReprocess]

Init ==
  /\ phase    = [b \in Batches |-> "absent"]
  /\ accepted = [b \in Batches |-> NoDigest]
  /\ stored   = [b \in Batches |-> {}]
  /\ reopened = [b \in Batches |-> 0]

Move(b, from, to) == phase[b] = from /\ phase' = [phase EXCEPT ![b] = to]

Accept(b, d) ==
  /\ Move(b, "absent", "pending")
  /\ accepted' = [accepted EXCEPT ![b] = d]
  /\ UNCHANGED <<stored, reopened>>

Store(b) ==
  /\ Move(b, "pending", "stored")
  /\ stored' = [stored EXCEPT ![b] = {accepted[b]}]
  /\ UNCHANGED <<accepted, reopened>>

Park(b) ==
  /\ reopened[b] < MaxReprocess
  /\ Move(b, "pending", "parked")
  /\ UNCHANGED <<accepted, stored, reopened>>

Exhaust(b) ==
  /\ reopened[b] = MaxReprocess
  /\ Move(b, "pending", "exhausted")
  /\ UNCHANGED <<accepted, stored, reopened>>

Reopen(b) ==
  /\ Move(b, "parked", "awaiting")
  /\ reopened' = [reopened EXCEPT ![b] = @ + 1]
  /\ UNCHANGED <<accepted, stored>>

Resume(b) ==
  /\ Move(b, "awaiting", "pending")
  /\ UNCHANGED <<accepted, stored, reopened>>

Finish(b) == Store(b) \/ Park(b) \/ Exhaust(b)

Next == \E b \in Batches : \/ \E d \in Digests : Accept(b, d)
                           \/ Finish(b) \/ Reopen(b) \/ Resume(b)

Spec == Init /\ [][Next]_lifecycleVars

\* A pending batch does not stay pending for ever.
FairSpec == Spec /\ \A b \in Batches : WF_lifecycleVars(Finish(b))
=============================================================================
