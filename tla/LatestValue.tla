----------------------------- MODULE LatestValue ----------------------------
(***************************************************************************)
(* What a state channel promises: an atomic register.  There is one current *)
(* value, each newer than the one before.  A reader's call takes a sample  *)
(* of it, in one instant, and hands out that sample, or all but its        *)
(* payload; or it finds the register empty; or, having sampled, it gives   *)
(* up and samples again.                                                   *)
(***************************************************************************)
EXTENDS Integers

CONSTANTS
  Readers,
  Values,
  NoValue,        \* what the register holds before the first value
  Stamp(_),       \* the age of a value
  InfoOnly(_)     \* a value without its payload

VARIABLES
  current,        \* the value of the register
  phase,          \* per reader: "idle", "called" or "sampled"
  sampled,        \* the sample of its present call
  got             \* what it was last handed

vars == <<current, phase, sampled, got>>

Init ==
  /\ current = NoValue
  /\ phase = [r \in Readers |-> "idle"]
  /\ sampled = [r \in Readers |-> NoValue]
  /\ got = [r \in Readers |-> NoValue]

Publish ==
  /\ current' \in Values
  /\ Stamp(current') > Stamp(current)
  /\ UNCHANGED <<phase, sampled, got>>

Call(r) ==
  /\ phase[r] = "idle"
  /\ phase' = [phase EXCEPT ![r] = "called"]
  /\ UNCHANGED <<current, sampled, got>>

Sample(r) ==
  /\ phase[r] = "called"
  /\ current # NoValue
  /\ phase' = [phase EXCEPT ![r] = "sampled"]
  /\ sampled' = [sampled EXCEPT ![r] = current]
  /\ UNCHANGED <<current, got>>

\* The sample is dropped, and r goes on in phase p.
Finish(r, p) ==
  /\ phase' = [phase EXCEPT ![r] = p]
  /\ sampled' = [sampled EXCEPT ![r] = NoValue]
  /\ UNCHANGED current

Empty(r) == /\ phase[r] = "called" /\ current = NoValue
            /\ Finish(r, "idle") /\ UNCHANGED got

Again(r) == phase[r] = "sampled" /\ Finish(r, "called") /\ UNCHANGED got

GiveUp(r) == phase[r] = "sampled" /\ Finish(r, "idle") /\ UNCHANGED got

HandOut(r) ==
  /\ phase[r] = "sampled"
  /\ \/ got' = [got EXCEPT ![r] = sampled[r]]
     \/ got' = [got EXCEPT ![r] = InfoOnly(sampled[r])]
  /\ Finish(r, "idle")

Next ==
  \/ Publish
  \/ \E r \in Readers :
       Call(r) \/ Sample(r) \/ Empty(r) \/ Again(r) \/ GiveUp(r) \/ HandOut(r)

Spec == Init /\ [][Next]_vars
=============================================================================
