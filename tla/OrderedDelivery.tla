--------------------------- MODULE OrderedDelivery ---------------------------
(***************************************************************************)
(* What the frame pipeline promises its caller: items are taken one at a   *)
(* time and handed on in the order they were taken, never more than Window *)
(* behind; the run completes only when everything was handed on, and it    *)
(* ends.                                                                   *)
(***************************************************************************)
EXTENDS Integers, Sequences

CONSTANTS Window, Items

VARIABLES given, handed, outcome

dvars == <<given, handed, outcome>>

DInit == given = <<>> /\ handed = <<>> /\ outcome = "running"

Give ==
  /\ outcome = "running"
  /\ Len(given) - Len(handed) < Window
  /\ \E s \in Items : given' = Append(given, s)
  /\ UNCHANGED <<handed, outcome>>

Hand ==
  /\ outcome = "running"
  /\ Len(handed) < Len(given)
  /\ handed' = Append(handed, given[Len(handed) + 1])
  /\ UNCHANGED <<given, outcome>>

Complete ==
  /\ outcome = "running" /\ outcome' = "complete"
  /\ handed = given
  /\ UNCHANGED <<given, handed>>

Break ==
  /\ outcome = "running" /\ outcome' = "failed"
  /\ UNCHANGED <<given, handed>>

DNext == Give \/ Hand \/ Complete \/ Break

DSafety == DInit /\ [][DNext]_dvars

DSpec == DSafety /\ WF_dvars(Complete \/ Break)
=============================================================================
