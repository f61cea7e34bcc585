---------------------------- MODULE EditTimeline ----------------------------
(***************************************************************************)
(* What committed native input promises its author                         *)
(* (crates/fmn-studio/src/native): the inputs kept form one timeline, in   *)
(* frame order.  A commit at a frame abandons the inputs of later frames   *)
(* and adds its own after those already there; a batch commits as a whole. *)
(* Every version on record can be reopened, as it was; a commit replaces   *)
(* the versions after the one that is open.                                *)
(***************************************************************************)
EXTENDS Integers, Sequences

CONSTANTS Frames, Events

VARIABLES
    versions,   \* the timeline before the first command, and after each
    open        \* the version a worker shows

Init == versions = << <<>> >> /\ open = 1

\* A command at frame f leaves the timeline alone, or cuts it where its frames
\* pass f and adds one input.
Follows(before, after, f) ==
    \/ after = before
    \/ \E kept \in 0 .. Len(before), e \in Events :
          /\ \A i \in 1 .. Len(before) : i <= kept <=> before[i].frame <= f
          /\ after = Append(SubSeq(before, 1, kept), [frame |-> f, event |-> e])

Commit(f) ==
    /\ open' = Len(versions') /\ open' > open
    /\ SubSeq(versions', 1, open) = SubSeq(versions, 1, open)
    /\ \A i \in open + 1 .. open' : Follows(versions'[i - 1], versions'[i], f)

Reopen == open' \in 1 .. Len(versions) /\ UNCHANGED versions

Next == Reopen \/ \E f \in Frames : Commit(f)

Spec == Init /\ [][Next]_<<versions, open>>

=============================================================================
