--------------------------- MODULE CacheRecency ----------------------------
(***************************************************************************)
(* What the advisory index of CacheNamespace promises a sole user: exact   *)
(* least-recently-used order, kept through rebasing, merging, crashes and  *)
(* a damaged index.  Two history variables record the order of uses the    *)
(* access log stands for and the one it had when it last reached the disk, *)
(* each as the set of pairs of stored keys whose first was last used no    *)
(* later than its second.                                                  *)
(***************************************************************************)
EXTENDS CacheNamespace

\* One thread uses the namespace, through one handle of one store, and its
\* calls to the file system do not fail.
ASSUME SoleUserAssumption ==
    /\ \A c, d \in Callers : c = d
    /\ \A g, h \in Handles : g = h
    /\ \A s, t \in Stores : s = t
    /\ FsFaults = FALSE

VARIABLES
    recent,         \* history: the order of last uses
    durable         \* history: recent, when the index was last written

recencyVars == <<vars, recent, durable>>

Used(order) == {k \in Keys : <<k, k>> \in order}

\* An order without the keys that are not in ks.
InOrder(order, ks) == order \cap (ks \X ks)

\* An order after the use of the keys ks.
ThenUsed(order, ks) == order \cup ((Used(order) \cup ks) \X ks)

RecencyInit == Init /\ recent = {} /\ durable = {}

\* The caller leaves the location in this step, other than by dying.
Leaves(c, pc) == At(c, pc) /\ call'[c].pc # pc /\ restarts' = restarts

\* Touch makes its key the latest, forget and removal drop it, a restart
\* goes back to what was written.
RecordUse ==
    LET touched == {call[c].key : c \in {d \in Callers : Leaves(d, "touch")}}
        forgotten == {call[c].key : c \in {d \in Callers : Leaves(d, "forget")}}
        stays == Keys \ (touched \cup forgotten)
    IN recent' = IF restarts' # restarts
                 THEN InOrder(durable, Stored')
                 ELSE ThenUsed(InOrder(recent, stays \cap Stored'), touched)

RecordWrite ==
    durable' =
        CASE \E c \in Callers :
                /\ Leaves(c, "write") \/ Leaves(c, "finish")
                /\ index' = log'[HandleOf[c]].seq         -> recent
          [] damage' # damage /\ UNCHANGED object         -> {}
          [] OTHER -> InOrder(durable, Stored')

RecencySpec ==
    RecencyInit /\ [][Next /\ RecordUse /\ RecordWrite]_recencyVars

\* With one caller and one handle a pass evicts a used entry only before
\* every evictable entry that was used later.
LeastRecentFirst ==
    [][\A c \in Callers, k \in Keys : Evicts(c, k) =>
          \A j \in call[c].left \ (call[c].pinned \cup {k}) :
              {j, k} \subseteq Used(recent) => <<j, k>> \notin recent]_recencyVars

============================================================================
