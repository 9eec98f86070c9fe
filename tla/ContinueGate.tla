---------------------------- MODULE ContinueGate ----------------------------
(***************************************************************************)
(* The gate of `Expect: 100-continue' (hclient-native/src/body.rs): the    *)
(* request body is not read before the gate opens.  `open' stores the flag *)
(* and then takes the waker; `poll_open' loads the flag, stores its waker  *)
(* and loads the flag again.  Both run at once, on different threads: the  *)
(* connection's task opens, any task that owns the body polls.             *)
(***************************************************************************)
CONSTANTS Readers    \* the tasks that may poll the body, one at a time

VARIABLES
    opened,     \* the flag
    waker,      \* the waker stored: the one task, or nobody
    opener,     \* the step of `open': before, flagged (stored, waker not yet taken), done
    reader,     \* the step of a task's poll_open
    roused      \* tasks that will be polled again

gateVars == <<opened, waker, opener, reader, roused>>

GateInit ==
    /\ opened = FALSE /\ waker = {} /\ opener = "before" /\ roused = {}
    /\ reader = [r \in Readers |-> "idle"]

\* The body is owned by one task at a time and may move between polls.
Polling == {r \in Readers : reader[r] \in {"checked", "stored"}}

\* poll_open: the first load.
FirstLook(r) ==
    /\ reader[r] \in {"idle", "pending"} /\ Polling = {}
    /\ reader' = [x \in Readers |-> IF x = r THEN (IF opened THEN "through" ELSE "checked")
                                    ELSE IF reader[x] = "pending" THEN "idle" ELSE reader[x]]
    /\ roused' = roused \ {r}
    /\ UNCHANGED <<opened, waker, opener>>

StoresWaker(r) ==
    /\ reader[r] = "checked"
    /\ waker' = {r}
    /\ reader' = [reader EXCEPT ![r] = "stored"]
    /\ UNCHANGED <<opened, opener, roused>>

\* Mutant: the flag is not loaded again.
SecondLookSkipped(r) ==
    /\ reader[r] = "stored"
    /\ reader' = [reader EXCEPT ![r] = "pending"]
    /\ UNCHANGED <<opened, waker, opener, roused>>

\* The second load, after the waker is in place.
SecondLook(r) ==
    /\ reader[r] = "stored"
    /\ reader' = [reader EXCEPT ![r] = IF opened THEN "through" ELSE "pending"]
    /\ UNCHANGED <<opened, waker, opener, roused>>

\* `open': the flag, then the waker.
StoresFlag ==
    /\ opener = "before"
    /\ opened' = TRUE /\ opener' = "flagged"
    /\ UNCHANGED <<waker, reader, roused>>

TakesWaker ==
    /\ opener = "flagged"
    /\ roused' = roused \cup waker
    /\ waker' = {} /\ opener' = "done"
    /\ UNCHANGED <<opened, reader>>

GateNext ==
    \/ StoresFlag \/ TakesWaker
    \/ \E r \in Readers : FirstLook(r) \/ StoresWaker(r) \/ SecondLook(r)

GateSpec == GateInit /\ [][GateNext]_gateVars

-----------------------------------------------------------------------------
GateTypeOK ==
    /\ opened \in BOOLEAN
    /\ waker \subseteq Readers
    /\ opener \in {"before", "flagged", "done"}
    /\ reader \in [Readers -> {"idle", "checked", "stored", "pending", "through"}]
    /\ roused \subseteq Readers

\* A task that was told Pending will be polled again if the gate opens: its
\* waker is stored, and `open' has still to take it, or it has been woken.
\* No order of the four steps on the two sides strands the request body.
GateWakesItsReader ==
    \A r \in Readers : reader[r] = "pending" =>
        (r \in waker /\ opener # "done") \/ r \in roused

\* Nothing of the body is read before the gate has opened.
HeldUntilOpen == \A r \in Readers : reader[r] = "through" => opened

\* The gate as a whole: nothing goes through early and nobody waits for ever.
GateHolds == GateTypeOK /\ HeldUntilOpen /\ GateWakesItsReader
=============================================================================
