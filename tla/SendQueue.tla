------------------------------ MODULE SendQueue ------------------------------
(***************************************************************************)
(* What the outbound queue promises its user (rooms.rs, send_message and   *)
(* flush_pending; store.rs, queue_send, resolve_send, fail_send), with no  *)
(* tasks, network or storage in it.  A message is submitted once, it is    *)
(* shown as sent only if the homeserver has stored it, and both verdicts   *)
(* are final.  Whether it is stored once is a question of transaction ids  *)
(* and of the homeserver's deduplication, and not asked here: see TxnIds.  *)
(***************************************************************************)
CONSTANT Msgs

VARIABLES status,   \* the verdict on each message, as its author sees it
          stored    \* the messages the homeserver has stored

vars == <<status, stored>>

Statuses == {"unsent", "queued", "confirmed", "failed"}

Init == /\ status = [m \in Msgs |-> "unsent"]
        /\ stored = {}

\* The author hits send: the message is queued, whatever the network does.
Submit(m) == /\ status[m] = "unsent"
             /\ status' = [status EXCEPT ![m] = "queued"]
             /\ UNCHANGED stored

\* The homeserver stores it.  A message already given up on can still land: its
\* last request may be on its way.
Store(m) == /\ status[m] \in {"queued", "failed"}
            /\ stored' = stored \cup {m}
            /\ UNCHANGED status

\* It is shown as sent.
Confirm(m) == /\ status[m] = "queued"
              /\ m \in stored
              /\ status' = [status EXCEPT ![m] = "confirmed"]
              /\ UNCHANGED stored

\* It is shown as not sent.
Fail(m) == /\ status[m] = "queued"
           /\ status' = [status EXCEPT ![m] = "failed"]
           /\ UNCHANGED stored

Next == \E m \in Msgs : Submit(m) \/ Store(m) \/ Confirm(m) \/ Fail(m)

Spec == Init /\ [][Next]_vars
==============================================================================
