----------------------------- MODULE AtLeastOnce ----------------------------
(***************************************************************************)
(* What MessageQueue (src/hub/queue.rs, the trait and its documentation)   *)
(* promises of one client's queue while the Hub process lives: a bounded   *)
(* FIFO that retires a message only after it has been delivered.  How a    *)
(* batch travels, is lost, repeated or acknowledged is left out.           *)
(***************************************************************************)
EXTENDS Naturals, Sequences

CONSTANTS
    Capacity,   \* most messages that may be unacknowledged
    Payloads    \* the messages

VARIABLES
    accepted,   \* the messages enqueued, in order
    retired,    \* how many of them, from the oldest, are acknowledged
    delivered   \* the messages some bridge has received

absVars == <<accepted, retired, delivered>>

AbsInit == accepted = << >> /\ retired = 0 /\ delivered = {}

\* push returning Ok(false): the queue has room.
Accept ==
    /\ Len(accepted) - retired < Capacity
    /\ \E m \in Payloads : accepted' = Append(accepted, m)
    /\ UNCHANGED <<retired, delivered>>

\* A batch arrives: a run of accepted messages, in order and with no gap.
Deliver ==
    /\ \E i, j \in 1 .. Len(accepted) :
          delivered' = delivered \cup {accepted[k] : k \in i .. j}
    /\ UNCHANGED <<accepted, retired>>

\* A cursor is echoed: it retires a longer prefix, all of it delivered.
Retire ==
    /\ \E n \in retired .. Len(accepted) :
          /\ \A k \in 1 .. n : accepted[k] \in delivered
          /\ retired' = n
    /\ UNCHANGED <<accepted, delivered>>

AbsNext == Accept \/ Deliver \/ Retire

AbsSpec == AbsInit /\ [][AbsNext]_absVars
=============================================================================
