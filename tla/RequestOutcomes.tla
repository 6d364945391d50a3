--------------------------- MODULE RequestOutcomes ---------------------------
(***************************************************************************)
(* What request intake promises about a set of requests, without queues,   *)
(* receipts, claims or retries.  A request is admitted at most once and    *)
(* only while no rival of it has been; a job is published only for an      *)
(* admitted request; and a request leaves the queue only once there is     *)
(* something to show for it: a job, a refusal, or an admitted rival.       *)
(***************************************************************************)
CONSTANTS Messages      \* the requests delivered to one lane

VARIABLES rivals,       \* rivals[m]: the requests whose admission makes m stale
          admitted,     \* the requests that have a receipt
          published,    \* the requests for which a job was published
          refused,      \* the requests dead-lettered or recorded as failed
          left          \* the requests that are in the queue no more

outcomes == <<rivals, admitted, published, refused, left>>

Init ==
    /\ rivals \in [Messages -> SUBSET Messages]
    /\ admitted = {} /\ published = {} /\ refused = {} /\ left = {}

Admit(m) ==
    /\ m \notin admitted
    /\ rivals[m] \cap admitted = {}
    /\ admitted' = admitted \cup {m}
    /\ UNCHANGED <<rivals, published, refused, left>>

Publish(m) ==
    /\ m \in admitted
    /\ published' = published \cup {m}
    /\ UNCHANGED <<rivals, admitted, refused, left>>

Refuse(m) ==
    /\ refused' = refused \cup {m}
    /\ UNCHANGED <<rivals, admitted, published, left>>

Leave(m) ==
    /\ m \in published \cup refused \/ rivals[m] \cap admitted # {}
    /\ left' = left \cup {m}
    /\ UNCHANGED <<rivals, admitted, published, refused>>

Next == \E m \in Messages : Admit(m) \/ Publish(m) \/ Refuse(m) \/ Leave(m)

Spec == Init /\ [][Next]_outcomes
=============================================================================
