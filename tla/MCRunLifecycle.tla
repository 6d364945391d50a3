--------------------------- MODULE MCRunLifecycle ---------------------------
(***************************************************************************)
(* Two consumers, two releases of one key, one of them with a defect that  *)
(* parsing, validation or building finds, or with another content, two     *)
(* servers, and result events of which one is in two payloads.  A run      *)
(* starts with the releases in the queue and has one result event, or with *)
(* the row accepted and the queue drained and has MaxPosts of them:        *)
(* acceptance only reads the content of a row that exists, so the product  *)
(* of the two adds no interaction.                                         *)
(***************************************************************************)
EXTENDS RunLifecycle, TLC

Good == [parseable |-> TRUE, type |-> TRUE, version |-> TRUE, digests |-> TRUE,
         plan |-> TRUE, envelope |-> TRUE, content |-> "a"]

MCDocuments == {Good, [Good EXCEPT !.content = "b"], [Good EXCEPT !.envelope = FALSE],
                [Good EXCEPT !.plan = FALSE], [Good EXCEPT !.type = FALSE]}

Event(status, attempt, detail, payload) ==
    [status |-> status, attempt |-> attempt, detail |-> detail, payload |-> payload, sound |-> TRUE]

MCEvents == {Event("RUNNING", 1, "none", "p"), Event("COMPLETED", 1, "hash", "p"),
             Event("COMPLETED", 1, "hash", "q"), Event("FAILED", 1, "code", "p"),
             [Event("FAILED", 1, "code", "q") EXCEPT !.sound = FALSE]}

MCInit ==
    \/ /\ Begin(NoRow, 0, TRUE, MaxPosts - 1)
       /\ \E m \in Releases : doc[m] = Good
    \/ /\ Begin(NewRow(Good), 1, FALSE, 0)
       /\ inputs = Inputs
       /\ doc = [m \in Releases |-> Good]

MCSpec == MCInit /\ [][Next]_vars

Interchangeable ==
    Permutations(Consumers) \cup Permutations(Releases) \cup Permutations(Servers)
=============================================================================
