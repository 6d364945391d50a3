--------------------------- MODULE MCRequestIntake ---------------------------
(* Two requests of one lane.  Both are sound, in each lane, or one of them  *)
(* has one defect: any one in the Competition lane, which tests the most,   *)
(* and the ones that the other lanes judge differently.  Their aggregate is *)
(* the same in every case but one.                                          *)
EXTENDS RequestIntake

Facts == {"attributes", "hash", "json", "version", "shape", "requestHash", "correlation",
          "messageId", "key", "type", "envelope", "outbox", "ids", "run", "pins", "dates", "same",
          "fingerprint"}

Sound == [f \in Facts \cup {"aggregate", "sequence", "bars", "named", "requested"} |->
            IF f \in Facts THEN TRUE ELSE 1]

Other == CHOOSE m \in Messages : TRUE

Delivery(l, d) == [lane |-> l, doc |-> [m \in Messages |-> IF m = Other THEN d ELSE Sound]]

MCDeliveries ==
    {Delivery(l, Sound) : l \in {"BASIC", "CUSTOM", "COMPETITION"}}
    \cup {Delivery("COMPETITION", [Sound EXCEPT ![f] = FALSE]) : f \in Facts}
    \cup {Delivery("CUSTOM", [Sound EXCEPT !["key"] = FALSE]),
          Delivery("BASIC", [Sound EXCEPT !["requestHash"] = FALSE]),
          Delivery("CUSTOM", [Sound EXCEPT !["bars"] = 2]),
          Delivery("COMPETITION", [Sound EXCEPT !["bars"] = 2]),
          Delivery("COMPETITION", [Sound EXCEPT !["requested"] = 2]),
          Delivery("CUSTOM", [Sound EXCEPT !["bars"] = 0]),
          Delivery("CUSTOM", [Sound EXCEPT !["named"] = 0]),
          Delivery("CUSTOM", [Sound EXCEPT !["aggregate"] = 2])}
=============================================================================
