-------------------------------- MODULE MCReplay --------------------------------
(***************************************************************************)
(* Replay over three short sessions.  Instrument 1 is read at the fine     *)
(* resolution and daily, instrument 2 fine only; prices move by the tick   *)
(* and the first bars of a session carry little volume, so that a carried  *)
(* order is filled in parts, by fine bars and by the daily one.            *)
(* Instrument 2 opens the second session at a price that a quantum of it   *)
(* is not worth one of money: such a fill raises.                          *)
(***************************************************************************)
EXTENDS Replay

MCSessions == <<[opens |-> 1, closes |-> 4], [opens |-> 6, closes |-> 8],
                [opens |-> 11, closes |-> 14]>>

Step(operation, resolution, count) ==
    [operation |-> operation, resolution |-> resolution, bars |-> count]

Flow(side, instruments, steps, reference) ==
    [side |-> side, instruments |-> instruments, steps |-> steps, reference |-> reference,
     percent |-> 100, budget |-> 8, cap |-> 90, mode |-> "EVERY_CYCLE", max |-> 3,
     wait |-> "BARS", interval |-> 1]

MCFlows ==
    <<Flow("BUY", {1, 2}, <<Step("LAST_BAR", 1, 0)>>, 1),
      [Flow("SELL", {1}, <<Step("HOLDING_DAYS", 5, 1), Step("FEATURE", 5, 0)>>, 5)
         EXCEPT !.mode = "WAIT", !.wait = "TRADING_DAYS", !.percent = 50],
      Flow("SELL", {2}, <<Step("HOLDING_BARS", 1, 2)>>, 1),
      [Flow("BUY", {1}, <<Step("WEEK_FIRST_TRADING_DAY", 1, 0)>>, 1) EXCEPT !.percent = 50],
      Flow("SELL", {2}, <<Step("POSITION", 0, 0)>>, 0)>>

MCFeatures == {[instruments |-> {1}, resolution |-> 5, bars |-> 2]}

MCQuote(i, t) == IF i = 2 /\ t = 6 THEN 1 ELSE 8 + 2 * ((t * (i + 1)) % 5)
MCVolume(i, t) == IF t % 5 = 1 THEN 2 ELSE 9
MCStrayRows ==
    {[instrument |-> 1, resolution |-> 1, day |-> 1, label |-> 9],
     [instrument |-> 1, resolution |-> 3, day |-> 1, label |-> 6]}

\* Instrument 1 has a bar at every second instant only; its sell flow executes once.
MCTwoSessions == <<[opens |-> 0, closes |-> 4], [opens |-> 5, closes |-> 9]>>

MCOnceFlows ==
    <<Flow("BUY", {1}, <<Step("LAST_BAR", 2, 0)>>, 2),
      [Flow("SELL", {1}, <<Step("LAST_BAR", 2, 0)>>, 2) EXCEPT !.mode = "ONCE", !.percent = 50],
      Flow("BUY", {2}, <<Step("LAST_BAR", 1, 0)>>, 1)>>
================================================================================
