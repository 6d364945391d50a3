--------------------------- MODULE MCExecutionModel ---------------------------
(***************************************************************************)
(* ExecutionModel with two instruments, one of them fractional, orders of  *)
(* every type, side, time in force and quantity mode, and bars that rise,  *)
(* fall, overlap and carry little volume.                                  *)
(***************************************************************************)
EXTENDS ExecutionModel

\* An order request for the whole or fractional shares of an instrument; EXCEPT says the rest.
Plain(id, i, side, type, quantity) ==
    [id |-> id, instrument |-> i, side |-> side, type |-> type, mode |-> "WHOLE_SHARES",
     tif |-> "DAY", submitted |-> 0, eligible |-> 0, dayExpires |-> 2, expires |-> 0,
     reference |-> 20, quantity |-> quantity, notional |-> 0, limit |-> 0, stop |-> 0,
     trail |-> 0, cap |-> 0]

MCRequests ==
    {Plain("market", "A", "BUY", "MARKET", 6),
     [Plain("capped", "A", "BUY", "MARKET", 4) EXCEPT !.cap = 30],
     [Plain("notional", "A", "BUY", "MARKET", 0)
        EXCEPT !.mode = "NOTIONAL_AMOUNT", !.notional = 45],
     [Plain("limit", "A", "BUY", "LIMIT", 4)
        EXCEPT !.limit = 21, !.tif = "GTC", !.submitted = 1, !.eligible = 1, !.dayExpires = 3],
     [Plain("stop", "A", "SELL", "STOP", 2)
        EXCEPT !.stop = 18, !.tif = "GTD", !.expires = 3],
     [Plain("trailing", "A", "SELL", "TRAILING_STOP", 4)
        EXCEPT !.trail = 1, !.tif = "GTC"],
     [Plain("part", "A", "SELL", "MARKET", 1) EXCEPT !.mode = "FRACTIONAL_SHARES"],
     [Plain("stopLimit", "B", "BUY", "STOP_LIMIT", 4)
        EXCEPT !.stop = 22, !.limit = 23, !.tif = "GTC"],
     [Plain("limitSell", "A", "SELL", "LIMIT", 4) EXCEPT !.limit = 19]}

\* Requests that one of the rules refuses at once.
MCRefused ==
    {Plain("odd", "A", "BUY", "MARKET", 1),
     [Plain("partB", "B", "BUY", "MARKET", 1) EXCEPT !.mode = "FRACTIONAL_SHARES"],
     [Plain("sellAmount", "A", "SELL", "MARKET", 0)
        EXCEPT !.mode = "NOTIONAL_AMOUNT", !.notional = 20],
     [Plain("partLimit", "A", "BUY", "LIMIT", 1)
        EXCEPT !.mode = "FRACTIONAL_SHARES", !.limit = 20],
     [Plain("far", "A", "BUY", "LIMIT", 2) EXCEPT !.limit = 20, !.tif = "GTD", !.expires = 9],
     Plain("huge", "B", "BUY", "MARKET", 40)}

MCAllRequests == MCRequests \cup MCRefused

\* Six shares reserved at 15, of which the cash buys five at 20.
MCRising == {[Plain("rising", "A", "BUY", "MARKET", 12) EXCEPT !.reference = 15]}

Bar(i, starts, ends, open, high, low, volume) ==
    [instrument |-> i, starts |-> starts, ends |-> ends, open |-> open, high |-> high,
     low |-> low, volume |-> volume, complete |-> TRUE]

\* It trades one quantum of a share, for half a quantum of money, which is rounded to none.
Dust == Bar("A", 1, 2, 1, 1, 1, 2)

MCBars ==
    {Bar("A", 0, 1, 20, 22, 19, 10), Bar("A", 1, 2, 26, 26, 20, 4), Bar("A", 0, 2, 18, 19, 17, 9),
     Bar("A", 2, 3, 19, 24, 17, 20), Bar("B", 0, 1, 21, 24, 21, 6), Bar("B", 1, 2, 20, 23, 20, 8),
     [Bar("A", 1, 2, 20, 20, 20, 9) EXCEPT !.complete = FALSE], Bar("A", 2, 3, 20, 20, 20, 1),
     Dust}

MCRisingBars == {Bar("A", 0, 1, 20, 22, 19, 24)}

\* The last one cost half a quantum of money, which is rounded to none.
MCSeeds ==
    {[instrument |-> "A", quantity |-> 3, unitCost |-> 19],
     [instrument |-> "A", quantity |-> 2, unitCost |-> 25],
     [instrument |-> "A", quantity |-> 1, unitCost |-> 1]}
================================================================================
