------------------------------ MODULE MCReview ------------------------------
(***************************************************************************)
(* Review for TLC: two receipts that can be made to be for the same        *)
(* ticket, the same approval number or the same night, amounts below,      *)
(* between and above the limits of one night (10, and 13 with a reason),   *)
(* and an odd number of days at half the daily amount.                     *)
(***************************************************************************)
EXTENDS Review, TLC

CONSTANTS r1, r2, no1

MCReceipts == {r1, r2}

Reading == [category |-> "lodging", amount |-> 9, approval |-> None, train |-> None, date |-> 1, until |-> 3, nights |-> None,
            region |-> "city", paid |-> None, printed |-> {9, 12, 15}, failed |-> FALSE, elsewhere |-> FALSE,
            origin |-> None, destination |-> None, seat |-> None]
Ticket == [Reading EXCEPT !.category = "rail", !.train = no1, !.until = None, !.region = None, !.approval = no1,
                    !.origin = "seoul", !.destination = "busan"]

MCReadings ==
    {Reading, Ticket,
     [Reading EXCEPT !.until = None, !.region = "unclear", !.amount = None, !.date = None, !.failed = TRUE]}

MCForms ==
    {[amount |-> 9, origin |-> "suseo"], [amount |-> 12, approval |-> no1, origin |-> "seoul"], [date |-> 1, nights |-> None], [date |-> 2, nights |-> 2]}

MCConfirmed == {{"LODGING_OVERLAP", "DUP_APPROVAL", "DUP_TICKET", "EXTRACT_FAILED"}}

MCVerdicts == {<<"pay", None>>, <<"reduced", 10>>}

Even == [caps |-> [city |-> 10], over |-> <<3, 10>>, vehicle |-> <<1, 2>>, hours |-> 4, long |-> 2, short |-> 1, cut |-> 1,
         table |-> [g \in 1..2 |-> [daily |-> 8, meal |-> 7]]]
Odd == [Even EXCEPT !.over = None, !.table = [g \in 1..2 |-> [daily |-> 7, meal |-> 7]]]

Trip == [grade |-> 2, start |-> 1, end |-> 3, within |-> FALSE, stations |-> {}, taxi_reason |-> TRUE, over_cap_reason |-> TRUE,
         lodging_region |-> "city", vehicle |-> TRUE, hours |-> None, proposed |-> TRUE, reliable |-> TRUE, law |-> Even]

MCTripSettings ==
    {Trip,
     [Trip EXCEPT !.proposed = FALSE, !.stations = {"seoul"}, !.over_cap_reason = FALSE, !.law = Odd],
     [Trip EXCEPT !.within = TRUE, !.hours = 4, !.grade = None]}

MCAdjustments == {<<"daily", [days |-> 3, amount |-> None]>>, <<"incity", [days |-> None, amount |-> 5]>>}

Symmetry == Permutations(MCReceipts)
=============================================================================
