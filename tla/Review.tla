------------------------------- MODULE Review -------------------------------
(***************************************************************************)
(* The judgement of one trip (pipeline.py review_receipts) and the edits   *)
(* that lead to it: what the local model read of the receipts is checked   *)
(* (validate.py), merged with overrides.yaml (workspace.py), checked       *)
(* across receipts, judged by the rules (rules.py) and judged again by the *)
(* person in charge, while people save corrections, confirm warnings and   *)
(* set or withdraw verdicts in any order (service.py).  Business numbers   *)
(* are left out: their check has the form of that of the amount.           *)
(***************************************************************************)
EXTENDS Integers, FiniteSets, FiniteSetsExt

CONSTANTS Receipts,
          Readings,     (* what the model may read of a receipt            *)
          Forms,        (* fields a person saves at once, and their values *)
          Confirmed,    (* sets of warnings a person may confirm           *)
          Verdicts,     (* <<verdict, amount>> a person may give a receipt *)
          TripSettings, (* what resolve_trip may make of the settings, and *)
                        (* the regulation in force on the first day        *)
          Adjustments,  (* <<item, spec>>: verdicts on allowances          *)
          None,         (* also a value a person may enter                 *)
          Unset         (* a field nobody corrected                        *)

Fields == {"category", "amount", "approval", "train", "origin", "destination", "seat",
           "date", "until", "paid", "nights", "region"}
Items == {"daily", "meal", "incity"}

(* Amounts and nights are made of the digits of what was read or entered   *)
(* (_int, _receipt_value), dates are days.                                 *)
OfField(f, v) ==
    /\ f \in {"amount", "nights"} => v \in Nat \cup {None}
    /\ f \in {"date", "until", "paid"} => v \in Int \cup {None}

ASSUME ReceiptAssumption == IsFiniteSet(Receipts) /\ None \notin Int
ASSUME ReadingAssumption == \A m \in Readings :
    /\ Fields \cup {"printed", "failed", "elsewhere"} \subseteq DOMAIN m
    /\ \A f \in Fields : OfField(f, m[f])
ASSUME FormAssumption == \A form \in Forms, f \in Fields : f \in DOMAIN form => OfField(f, form[f])

(* MANUAL_VERDICTS; only a reduction names an amount (save_decision).      *)
ASSUME VerdictAssumption == \A v \in Verdicts :
    v[1] \in {"pay", "reduced", "denied"} /\ (v[1] = "reduced" => v[2] \in Nat)

(* Days of the trip and what the law gives: amounts and ratios are read as *)
(* digits, and no ratio is one of zero parts (parse_law_params).           *)
Parts(p) == p = None \/ (p[1] \in Nat /\ p[2] \in Nat \ {0})

ASSUME SettingAssumption == \A t \in TripSettings :
    /\ {t.start, t.end} \subseteq Int \cup {None}
    /\ t.grade \in {1, 2, None} /\ None \notin t.stations
    /\ \A region \in DOMAIN t.law.caps : t.law.caps[region] \in Nat
    /\ Parts(t.law.over) /\ Parts(t.law.vehicle)
    /\ t.law.short # None => {t.law.short, t.law.long} \subseteq Nat
    /\ t.law.cut \in Nat \cup {None}
    /\ \A g \in {1, 2} : t.law.table[g].daily \in Nat /\ t.law.table[g].meal \in Nat

(* A verdict on an allowance is an amount or a number of days.             *)
ASSUME AdjustmentAssumption == \A a \in Adjustments :
    /\ a = <<a[1], a[2]>> /\ a[1] \in Items
    /\ \/ a[2].amount \in Nat /\ a[2].days = None
       \/ a[2].amount = None /\ a[2].days \in Nat

VARIABLES extracted,  (* receipts.extracted.json                           *)
          edits,      (* overrides.yaml: the corrected fields              *)
          cleared,    (* overrides.yaml: clear_warnings                    *)
          decision,   (* overrides.yaml: decision                          *)
          trip,       (* trip.yaml and traveler.yaml, as resolved          *)
          allowance   (* trip.yaml: allowance_decisions                    *)

vars == <<extracted, edits, cleared, decision, trip, allowance>>

Blocking == {"MISSING_AMOUNT", "AMOUNT_NOT_IN_TRANSCRIPT", "DUP_APPROVAL", "EXTRACT_FAILED", "MISSING_DATE",
             "LODGING_OVERLAP", "LODGING_NIGHTS_EXCEED", "DUP_TICKET", "DUP_ACROSS_TRIPS"}

ManualSpecs == {[verdict |-> v[1], amount |-> v[2]] : v \in Verdicts}
FormValues == UNION {{form[f] : f \in DOMAIN form} : form \in Forms}

TypeOK ==
    /\ extracted \in [Receipts -> Readings]
    /\ edits \in [Receipts -> [Fields -> FormValues \cup {Unset}]]
    /\ \A r \in Receipts, f \in Fields :
         edits[r][f] = Unset \/ \E form \in Forms : f \in DOMAIN form /\ form[f] = edits[r][f]
    /\ cleared \in [Receipts -> Confirmed \cup {{}}]
    /\ decision \in [Receipts -> ManualSpecs \cup {None}]
    /\ trip \in TripSettings
    /\ allowance \in [Items -> {a[2] : a \in Adjustments} \cup {None}]
    /\ \A i \in Items : allowance[i] = None \/ <<i, allowance[i]>> \in Adjustments

Init ==
    /\ extracted \in [Receipts -> Readings]
    /\ edits = [r \in Receipts |-> [f \in Fields |-> Unset]]
    /\ cleared = [r \in Receipts |-> {}]
    /\ decision = [r \in Receipts |-> None]
    /\ trip \in TripSettings
    /\ allowance = [i \in Items |-> None]

-----------------------------------------------------------------------------
(* apply_overrides: the corrected fields over the read ones.               *)
Merged(r) ==
    [f \in DOMAIN extracted[r] |->
        IF f \in Fields /\ edits[r][f] # Unset THEN edits[r][f] ELSE extracted[r][f]]

(* Mutant: duplicates are looked for in what was read.                     *)
DupApproval_Read(r) ==
    LET no == extracted[r].approval IN
    no # None /\ \E q \in Receipts \ {r} : extracted[q].approval = no

DupApproval(r) ==
    LET no == Merged(r).approval IN
    no # None /\ \E q \in Receipts \ {r} : Merged(q).approval = no

(* validate_receipt and mark_dup_approval.  Only the checks of corrected   *)
(* fields are repeated; the others give what they gave on reading.         *)
Validated(r) ==
    LET m == Merged(r)
        Found(code, P) == IF P THEN {code} ELSE {}
    IN UNION {Found("MISSING_AMOUNT", m.amount = None),
              Found("AMOUNT_NOT_IN_TRANSCRIPT", m.amount # None /\ m.amount \notin m.printed),
              Found("MISSING_DATE", m.date = None /\ m.paid = None),
              Found("EXTRACT_FAILED", m.failed),
              Found("DUP_ACROSS_TRIPS", m.elsewhere),
              Found("DUP_APPROVAL", DupApproval(r))}

(* stay_nights.                                                            *)
Nights(m) ==
    IF m.nights \notin {None, 0} THEN m.nights
    ELSE IF m.date # None /\ m.until # None /\ m.until > m.date THEN m.until - m.date
    ELSE 1

Days == IF trip.start = None \/ trip.end = None THEN None ELSE trip.end - trip.start + 1

(* apply_cross_checks.                                                     *)
Lodgings == {r \in Receipts : Merged(r).category = "lodging"}

Overlap(a, b) ==
    LET x == Merged(a)  y == Merged(b) IN
    /\ {a, b} \subseteq Lodgings /\ x.date # None /\ y.date # None
    /\ x.date < y.date + Nights(y) /\ y.date < x.date + Nights(x)

SameTicket(a, b) ==
    LET Ticket(m) == <<m.category, m.train, m.date, m.origin, m.destination>> IN
    /\ Merged(a).category \in {"rail", "bus", "air"} /\ Merged(a).date # None /\ Merged(a).train # None
    /\ Ticket(Merged(a)) = Ticket(Merged(b))

NightsOf == [r \in Receipts |-> Nights(Merged(r))]

(* Mutant: the days of the trip are counted, not its nights.               *)
NightsExceed_Days == Days # None /\ SumFunctionOnSet(NightsOf, Lodgings) > Days

NightsExceed == Days # None /\ SumFunctionOnSet(NightsOf, Lodgings) > (IF Days > 1 THEN Days - 1 ELSE 0)

CrossChecked(r) ==
    LET others == Receipts \ {r} IN
    Validated(r)
    \cup (IF \E q \in others : Overlap(r, q) THEN {"LODGING_OVERLAP"} ELSE {})
    \cup (IF r \in Lodgings /\ NightsExceed THEN {"LODGING_NIGHTS_EXCEED"} ELSE {})
    \cup (IF \E q \in others : SameTicket(r, q) THEN {"DUP_TICKET"} ELSE {})

(* clear_warnings, last.                                                   *)
Warnings(r) == CrossChecked(r) \ cleared[r]

-----------------------------------------------------------------------------
(* The rules: a verdict and the amount approved.                           *)
Judge(verdict, approved) == [verdict |-> verdict, approved |-> approved]
ToReview == Judge("review", 0)

(* _rail: neither end of the journey is a station of the trip, or the seat *)
(* is of the special class.  (A station is looked for in the names of the  *)
(* ends, which the model takes for stations.)                              *)
Rail(m) ==
    IF trip.stations # {} /\ {m.origin, m.destination} \cap trip.stations = {} THEN ToReview
    ELSE IF trip.grade = 2 /\ m.seat = "special" THEN ToReview
    ELSE Judge("pay", m.amount)

Taxi(m) == IF trip.taxi_reason THEN Judge("pay", m.amount) ELSE ToReview

(* _lodging: the limit of the first region whose limit is known.           *)
Lodging(m) ==
    LET known == DOMAIN trip.law.caps
        used == IF m.region \in known THEN m.region ELSE trip.lodging_region
        cap == trip.law.caps[used] * Nights(m)
        limit == cap + (cap * trip.law.over[1]) \div trip.law.over[2]
    IN IF trip.grade = 1 THEN Judge("pay", m.amount)
       ELSE IF used \notin known THEN ToReview
       ELSE IF m.amount <= cap THEN Judge("pay", m.amount)
       ELSE IF ~trip.over_cap_reason THEN Judge("reduced", cap)
       ELSE IF trip.law.over = None THEN ToReview
       ELSE IF m.amount <= limit THEN Judge("pay", m.amount)
       ELSE Judge("reduced", limit)

Claimed(r) == IF Merged(r).amount = None THEN 0 ELSE Merged(r).amount

(* decide_receipt.                                                         *)
DecideReceipt(r) ==
    LET m == Merged(r)
        based == IF m.date # None THEN m.date ELSE m.paid
    IN IF m.amount = None \/ Warnings(r) \cap Blocking # {} THEN ToReview
       ELSE IF trip.within /\ m.category \in {"rail", "bus", "air", "taxi", "lodging"} THEN Judge("denied", 0)
       ELSE IF Days # None /\ based # None /\ based \notin trip.start .. trip.end THEN ToReview
       ELSE IF trip.grade = None /\ m.category \in {"rail", "lodging"} THEN ToReview
       ELSE CASE m.category = "rail" -> Rail(m)
              [] m.category \in {"bus", "air"} -> Judge("pay", m.amount)
              [] m.category = "taxi" -> Taxi(m)
              [] m.category = "lodging" -> Lodging(m)
              [] m.category = "meal" -> Judge("denied", 0)
              [] OTHER -> ToReview

(* Mutant: the amount a person set is not compared with the claim again.   *)
Stands_Saved(r) == decision[r] # None

(* apply_manual_decisions: a reduced amount that no longer is below the    *)
(* claim, or has lost its sense, leaves the rule's verdict.                *)
Stands(r) ==
    /\ decision[r] # None
    /\ decision[r].verdict = "reduced" => decision[r].amount > 0 /\ decision[r].amount < Claimed(r)

ManualAmount(r) ==
    CASE decision[r].verdict = "pay" -> Claimed(r)
      [] decision[r].verdict = "denied" -> 0
      [] OTHER -> decision[r].amount

(* A row of the judgement: verdict, amount, the rule's own verdict, and    *)
(* whether a person gave more than the rule.                               *)
Row(rule, manual, approved, verdict) ==
    [verdict |-> verdict, approved |-> approved, rule |-> rule, manual |-> manual,
     over |-> manual /\ rule.verdict # "review" /\ approved > rule.approved]

ReceiptRow(r) ==
    LET rule == DecideReceipt(r) IN
    IF Stands(r)
    THEN Row(rule, TRUE, ManualAmount(r), decision[r].verdict)
    ELSE Row(rule, FALSE, rule.approved, rule.verdict)

-----------------------------------------------------------------------------
(* allowance_rows; without a grade the second one's amounts.               *)
Table == trip.law.table[IF trip.grade = None THEN 2 ELSE trip.grade]
Ratio == IF trip.vehicle THEN trip.law.vehicle ELSE <<1, 1>>
OfRatio(x) == IF Ratio = None THEN None ELSE (x * Ratio[1]) \div Ratio[2]

(* Mutant: the car is forgotten in the amount for one day.                 *)
Unit_NoVehicle(i) == IF i = "daily" THEN Table.daily ELSE IF i = "meal" THEN Table.meal ELSE None

(* allowance_units: what one day is worth; none for a trip in the city.    *)
Unit(i) == IF i = "daily" THEN OfRatio(Table.daily) ELSE IF i = "meal" THEN Table.meal ELSE None

InCity ==
    IF trip.hours = None \/ trip.law.short = None \/ (trip.vehicle /\ trip.law.cut = None) THEN None
    ELSE LET gross == IF trip.hours >= trip.law.hours THEN trip.law.long ELSE trip.law.short
             net == gross - (IF trip.vehicle THEN trip.law.cut ELSE 0)
         IN IF net > 0 THEN net ELSE 0

Planned(i) ==
    IF i = "incity" THEN InCity
    ELSE IF Days = None \/ Days < 1 THEN None
    ELSE IF i = "daily" THEN OfRatio(Table.daily * Days)
    ELSE Table.meal * Days

RuleAllowance(i) ==
    IF Planned(i) = None \/ (i # "incity" /\ trip.proposed /\ ~trip.reliable) THEN ToReview
    ELSE Judge("pay", Planned(i))

(* _manual_allowance: an amount, or days at the amount for one day.        *)
Adjusted(i) ==
    IF allowance[i] = None THEN None
    ELSE IF allowance[i].amount # None THEN allowance[i].amount
    ELSE IF Unit(i) = None THEN None
    ELSE Unit(i) * allowance[i].days

AllowanceRow(i) ==
    LET rule == RuleAllowance(i)  amount == Adjusted(i) IN
    IF amount = None THEN Row(rule, FALSE, rule.approved, rule.verdict)
    ELSE Row(rule, TRUE, amount,
             IF amount = 0 THEN "denied"
             ELSE IF Planned(i) # None /\ amount < Planned(i) THEN "reduced" ELSE "pay")

AllowanceItems == IF trip.within THEN {"incity"} ELSE {"daily", "meal"}

(* totals.                                                                 *)
Claims == [r \in Receipts |-> Claimed(r)]
Approved == [r \in Receipts |-> ReceiptRow(r).approved]
Allowances == SumFunctionOnSet([i \in AllowanceItems |-> AllowanceRow(i).approved], AllowanceItems)

TotalClaimed == SumFunctionOnSet(Claims, Receipts)
TotalApproved == SumFunctionOnSet(Approved, Receipts) + Allowances
TotalReview == SumFunctionOnSet(Claims, {r \in Receipts : ReceiptRow(r).verdict = "review"})

-----------------------------------------------------------------------------
(* With settings that are still proposed from the receipts, a correction   *)
(* may lead to another proposal.                                           *)
Proposals == IF trip.proposed THEN {t \in TripSettings : t.proposed} ELSE {trip}

(* A field set back to what was read is no correction any more.            *)
Corrected(r, form) ==
    [f \in Fields |-> IF f \notin DOMAIN form THEN edits[r][f] ELSE IF form[f] = extracted[r][f] THEN Unset ELSE form[f]]

(* save_override: the fields of the form, and the confirmed warnings when  *)
(* the form has them.                                                      *)
SaveOverride(r, form, codes) ==
    /\ edits' = [edits EXCEPT ![r] = Corrected(r, form)]
    /\ cleared' = IF codes = None THEN cleared ELSE [cleared EXCEPT ![r] = codes]
    /\ trip' \in Proposals
    /\ UNCHANGED <<extracted, decision, allowance>>

(* save_decision: "by the rule" takes the verdict out again.               *)
SaveDecision(r, verdict, amount) ==
    /\ verdict = "reduced" => amount > 0 /\ amount < Claimed(r)
    /\ decision' = [decision EXCEPT ![r] = [verdict |-> verdict, amount |-> amount]]
    /\ UNCHANGED <<extracted, edits, cleared, trip, allowance>>

WithdrawDecision(r) ==
    /\ decision' = [decision EXCEPT ![r] = None]
    /\ UNCHANGED <<extracted, edits, cleared, trip, allowance>>

(* save_allowance_decision; the day trip has an amount only.               *)
SaveAllowanceDecision(i, spec) ==
    /\ IF i = "incity" /\ spec # None THEN spec.days = None ELSE TRUE
    /\ allowance' = [allowance EXCEPT ![i] = spec]
    /\ UNCHANGED <<extracted, edits, cleared, decision, trip>>

(* save_trip_yaml.                                                         *)
SaveTripYaml(settings) ==
    /\ trip' = settings
    /\ UNCHANGED <<extracted, edits, cleared, decision, allowance>>

(* The requests of the pages on which a trip is read and judged.           *)
Next ==
    \/ \E r \in Receipts, form \in Forms, codes \in Confirmed \cup {{}, None} : SaveOverride(r, form, codes)
    \/ \E r \in Receipts, v \in Verdicts : SaveDecision(r, v[1], v[2])
    \/ \E r \in Receipts : WithdrawDecision(r)
    \/ \E a \in Adjustments : SaveAllowanceDecision(a[1], a[2])
    \/ \E i \in Items : SaveAllowanceDecision(i, None)
    \/ \E settings \in TripSettings : SaveTripYaml(settings)

Spec == Init /\ [][Next]_vars

-----------------------------------------------------------------------------
PaidByRule(r) == ReceiptRow(r).approved > 0 /\ ~ReceiptRow(r).manual

(* Of two receipts for the same thing (one approval number, one ticket,    *)
(* one night) the rules pay both only when a person has confirmed the      *)
(* warning on each, in whatever order corrections made them the same       *)
(* (mark_dup_approval, apply_cross_checks, clear_warnings).                *)
SameNight(a, b) ==
    /\ {a, b} \subseteq Lodgings /\ Merged(a).date # None /\ Merged(b).date # None
    /\ \E n \in 0..(Nights(Merged(a)) - 1), k \in 0..(Nights(Merged(b)) - 1) :
         Merged(a).date + n = Merged(b).date + k

NothingPaidTwice ==
    \A a, b \in Receipts :
        LET x == Merged(a)  y == Merged(b)
            Both(code) == code \in cleared[a] \cap cleared[b]
        IN a # b /\ PaidByRule(a) /\ PaidByRule(b) =>
            /\ (x.approval # None /\ x.approval = y.approval) => Both("DUP_APPROVAL")
            /\ SameTicket(a, b) => Both("DUP_TICKET")
            /\ SameNight(a, b) => Both("LODGING_OVERLAP")

(* The rules pay for no more nights than the trip has, but those of stays  *)
(* on which a person has confirmed the warning.                            *)
NightsFitTheTrip ==
    LET paid == {r \in Lodgings : PaidByRule(r) /\ "LODGING_NIGHTS_EXCEED" \notin cleared[r]} IN
    Days # None => SumFunctionOnSet(NightsOf, paid) <= (IF Days > 1 THEN Days - 1 ELSE 0)

(* No receipt is approved above its claim, also when a person's verdict is *)
(* older than a correction of the amount, and what is open for review is   *)
(* not in the approved total as well.                                      *)
ApprovedWithinClaim ==
    /\ \A r \in Receipts : ReceiptRow(r).approved \in 0..Claimed(r)
    /\ TotalReview + TotalApproved <= TotalClaimed + Allowances

(* A person who grants the days of the trip gives what the rule pays for   *)
(* them, wherever the amount for one day comes out even; where it does not *)
(* they lose what is rounded down on each day, less than one each, and are *)
(* never above the rule (allowance_units rounds one day, allowance_rows    *)
(* the whole trip).                                                        *)
FullDaysAreFullPay ==
    \A i \in AllowanceItems \ {"incity"} :
        LET row == AllowanceRow(i)
            rule == RuleAllowance(i).approved
            even == Ratio # None => (Table.daily * Ratio[1]) % Ratio[2] = 0
        IN allowance[i] # None /\ row.manual /\ allowance[i].days = Days /\ rule > 0 =>
               /\ row.approved <= rule /\ rule < row.approved + Days
               /\ even => row.approved = rule
               /\ row.approved = rule => row.verdict = "pay"
               /\ ~row.over
=============================================================================
