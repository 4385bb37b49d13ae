--------------------------- MODULE ContractPicks ---------------------------
(***************************************************************************)
(* The choices that turn a wording ("CL April", a strike, a local symbol)  *)
(* into one contract: the delivery year behind a futures code              *)
(* (src/services/cl_contracts.py), the pick from the contracts table       *)
(* (contract_lookup.py) and the futures option's chain at TWS              *)
(* (ibkr_select_contracts.py).                                             *)
(*                                                                         *)
(* All of it is pure: a question is asked, one step answers it, and the    *)
(* properties compare the answer with what the question meant.  Months and *)
(* days are numbers, a strike is a number of its smallest steps.           *)
(***************************************************************************)
EXTENDS Integers, Sequences, FiniteSets, SequencesExt, FiniteSetsExt

CONSTANTS
  Years,       \* delivery years
  Drift,       \* how many years the expiry may be off the delivery year
  TableRows,   \* rows the contracts table may hold
  MonthsAsked, \* months a request may name
  MinDays,     \* safety windows
  ChainLists,  \* what TWS may list: sets of chains
  Strikes      \* strikes a request may name

\* Years of this century, rows with a day of expiry each, and chains with
\* finitely many strikes.
PicksTyped ==
  /\ Years \subseteq 2000 .. 2099 /\ Drift \in Nat
  /\ MinDays \subseteq Nat /\ Strikes \subseteq Nat \ {0} /\ MonthsAsked \subseteq Nat \ {0}
  /\ TableRows \subseteq [month : Nat, days : Int, active : BOOLEAN, strike : Nat]
  /\ \A list \in ChainLists :
       /\ list # {} /\ IsFiniteSet(list)
       /\ \A c \in list : IsFiniteSet(c.strikes)

ASSUME PicksAssumption == PicksTyped

VARIABLES
  question, \* what is asked
  answered, \* whether the step has been taken
  answer    \* what is picked, {} when nothing is
pickVars == <<question, answered, answer>>

Open == 0    \* a request leaves it open

\* What is asked: of a code its digits and the two years, of the table and of
\* the chains a request.
Questions ==
  [kind : {"year"}, year : Years, off : -Drift .. Drift, short : BOOLEAN, dated : BOOLEAN]
    \cup [kind : {"row"}, table : SUBSET TableRows, month : MonthsAsked \cup {Open},
          strike : {Open} \cup Strikes, min : MinDays, fallback : BOOLEAN]
    \cup [kind : {"chain"}, listed : ChainLists, month : MonthsAsked \cup {Open},
          strike : {Open} \cup Strikes]

\* _infer_year_from_code with one digit: the nearest such year to the expiry, or
\* with no expiry the next such year.
NearestYear(code, expiry) ==
  LET decade == (expiry \div 10) * 10
      near == <<decade - 10 + code, decade + code, decade + 10 + code>>
      gap(y) == IF y < expiry THEN expiry - y ELSE y - expiry
      best == CHOOSE i \in 1 .. 3 :
                \A j \in 1 .. 3 : gap(near[i]) < gap(near[j]) \/
                                   (gap(near[i]) = gap(near[j]) /\ i <= j)
  IN near[best]

NextYear(code, today) ==
  LET base == (today \div 10) * 10 + code IN IF base < today THEN base + 10 ELSE base

\* _infer_year_from_code: two digits are the year.
InferYear(code, short, expiry, today) ==
  IF ~short THEN 2000 + code
  ELSE IF expiry # Open THEN NearestYear(code, expiry) ELSE NextYear(code, today)

\* infer_contract_month_from_local_symbol reads the code off the symbol.
YearRead(q) ==
  InferYear(IF q.short THEN q.year % 10 ELSE q.year % 100, q.short,
            IF q.dated THEN q.year + q.off ELSE Open, q.year - (IF q.off < 0 THEN 0 ELSE q.off))

\* _load_candidates: active rows outside the safety window.
LoadCandidates(q) ==
  {r \in q.table : r.active /\ r.days >= q.min /\ q.strike \in {Open, r.strike}}

\* The head of a list in the order of expiry; of rows that expire together any.
Earliest(rows) == CHOOSE r \in rows : \A s \in rows : s.days >= r.days

\* _group_by_month: the first row of each month.  A row without one is skipped.
FirstOfMonth(rows) ==
  {Earliest({r \in rows : r.month = m}) : m \in {r.month : r \in rows} \ {Open}}

\* Mutant of PickMonth: the front month is taken also when that is not allowed.
PickMonthAnyway(firsts, month, fallback) ==
  LET hit == {r \in firsts : r.month = month}
  IN IF firsts = {} THEN {} ELSE IF hit # {} THEN hit ELSE {Earliest(firsts)}

\* _pick_month: the requested month, or the front one when that is allowed.
PickMonth(firsts, month, fallback) ==
  LET hit == {r \in firsts : r.month = month}
  IN IF firsts = {} THEN {}
     ELSE IF hit # {} THEN hit
     ELSE IF month # Open /\ ~fallback THEN {} ELSE {Earliest(firsts)}

\* select_contract for a future or an option.
SelectContract(q) == PickMonth(FirstOfMonth(LoadCandidates(q)), q.month, q.fallback)

\* _filter_chain_candidates: by exchange, month and strike, each only when it
\* leaves something.
ChainCandidates(q) ==
  LET orAll(S, T) == IF S = {} THEN T ELSE S
      venue == orAll({c \in q.listed : c.venue = "asked"}, q.listed)
      month == orAll({c \in venue : q.month = Open \/ q.month \in c.months}, venue)
  IN orAll({c \in month : q.strike = Open \/ q.strike \in c.strikes}, month)

\* _select_chain: no weekly if it can be helped, then the most strikes.
ChainBefore(c, d) ==
  \/ ~c.weekly /\ d.weekly
  \/ c.weekly = d.weekly /\ Cardinality(c.strikes) > Cardinality(d.strikes)

\* _build_fop_spec and _validate_chain: what the candidates offer together must
\* cover the request.
SelectChain(q) ==
  LET cands == ChainCandidates(q)
      covered == /\ q.month = Open \/ \E c \in cands : q.month \in c.months
                 /\ q.strike = Open \/ \E c \in cands : q.strike \in c.strikes
  IN IF ~covered THEN {}
     ELSE {CHOOSE c \in cands : \A d \in cands : ~ChainBefore(d, c)}

AnswerTo(q) ==
  CASE q.kind = "year" -> {YearRead(q)}
    [] q.kind = "row" -> SelectContract(q)
    [] OTHER -> SelectChain(q)

PicksInit == question \in Questions /\ answered = FALSE /\ answer = {}

Answer ==
  /\ ~answered /\ answered' = TRUE
  /\ answer' = AnswerTo(question)
  /\ UNCHANGED question

PicksNext == Answer
PicksSpec == PicksInit /\ [][PicksNext]_pickVars
-----------------------------------------------------------------------------
\* A one-digit code means the delivery year, over the turn of a decade too, when
\* the expiry is at most four years off it, or, with no expiry, when the
\* delivery is at most nine years ahead (_infer_year_from_code).
YearRecovered ==
  answered /\ question.kind = "year" /\ question.off \in -4 .. (IF question.dated THEN 4 ELSE 9)
    => answer = {question.year}

\* The table's pick is a first to expire of what was asked for: of the
\* requested month if the table has it, of all months only when the caller
\* allows that; and only when there is none is nothing picked.
PickIsFirst ==
  answered /\ question.kind = "row" =>
    LET q == question
        fits == {r \in q.table : /\ r.active /\ r.days >= q.min
                                 /\ q.strike \in {Open, r.strike} /\ r.month # Open}
        asked == {r \in fits : r.month = q.month}
        pool == IF q.month # Open /\ (asked # {} \/ ~q.fallback) THEN asked ELSE fits
    IN IF pool = {} THEN answer = {}
       ELSE \E r \in pool : answer = {r} /\ \A s \in pool : s.days >= r.days

\* A futures option is never specified with the trading class of a chain that
\* does not list the requested month and the requested strike, although the
\* two are validated over all candidates together (_validate_chain).
ChainOffersBoth ==
  answered /\ question.kind = "chain" => \A c \in answer :
    /\ question.month \in c.months \cup {Open}
    /\ question.strike \in c.strikes \cup {Open}

\* The choice made is the one asked for.
PicksRight == YearRecovered /\ PickIsFirst /\ ChainOffersBoth
=============================================================================
