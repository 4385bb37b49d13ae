------------------------------ MODULE MCPages ------------------------------
(***************************************************************************)
(* What the pages of the application show, one part of it per behaviour:   *)
(* lists pushed over the event stream, a group's figures, the choice of a  *)
(* contract, the quote boards.  The parts share no state.                  *)
(***************************************************************************)
EXTENDS UiEvents, GroupFigures, ContractPicks, MarketBoard, TLC

VARIABLE part

pageVars == <<part, uiVars, figureVars, pickVars, boardVars>>

PagesInit ==
  /\ part \in {"events", "figures", "picks", "board"}
  /\ UiInit /\ FiguresInit /\ BoardInit
  /\ IF part = "picks" THEN PicksInit
     ELSE /\ question = (CHOOSE q \in Questions : TRUE)
          /\ answered = FALSE /\ answer = {}

PagesNext ==
  /\ UNCHANGED part
  /\ \/ part = "events" /\ UiNext /\ UNCHANGED <<figureVars, pickVars, boardVars>>
     \/ part = "figures" /\ FiguresNext /\ UNCHANGED <<uiVars, pickVars, boardVars>>
     \/ part = "picks" /\ PicksNext /\ UNCHANGED <<uiVars, figureVars, boardVars>>
     \/ part = "board" /\ BoardNext /\ UNCHANGED <<uiVars, figureVars, pickVars>>

PagesSpec == PagesInit /\ [][PagesNext]_pageVars

\* Workers are alike, and so are trade groups.
PageSymmetry == Permutations(Workers) \cup Permutations(Campaigns)

MCSizes == {2, -1}

\* A row without a month, two of the front month, two of the next, one of them
\* retired, and one that expires with another.
MCTableRows ==
  {[month |-> 0, days |-> 1, active |-> TRUE, strike |-> 12],
   [month |-> 4, days |-> 1, active |-> TRUE, strike |-> 10],
   [month |-> 4, days |-> 3, active |-> TRUE, strike |-> 12],
   [month |-> 5, days |-> 2, active |-> TRUE, strike |-> 10],
   [month |-> 5, days |-> 5, active |-> FALSE, strike |-> 12],
   [month |-> 6, days |-> 3, active |-> TRUE, strike |-> 12]}
MCChains ==
  [venue : {"asked", "other"}, months : SUBSET {4, 5}, strikes : SUBSET {10, 12},
   weekly : BOOLEAN]
MCChainLists == {{c, d} : c \in MCChains, d \in MCChains}
=============================================================================
