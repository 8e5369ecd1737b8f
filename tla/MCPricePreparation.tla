---- MODULE MCPricePreparation ----
(* Five days, the fourth without a session; one calendar begins late and one  *)
(* ends early; two sources are due for recheck on the last day.               *)
EXTENDS PricePreparation, TLC

MCSessions == {0, 1, 2, 4}
MCCalendars ==
    { [from |-> 0, to |-> 5, dates |-> {0, 1, 2, 4}],
      [from |-> 0, to |-> 1, dates |-> {0, 1}],
      [from |-> 2, to |-> 5, dates |-> {2, 4}] }
MCApproval ==
    [s \in Sources |-> IF s = "jpx" THEN [from |-> 0, due |-> 9]
                       ELSE IF s = "yfinance" THEN [from |-> 0, due |-> 4]
                       ELSE [from |-> 1, due |-> 4]]
====
