---- MODULE MCFinancialPreparation ----
(* Two annual reports, and an older one with its amendment, in the lists of   *)
(* two days; the archives agree or differ in one respect at a time.         *)
EXTENDS FinancialPreparation, TLC

Row(type, start, parent, issuer, on) ==
    [type |-> type, start |-> start, parent |-> parent, issuer |-> issuer, on |-> on]
MCFiling ==
    "p" :> Row("120", 3, NoValue, "e", 2) @@ "a" :> Row("120", 2, NoValue, "e", 1)
      @@ "q" :> Row("120", 1, NoValue, "e", 1) @@ "r" :> Row("130", NoPeriod, "q", "e", 1)

MCMetrics == {"sales", "assets"}
Fact(d, m, y, v, fit) == [doc |-> d, metric |-> m, year |-> y, value |-> v, fit |-> fit]
All(d, years, v) == {Fact(d, m, y, v[y], TRUE) : m \in MCMetrics, y \in years}
Figures == (0 :> "w" @@ 1 :> "x" @@ 2 :> "y" @@ 3 :> "z")
Agreeing == All("p", {2, 3}, Figures) \cup All("a", {1, 2}, Figures)
              \cup All("q", {0, 1}, Figures) \cup All("r", {0, 1}, Figures)
Without(d, y) == {f \in Agreeing : f.doc # d \/ f.year # y}
MCFactSets ==
    { Without("a", 2) \cup {Fact("a", "sales", 1, "x2", FALSE)},
      Agreeing \cup {Fact("p", "sales", 3, Nil, TRUE), Fact("a", "sales", 1, "x2", TRUE)},
      Without("p", 2) \cup All("p", {2}, 2 :> "y2"),
      Without("r", 1) \cup All("r", {1}, 1 :> "x2") }
====
