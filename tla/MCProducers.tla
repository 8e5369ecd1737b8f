---- MODULE MCProducers ----
(* Two invocations; the commands are assigned in each way that lets one meet *)
(* what another left behind.                                               *)
EXTENDS Producers, TLC

MCWorkloads ==
    { (1 :> "boj" @@ 2 :> "offline"),
      (1 :> "dukascopy" @@ 2 :> "boj" ),
      (1 :> "dukascopy" @@ 2 :> "dukascopy" ),
      (1 :> "acceptance" @@ 2 :> "acceptance"),
      (1 :> "annual" @@ 2 :> "continuation" ),
      (1 :> "pair" @@ 2 :> "pair" ) }
====
