---------------------------- MODULE MCGateLimiter ----------------------------
(* Yahoo attempts and one BOJ attempt; they share the global gate.  The time  *)
(* unit is chosen so that Yahoo's provider gate (2.5 s apart, 2 in 5 s) has    *)
(* interval 1 and window 2, and the 60 s of the BOJ policy are 3.  Every       *)
(* registered policy has concurrency 1; with 2, which GateLimit allows too,    *)
(* answers of one provider can also come in the wrong order.                   *)
EXTENDS GateLimiter, TLC

CONSTANTS y1, y2, y3, b1

MCAttempts == {y1, y2, y3, b1}
MCProviderOf == [a \in MCAttempts |-> IF a = b1 THEN "boj" ELSE "yahoo"]
MCPolicyOf == MCProviderOf
MCKeysOf == [a \in MCAttempts |-> {"global", MCProviderOf[a]}]

MCKeys == {"global", "yahoo", "boj"}
At(global, provider) == [x \in MCKeys |-> IF x = "global" THEN global ELSE provider]
Both(yahoo, boj) == [p \in {"yahoo", "boj"} |-> IF p = "yahoo" THEN yahoo ELSE boj]

MCConcurrency == Both(At(2, 2), At(1, 1))
MCInterval == Both(At(0, 1), At(3, 3))
MCPerWindow == Both(At(2, 2), At(1, 1))
MCWindow == Both(At(3, 2), At(3, 3))
MCRetryAfters == {0, 2}

\* The Yahoo attempts differ in nothing.
MCSymmetry == Permutations({y1, y2, y3})
==============================================================================
