----------------------------- MODULE NumberGrants -----------------------------
(***************************************************************************)
(* What an INCR_FROM column promises (engine/strategies/number_strategies):*)
(* every client is granted numbers of its own, at once and for good, until *)
(* the issuer forgets what it has granted.                                 *)
(***************************************************************************)
EXTENDS Naturals

CONSTANT Clients
VARIABLE grant  \* numbers granted to every client and not forgotten

Init == grant = [c \in Clients |-> {}]

Grant(c) ==
  /\ grant[c] = {}
  /\ grant'[c] # {} /\ grant'[c] \subseteq Nat
  /\ \A d \in Clients \ {c} : grant[d] \cap grant'[c] = {}
  /\ grant' = [grant EXCEPT ![c] = grant'[c]]

Forget == grant' = [c \in Clients |-> {}]

Next == Forget \/ \E c \in Clients : Grant(c)
Spec == Init /\ [][Next]_grant
===============================================================================
