------------------------------ MODULE MCCalls ------------------------------
(* A small instance of Calls for TLC. *)
EXTENDS Calls, TLC

Ask(route, method) == [route |-> route, method |-> method]

(* Every route with every method it may carry. *)
EveryRequest ==
  {Ask("fetch", m) : m \in Methods} \cup {Ask("mcp", "POST")}
    \cup {Ask("authorization", m) : m \in {"GET", "POST"}}

Broker(g, p, w, l) == [global |-> g, provider |-> p, writes |-> w, lockdown |-> l]

(* Roomy, one at a time for a provider, one at a time, read-only, locked. *)
EveryBroker ==
  {Broker(2, 2, TRUE, FALSE), Broker(2, 1, TRUE, FALSE), Broker(1, 1, FALSE, FALSE),
   Broker(1, 1, TRUE, TRUE)}

(* One request of any kind alone, already granted or not, and the same     *)
(* write asked twice.                                                       *)
First == CHOOSE w \in Work : TRUE
Alone(granted) ==
  [asks |-> [c \in Work |-> IF c = First THEN EveryRequest ELSE {}], granted |-> granted]
Beside == [asks |-> [c \in Work |-> {Ask("fetch", "POST")}], granted |-> FALSE]
AloneAndBeside == {Alone(TRUE), Alone(FALSE), Beside}

PerKey(n) == [k \in Keys |-> n]
One == PerKey(1)
=============================================================================
