----------------------- MODULE MCNotificationDelivery -----------------------
(* One message for one recipient, who at first uses one of the channels and *)
(* is two changes away from the other; both switches are on at first.       *)
EXTENDS NotificationDelivery
CONSTANTS u1, a1, a2, m1
MCPerson == {u1}
MCAccount == {a1, a2}
MCMessage == {m1}
MCInit ==
  /\ Init
  /\ switch = [c \in Channel |-> "on"]
  /\ \A u \in Person :
       \/ prefs[u] = [email |-> TRUE, verified |-> TRUE, line |-> FALSE] /\ AccountsOf(u) = {}
       \/ prefs[u] = [email |-> FALSE, verified |-> FALSE, line |-> TRUE] /\ AccountsOf(u) = {a1}
MCSpec == MCInit /\ [][Next]_vars /\ Fairness
=============================================================================
