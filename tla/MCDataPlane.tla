----------------------------- MODULE MCDataPlane -----------------------------
(* One client with every client_event and a stream long enough to cancel in *)
(* the middle of it, and two clients that meet at the barrier.              *)
EXTENDS DataPlane

CONSTANTS c1, c2

TwoClients == {c1, c2}
AllEvents == {"none", "disconnect", "backpressure_timeout", "cancel_before_receipt",
              "cancel_after_receipt"}
=============================================================================
