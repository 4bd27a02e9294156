------------------------------ MODULE RpcPromise ------------------------------
(***************************************************************************)
(* What the IPC layer promises about each request, queues and sessions     *)
(* aside: it is answered by its service at most once, only after it was    *)
(* queued, and its answer is handed to the client at most once.  A request *)
(* may also come to nothing.                                               *)
(***************************************************************************)
CONSTANT Req

VARIABLE status

Moves == {<<"new", "queued">>, <<"new", "gone">>,
          <<"queued", "answered">>, <<"queued", "gone">>,
          <<"answered", "received">>}

Init == status = [r \in Req |-> "new"]

\* Several requests may move at once: one pump serves every session.
Next ==
  /\ status' \in [Req -> {"new", "queued", "answered", "received", "gone"}]
  /\ \A r \in Req : status'[r] = status[r] \/ <<status[r], status'[r]>> \in Moves

Spec == Init /\ [][Next]_status
=============================================================================
