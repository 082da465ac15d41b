---------------------------- MODULE ActionReplies ----------------------------
(***************************************************************************)
(* An action message and the requests its handler makes from inside the    *)
(* callback, as the handlers of samples/agentBasic.c do: sendTrail and     *)
(* sendActionCompleted, and for a method sendMethodResponse.  All run in   *)
(* the Paho thread, one after the other, before the array of entities is   *)
(* freed.  The texts of a request depend on its arguments alone, so that   *)
(* what is shown of them here holds of requests from elsewhere.            *)
(***************************************************************************)
EXTENDS ActionMessage, Requests

RepliesInit == Init /\ RequestsInit

\* The handler runs: it sends, or calls another function of the SDK.
HandlerSends ==
    /\ pc = "call" /\ status # "crashed"
    /\ RequestsNext
    /\ UNCHANGED vars

\* The message goes on once the handler is not inside a request.  One that
\* crashes takes the process with it.
MessageGoesOn ==
    /\ composed = Nothing /\ outcome = "ok"
    /\ Next
    /\ UNCHANGED requestVars

RepliesNext == HandlerSends \/ MessageGoesOn

RepliesSpec == RepliesInit /\ [][RepliesNext]_<<vars, requestVars>>
=============================================================================
