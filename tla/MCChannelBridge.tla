--------------------------- MODULE MCChannelBridge ---------------------------
(* Instance of ChannelBridge for TLC: a chat alone with its bridge.        *)
EXTENDS ChannelBridge

(* All that DaemonLoops assumes of the bridge, except that nobody else     *)
(* answers the approval and its timeout may be any time away.              *)
ChatSpec ==
    /\ Init /\ [][Next]_vars
    /\ WF_vars(PollStep) /\ SF_vars(Answer)
    /\ WF_vars(Dispatch \/ LeaveLoop \/ AbortTasks) /\ SF_vars(EndTurn)

=============================================================================
