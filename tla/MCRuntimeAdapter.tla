-------------------------- MODULE MCRuntimeAdapter --------------------------
(* Instances of RuntimeAdapter for TLC.                                    *)
EXTENDS RuntimeAdapter

CONSTANTS run1, t1

OneCall == {[run |-> run1, tool |-> t1, ref |-> "a", mode |-> "enforcement"]}

\* Telemetry that takes the ids of decision requests, and telemetry that
\* reports the calls itself.
Reports ==
    {[op |-> "telemetry", run |-> run1, id |-> RequestId(c), tool |-> t1, type |-> t,
      by |-> Service] : c \in Calls, t \in {"tool_call_requested", "other"}}

NoReports == {}

Ids == {RequestId(c) : c \in Calls} \cup {ResumeId(c, h) : c \in Calls, h \in ApprovalIds}
=============================================================================
