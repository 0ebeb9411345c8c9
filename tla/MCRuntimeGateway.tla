-------------------------- MODULE MCRuntimeGateway --------------------------
(* Instances of RuntimeGateway for TLC: the requests that clients send.    *)
EXTENDS RuntimeGateway, TLC

CONSTANTS run1, q1, q2, z1, t1, t2, c1, service, reviewer

Interchangeable == Permutations(Workers)

Decision(id, tool, mode) ==
    [op |-> "decide", run |-> run1, id |-> id, tool |-> tool, mode |-> mode,
     by |-> service, conn |-> c1]

Resume(id, h, original, tool) ==
    [op |-> "resume", run |-> run1, id |-> id, tool |-> tool, original |-> original,
     approval |-> h, decision |-> <<run1, original>>, by |-> service, conn |-> c1]

Telemetry(id, tool, type) ==
    [op |-> "telemetry", run |-> run1, id |-> id, tool |-> tool, type |-> type,
     by |-> service]

\* One call, its resume, and telemetry under the same ids.
OneCall ==
    {Decision(q1, t1, "enforcement"), Resume(z1, 1, q1, t1),
     Telemetry(q1, t1, "tool_call_requested"), Telemetry(z1, t1, "other")}

\* Two calls of a run in different modes, one of them also reported by telemetry
\* that does not say its tool, with resumes that mix up their ids and tools.
TwoCalls ==
    {Decision(q1, t1, "enforcement"), Decision(q2, t2, "simulation"),
     Telemetry(q2, None, "tool_call_requested"), Telemetry(q1, t1, "other"),
     Resume(z1, 1, q1, t1), Resume(z1, 1, q1, t2), Resume(z1, 1, q2, t2)}

\* One call and its resume.
OneResume == {Decision(q1, t1, "enforcement"), Resume(z1, 1, q1, t1)}
=============================================================================
