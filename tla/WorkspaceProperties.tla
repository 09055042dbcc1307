------------------------ MODULE WorkspaceProperties ------------------------
(***************************************************************************)
(* What the workspace shows: a result next to the input it belongs to, a   *)
(* progress that is real, and a saved mark that is true.                   *)
(***************************************************************************)
EXTENDS Workspace

Entries == {history[i] : i \in DOMAIN history} \cup ({lastRun} \ {None})

\* A result is shown next to the input the server computed it from, however the
\* draft was edited, saved or replaced while it was computed.
ResultOfItsInput == \A e \in Entries : runs[e.run] = e.content

\* "Only the most recently submitted request may write results": what was submitted
\* before the last switch never becomes the current answer, and the history is in
\* the order of submission, although answers come in any order.
LateAnswersDropped ==
    /\ lastRun # None => lastRun.seq > switched
    /\ \A i \in 1 .. Len(history) - 1 : history[i].seq > history[i + 1].seq

\* The button is disabled exactly while the newest submission awaits an answer it
\* will apply: a switch in the middle neither leaves it disabled nor enables it
\* under a submission that can still write.
ProgressReal ==
    /\ phase = "submitting" <=> \E c \in calls : c.seq = seq /\ c.at = "create"
    /\ phase = "loading-results" <=> \E c \in calls : c.seq = seq /\ c.at = "results"

\* A draft that is shown as saved is on the server: some revision of the scenario it
\* is saved as has its content, whatever was edited or saved at the same time.
SavedIsStored ==
    ~Unsaved /\ draft.saved # None =>
        \E r \in DOMAIN scenarios[draft.saved] :
            scenarios[draft.saved][r].content = draft.content

\* A submission is never in flight for ever.
RunSettles == InFlight ~> ~InFlight

-----------------------------------------------------------------------------
\* Stated by the code, and not so.

\* WorkspaceShell.tsx, lines 164-165: "different scenarios must never share the same
\* globe/budget/progress".  A save that was started in a scenario since left brings
\* its draft back beside the result of the other one.
OneScenario == lastRun # None => lastRun.opened = draft.opened
=============================================================================
