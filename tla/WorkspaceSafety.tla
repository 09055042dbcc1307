-------------------------- MODULE WorkspaceSafety --------------------------
(***************************************************************************)
(* The invariant from which WorkspaceProofs derives the safety properties  *)
(* of the workspace.                                                       *)
(***************************************************************************)
EXTENDS WorkspaceProperties

Phases == {"idle", "submitting", "loading-results", "succeeded", "failed"}
Kinds  == {"new", "revision", "load", "clone"}
Stops  == {"create", "revise", "publish", "snapshot", "scenario", "content", "clone"}

Number    == Nat \cup {None}
Drafts    == [content : Contents, saved : Number, opened : Nat]
Results   == [seq : Nat, run : Nat, content : Contents, opened : Nat]
CallSet   == [seq : Nat, at : {"create", "results"}, aborted : BOOLEAN, content : Contents,
              opened : Nat, run : Number]
TaskSet   == [no : Nat, mount : Nat, kind : Kinds, at : Stops, id : Number, rev : Number,
              draft : Drafts]
Revisions == [content : Contents, published : BOOLEAN]

RunnerTyped ==
    /\ seq \in Nat /\ switched \in Nat /\ switched <= seq
    /\ phase \in Phases
    /\ calls \in SUBSET CallSet
    /\ lastRun \in Results \cup {None}
    /\ history \in Seq(Results)
    /\ runs \in Seq(Contents)

LibraryTyped ==
    /\ draft \in Drafts /\ baseline \in Contents
    /\ mount \in Nat /\ started \in Nat
    /\ listed \in SUBSET Nat /\ bookmarks \in SUBSET Nat
    /\ tasks \in SUBSET TaskSet
    /\ scenarios \in Seq(Seq(Revisions))

\* Of the calls that await an answer one at most is current; it is not aborted and
\* was submitted after the last switch.
CallsApart ==
    /\ \A c \in calls : c.seq <= seq /\ c.seq # switched /\ (c.aborted => c.seq # seq)
    /\ \A c, d \in calls : c.seq = d.seq => c = d

\* What is shown, or will be, has its run on the server.
Computed(e)  == e.run \in 1 .. Len(runs) /\ runs[e.run] = e.content
RunsComputed ==
    /\ \A c \in calls : c.at = "results" => Computed(c)
    /\ lastRun # None => Computed(lastRun)
    /\ \A i \in 1 .. Len(history) : Computed(history[i])

\* What is shown was submitted before whatever still awaits an answer, or is not
\* current any more.
HistoryBehind ==
    \A i \in 1 .. Len(history) :
        history[i].seq <= seq /\ \A c \in calls : history[i].seq # c.seq

Stored(id)             == id \in 1 .. Len(scenarios)
StoredRevision(id, r)  == Stored(id) /\ r \in 1 .. Len(scenarios[id])
StoredAs(id, r, content) == StoredRevision(id, r) /\ scenarios[id][r].content = content

\* No scenario is without a revision.
ScenariosFilled == \A id \in 1 .. Len(scenarios) : 1 <= Len(scenarios[id])

\* The rows a task goes on with exist, and those it saved hold the draft it began with.
TaskSound(t) ==
    /\ t.at \in {"revise", "scenario"} => Stored(t.id)
    /\ t.at \in {"publish", "snapshot"} => StoredAs(t.id, t.rev, t.draft.content)
    /\ t.at \in {"content", "clone"} => StoredRevision(t.id, t.rev)

LibrarySound ==
    /\ ScenariosFilled
    /\ \A id \in listed \cup bookmarks : Stored(id)
    /\ \A t \in tasks : TaskSound(t)

\* What counts as saved is a revision of the scenario the draft is saved as.
BaselineStored ==
    draft.saved # None =>
        /\ Stored(draft.saved)
        /\ \E r \in 1 .. Len(scenarios[draft.saved]) : scenarios[draft.saved][r].content = baseline

\* The part of the run hook and the part of the library; together they are inductive.
Runner ==
    /\ RunnerTyped /\ CallsApart /\ RunsComputed /\ HistoryBehind
    /\ LateAnswersDropped /\ ProgressReal

Library == LibraryTyped /\ LibrarySound /\ BaselineStored
=============================================================================
