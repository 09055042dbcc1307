----------------------------- MODULE Workspace -----------------------------
(***************************************************************************)
(* The browser workspace: the draft and its saved baseline                 *)
(* (WorkspaceShell.tsx), the run state machine (useRunScenario.ts) and the *)
(* library of saved scenarios (ScenarioLibrary.tsx, storage.ts).           *)
(*                                                                         *)
(* Every async function of theirs is cut at its awaits: between two of     *)
(* them the user edits, switches, runs, closes panels, and other answers   *)
(* come in.  `calls` are the executions of run() and `tasks` those of the  *)
(* library that still await an answer.  The server executes a request in   *)
(* the step that answers it; what it executed for an answer that is lost   *)
(* has an identifier nobody learns and is left out.  Contents stand for    *)
(* everything in a draft that reaches a request.                           *)
(***************************************************************************)
EXTENDS Naturals, FiniteSets, Sequences

CONSTANTS
    None,
    Contents,
    Blank,      \* emptyDraft()
    Preset,     \* the content of a packaged preset
    MaxHistory, \* MAX_HISTORY
    MaxSeq,     \* bound: submissions and switches
    MaxEdits,   \* bound: edits
    MaxTasks,   \* bound: operations of the library
    MaxMounts   \* bound: times the library panel opens

ASSUME WorkspaceAssumption ==
    /\ {Blank, Preset} \subseteq Contents /\ None \notin Contents
    /\ MaxHistory \in Nat \ {0}

VARIABLES
    draft,    \* [content, saved: id of the saved scenario, opened: the switch that opened it]
    baseline, \* savedSig: the content that counts as saved
    switched, \* value of seq at the last switch; not a variable of the program
    seq, phase, lastRun, history, calls, \* of useRunScenario
    mount,    \* how often the library panel was opened
    open,     \* whether it is
    listed,   \* its pointers
    tasks, bookmarks, \* localStorage
    scenarios, \* server: the revisions [content, published] of every scenario
    runs,     \* server: the content every run was computed from
    edits, started \* counted against the bounds

runner  == <<seq, phase, lastRun, history, calls>>
library == <<mount, open, listed, tasks, bookmarks, started>>
vars    == <<draft, baseline, switched, runner, library, scenarios, runs, edits>>

Draft(content, saved, opened) == [content |-> content, saved |-> saved, opened |-> opened]

Init ==
    /\ draft = Draft(Preset, None, 0) /\ baseline = Preset /\ switched = 0
    /\ seq = 0 /\ phase = "idle" /\ lastRun = None /\ history = <<>> /\ calls = {}
    /\ mount = 0 /\ open = FALSE /\ listed = {} /\ tasks = {} /\ bookmarks = {}
    /\ scenarios = <<>> /\ runs = <<>>
    /\ edits = 0 /\ started = 0

-----------------------------------------------------------------------------
\* useRunScenario.ts.
InFlight == phase \in {"submitting", "loading-results"}

Call(k, content, opened) ==
    [seq |-> k, at |-> "create", aborted |-> FALSE, content |-> content, opened |-> opened,
     run |-> None]

\* abortRef.current?.abort(): a call that is not the latest is aborted already, and
\* a fetch that has ended ignores it.
Aborted(cs) == {[c EXCEPT !.aborted = TRUE] : c \in cs}

\* A slip: a switch leaves the phase alone.
ResetKeepsPhase ==
    /\ seq' = seq + 1 /\ calls' = Aborted(calls)
    /\ lastRun' = None
    /\ UNCHANGED <<phase, history>>

Reset ==
    /\ seq' = seq + 1 /\ calls' = Aborted(calls)
    /\ phase' = "idle" /\ lastRun' = None
    /\ UNCHANGED history

\* A slip: the controller is replaced before the earlier one is aborted.
SubmittedAborted == calls \cup Aborted({Call(seq + 1, draft.content, draft.opened)})
Submitted        == Aborted(calls) \cup {Call(seq + 1, draft.content, draft.opened)}

\* onRun and run(): the button is disabled while a run is in flight.
Run ==
    /\ seq < MaxSeq /\ ~InFlight
    /\ seq' = seq + 1 /\ calls' = Submitted /\ phase' = "submitting"
    /\ UNCHANGED <<draft, baseline, switched, lastRun, history, library, scenarios, runs, edits>>

\* A slip: whatever comes in is applied.
AlwaysCurrent(c) == TRUE
IsCurrent(c) == c.seq = seq

\* A slip: the input is read when the result comes in.
ShownDraft(c) == [seq |-> c.seq, run |-> c.run, content |-> draft.content, opened |-> draft.opened]
Shown(c) == [seq |-> c.seq, run |-> c.run, content |-> c.content, opened |-> c.opened]

Trim(h) == SubSeq(h, 1, IF Len(h) < MaxHistory THEN Len(h) ELSE MaxHistory)

\* createRun is answered; the server has stored the run.
CreateAnswered(c) ==
    /\ c.at = "create"
    /\ runs' = Append(runs, c.content)
    /\ IF IsCurrent(c)
       THEN /\ phase' = "loading-results"
            /\ calls' = (calls \ {c}) \cup {[c EXCEPT !.at = "results", !.run = Len(runs) + 1]}
       ELSE /\ calls' = calls \ {c} /\ UNCHANGED phase
    /\ UNCHANGED <<seq, lastRun, history>>

\* getRunResults is answered with an envelope that parses.
ResultsAnswered(c) ==
    /\ c.at = "results"
    /\ calls' = calls \ {c}
    /\ IF IsCurrent(c)
       THEN /\ lastRun' = Shown(c) /\ phase' = "succeeded"
            /\ history' = Trim(<<Shown(c)>> \o history)
       ELSE UNCHANGED <<lastRun, phase, history>>
    /\ UNCHANGED <<seq, runs>>

\* An error answer, a broken connection or an envelope that does not parse.
AnswerFailed(c) ==
    /\ calls' = calls \ {c}
    /\ phase' = IF IsCurrent(c) THEN "failed" ELSE phase
    /\ UNCHANGED <<seq, lastRun, history, runs>>

\* The fetch rejects with AbortError.
AnswerAborted(c) ==
    /\ c.aborted
    /\ calls' = calls \ {c}
    /\ UNCHANGED <<seq, phase, lastRun, history, runs>>

RunAnswered ==
    /\ \E c \in calls :
          CreateAnswered(c) \/ ResultsAnswered(c) \/ AnswerFailed(c) \/ AnswerAborted(c)
    /\ UNCHANGED <<draft, baseline, switched, library, scenarios, edits>>

-----------------------------------------------------------------------------
\* WorkspaceShell.tsx.
Unsaved == draft.content # baseline

\* setDraft through any of the patch helpers.
Edit ==
    /\ edits < MaxEdits /\ edits' = edits + 1
    /\ \E content \in Contents \ {draft.content} : draft' = [draft EXCEPT !.content = content]
    /\ UNCHANGED <<baseline, switched, runner, library, scenarios, runs>>

LoadDraft(next) == draft' = next /\ baseline' = next.content

\* loadDraft with `switch`.
SwitchTo(content, saved) ==
    /\ LoadDraft(Draft(content, saved, seq + 1))
    /\ switched' = seq + 1
    /\ Reset

\* onNewScenario.  With unsaved changes the user is asked and consents.
NewScenario ==
    /\ seq < MaxSeq
    /\ SwitchTo(Blank, None)
    /\ UNCHANGED <<library, scenarios, runs, edits>>

-----------------------------------------------------------------------------
\* ScenarioLibrary.tsx.  A closed panel unmounts it and its tasks go on; opened
\* again it is a new instance, which is not busy.
Busy == \E t \in tasks : t.mount = mount

OpenLibrary ==
    /\ ~open /\ mount < MaxMounts
    /\ open' = TRUE /\ mount' = mount + 1 /\ listed' = bookmarks
    /\ UNCHANGED <<draft, baseline, switched, runner, tasks, bookmarks, started, scenarios, runs, edits>>

CloseLibrary ==
    /\ open /\ open' = FALSE
    /\ UNCHANGED <<draft, baseline, switched, runner, mount, listed, tasks, bookmarks, started,
                   scenarios, runs, edits>>

\* Every operation holds the draft and the pointer it was clicked on.
Start(kind, at, id) ==
    /\ open /\ ~Busy /\ started < MaxTasks
    /\ started' = started + 1
    /\ tasks' = tasks \cup {[no |-> started + 1, mount |-> mount, kind |-> kind, at |-> at,
                             id |-> id, rev |-> None, draft |-> draft]}
    /\ UNCHANGED <<draft, baseline, switched, runner, mount, open, listed, bookmarks,
                   scenarios, runs, edits>>

SaveNew      == Start("new", "create", None)
SaveRevision == draft.saved # None /\ Start("revision", "revise", draft.saved)
Load         == \E id \in listed : Start("load", "scenario", id)
Clone        == \E id \in listed : Start("clone", "scenario", id)

LoadBuiltin ==
    /\ open /\ ~Busy /\ seq < MaxSeq
    /\ SwitchTo(Preset, None)
    /\ UNCHANGED <<library, scenarios, runs, edits>>

\* forgetPointer: not disabled while busy.
ForgetPointer ==
    /\ open
    /\ \E id \in listed : bookmarks' = bookmarks \ {id}
    /\ listed' = bookmarks'
    /\ UNCHANGED <<draft, baseline, switched, runner, mount, open, tasks, started,
                   scenarios, runs, edits>>

Revision(content, published) == [content |-> content, published |-> published]

\* scenario.current_revision_id, or else the newest revision.
Latest(id) ==
    LET ours      == scenarios[id]
        published == {r \in DOMAIN ours : ours[r].published}
    IN  CHOOSE r \in DOMAIN ours :
            /\ published # {} => r \in published
            /\ \A q \in IF published # {} THEN published ELSE DOMAIN ours : q <= r

Proceeds(t, at, id, rev) == tasks' = (tasks \ {t}) \cup {[t EXCEPT !.at = at, !.id = id, !.rev = rev]}
Ends(t) == tasks' = tasks \ {t}

\* addPointer; only a mounted instance shows it.
Bookmarks(t, id) ==
    /\ bookmarks' = bookmarks \cup {id}
    /\ listed' = IF t.mount = mount THEN bookmarks' ELSE listed

\* createScenario: a head and its first draft revision.
ScenarioCreated(t) ==
    /\ t.at = "create"
    /\ scenarios' = Append(scenarios, <<Revision(t.draft.content, FALSE)>>)
    /\ Proceeds(t, "publish", Len(scenarios'), 1)
    /\ UNCHANGED <<draft, baseline, switched, runner, bookmarks, listed>>

\* createScenarioRevision.
RevisionCreated(t) ==
    /\ t.at = "revise"
    /\ scenarios' = [scenarios EXCEPT ![t.id] = Append(@, Revision(t.draft.content, FALSE))]
    /\ Proceeds(t, "publish", t.id, Len(scenarios'[t.id]))
    /\ UNCHANGED <<draft, baseline, switched, runner, bookmarks, listed>>

\* publishScenarioRevision.
RevisionPublished(t) ==
    /\ t.at = "publish"
    /\ scenarios' = [scenarios EXCEPT ![t.id][t.rev].published = TRUE]
    /\ Proceeds(t, "snapshot", t.id, t.rev)
    /\ UNCHANGED <<draft, baseline, switched, runner, bookmarks, listed>>

\* A slip: the draft of now is taken for the one that was saved.
RebasedNow(t) == Draft(draft.content, t.id, draft.opened)
Rebased(t)    == Draft(t.draft.content, t.id, t.draft.opened)

\* createSnapshot, then the rebase of the draft the save began with.
SaveDone(t) ==
    /\ t.at = "snapshot" /\ Ends(t)
    /\ IF t.kind = "new" THEN Bookmarks(t, t.id) ELSE UNCHANGED <<bookmarks, listed>>
    /\ LoadDraft(Rebased(t))
    /\ UNCHANGED <<switched, runner, scenarios>>

\* getScenario.
ScenarioRead(t) ==
    /\ t.at = "scenario"
    /\ Proceeds(t, IF t.kind = "load" THEN "content" ELSE "clone", t.id, Latest(t.id))
    /\ UNCHANGED <<draft, baseline, switched, runner, bookmarks, listed, scenarios>>

\* getRevisionContent, then the switch to what was read.
LoadDone(t) ==
    /\ t.at = "content" /\ Ends(t) /\ seq < MaxSeq
    /\ SwitchTo(scenarios[t.id][t.rev].content, t.id)
    /\ UNCHANGED <<bookmarks, listed, scenarios>>

\* cloneScenarioRevision: a scenario of its own with a draft revision.
CloneDone(t) ==
    /\ t.at = "clone" /\ Ends(t)
    /\ scenarios' = Append(scenarios, <<Revision(scenarios[t.id][t.rev].content, FALSE)>>)
    /\ Bookmarks(t, Len(scenarios'))
    /\ UNCHANGED <<draft, baseline, switched, runner>>

\* Any answer may be an error; the catch ends the operation where it is.
TaskFailed(t) ==
    /\ Ends(t)
    /\ UNCHANGED <<draft, baseline, switched, runner, bookmarks, listed, scenarios>>

TaskAnswered ==
    /\ \E t \in tasks :
          \/ ScenarioCreated(t) \/ RevisionCreated(t) \/ RevisionPublished(t) \/ SaveDone(t)
          \/ ScenarioRead(t) \/ LoadDone(t) \/ CloneDone(t) \/ TaskFailed(t)
    /\ UNCHANGED <<mount, open, started, runs, edits>>

Next ==
    \/ Run \/ RunAnswered \/ Edit \/ NewScenario
    \/ OpenLibrary \/ CloseLibrary \/ SaveNew \/ SaveRevision \/ Load \/ Clone \/ LoadBuiltin
    \/ ForgetPointer \/ TaskAnswered

Spec == Init /\ [][Next]_vars

\* Every fetch of a run comes to an end.
FairSpec == Spec /\ WF_vars(RunAnswered)
=============================================================================
