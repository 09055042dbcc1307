------------------------- MODULE CatalogProperties -------------------------
(***************************************************************************)
(* What the catalog promises: the lifecycle rules that the docstring of    *)
(* application/catalog.py lists, stated of rows that other threads, failed *)
(* calls and crashes may have left half way through a use case.            *)
(***************************************************************************)
EXTENDS Catalog

HeadId     == DOMAIN heads
RevisionId == DOMAIN revisions
Published(r) == revisions[r].status = "PUBLISHED"

\* The pointer of a head only ever references a published revision of that head,
\* whoever publishes what at the same time (catalog.py: "the pointer may only
\* reference a published revision of that head"); no row constraint says so.
CurrentIsPublished ==
    \A h \in HeadId : heads[h].current # None =>
        Published(heads[h].current) /\ revisions[heads[h].current].head = h

\* A snapshot is a faithful copy of a revision that is published, then and now:
\* the revision was read some calls before the snapshot was inserted.
SnapshotsFrozen ==
    \A s \in DOMAIN snapshots :
        LET r == snapshots[s].rev
        IN  /\ Published(r)
            /\ revisions[r].no = snapshots[s].no /\ revisions[r].content = snapshots[s].content

\* The revisions of a head are numbered 1 .. n, each number once, although the
\* number is counted in one call and used in another.
NumbersGapless ==
    \A h \in HeadId :
        LET ours == RevisionsOf(h)
        IN  {revisions[r].no : r \in ours} = 1 .. Cardinality(ours)

\* Nothing is left half done by requests that get in each other's way: once all
\* threads rest and no call has failed, every scenario has a revision, and every
\* head with a published revision points at one.
SettledAtRest ==
    (faults = 0 /\ mode = "serving" /\ \A p \in Processes : At(p, "idle")) =>
        \A h \in HeadId :
            /\ heads[h].shelf = "scenario" => RevisionsOf(h) # {}
            /\ (\E r \in RevisionsOf(h) : Published(r)) => heads[h].current # None

\* A published revision stays published, with the head, number and content it
\* was published with: a change makes a new revision.
PublishedStays ==
    [][\A r \in RevisionId : Published(r) /\ r \in DOMAIN revisions' =>
          LET row == revisions[r]
          IN  /\ revisions'[r].status = "PUBLISHED" /\ revisions'[r].head = row.head
              /\ revisions'[r].no = row.no /\ revisions'[r].content = row.content]_vars

\* However often the process dies or is refused by the database while it seeds
\* the presets, it serves in the end: what an earlier start left behind never
\* makes the seeding raise.
ServesAgain == <>[](mode = "serving")

-----------------------------------------------------------------------------
\* Stated by the code, and not so.

\* catalog.py, line 398: on a restart the preset already exists.  It may be one
\* that has no published revision, and it stays so.
PresetsComplete ==
    mode = "serving" =>
        \A i \in 1 .. Len(Presets) :
            \E h \in HeadId : /\ heads[h].shelf = "scenario" /\ heads[h].key = Presets[i].key
                              /\ heads[h].preset /\ heads[h].current # None
=============================================================================
