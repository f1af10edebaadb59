--------------------------- MODULE ReleasePublish ---------------------------
(***************************************************************************)
(* Publication of one version (.github/release/release_automation.py,      *)
(* ReleasePublisher.publish) by runs of the workflow: retries of one run,  *)
(* runs of other commits that ask for the same version, and runs by hand.  *)
(* GitHub holds the state, and nothing there is a transaction.  A request  *)
(* may be refused, fail, or take effect after its sender has given up or   *)
(* was killed; people create, edit, publish and delete meanwhile.          *)
(*                                                                         *)
(* GitHub is modelled from how the script uses it: a tag is created only   *)
(* where there is none; a lookup by tag sees published releases only; the  *)
(* list has the drafts too, newest first; several drafts may have one tag, *)
(* but a version is published once.  The objects of annotated tags are not *)
(* represented: a tag is the commit it resolves to.                        *)
(*                                                                         *)
(* An operator named Slip... is a plausible mistake in the definition that *)
(* follows it, kept to show that some property notices it.                 *)
(***************************************************************************)
EXTENDS Integers, Sequences, FiniteSets

CONSTANTS
    Run, Commit,
    NoRun, NoCommit,
    PageSize,       \* RELEASE_LIST_PAGE_SIZE
    PageLimit,      \* RELEASE_LIST_PAGE_LIMIT
    MaxOthers,      \* bound: releases of other versions
    MaxMeddling     \* bound: things people do

ASSUME ReleasePublishAssumption ==
    /\ NoRun \notin Run /\ NoCommit \notin Commit
    /\ PageSize \in Nat \ {0} /\ PageLimit \in Nat \ {0}
    /\ MaxOthers \in Nat /\ MaxMeddling \in Nat

VARIABLES
    commit,         \* the commit each run has tested
    serialized,     \* the runs are jobs of the workflow, one at a time
    pc, page,       \* of each run: where it is, the page it reads next
    raced,          \* runs that have lost a race to create the release
    inFlight,       \* requests that change something and have not arrived
    tag,            \* what the tag of the version resolves to
    releases,       \* all releases, newest first
    meddling,       \* things people did
    latest,         \* history: the run that started last
    interrupted,    \* history: runs with a failed call, or killed
    disturbed,      \* history: runs in whose time people did something
    crossed         \* history: a request arrived after a later run had begun

request == <<commit, serialized>>
runs == <<pc, page, raced>>
server == <<inFlight, tag, releases>>
history == <<meddling, latest, interrupted, disturbed, crossed>>
vars == <<request, runs, server, history>>

Other == [tagged |-> FALSE, foreign |-> TRUE, draft |-> FALSE, prerelease |-> FALSE,
          marker |-> NoCommit, target |-> NoCommit, id |-> 0]

Init ==
    /\ commit \in [Run -> Commit] /\ serialized \in BOOLEAN
    /\ pc = [r \in Run |-> "idle"] /\ page = [r \in Run |-> 1]
    /\ raced = {} /\ inFlight = {}
    /\ tag = NoCommit
    /\ \E n \in 0 .. MaxOthers : releases = [i \in 1 .. n |-> Other]
    /\ meddling = 0 /\ latest = NoRun
    /\ interrupted = {} /\ disturbed = {} /\ crossed = FALSE

Ended == {"succeeded", "failed"}
Active(r) == pc[r] \notin Ended \cup {"idle"}
GoTo(r, place) == pc' = [pc EXCEPT ![r] = place]

\* An id no release has.
Id == CHOOSE id \in 1 .. Len(releases) + 1 : \A i \in DOMAIN releases : releases[i].id # id

-----------------------------------------------------------------------------
\* The concurrency group of the workflow lets one job of a version run.
Start(r) ==
    /\ pc[r] = "idle"
    /\ serialized => \A q \in Run : ~Active(q)
    /\ GoTo(r, "tag")
    /\ latest' = r
    /\ UNCHANGED <<request, page, raced, server, meddling, interrupted, disturbed, crossed>>

\* Slip: whatever tag there is will do.
SlipTrustTag(r) == TRUE
TagMatches(r) == tag = commit[r]

\* ensure_tag: a missing tag is to be created; one that is there must match.
GetTag(r) ==
    /\ pc[r] = "tag"
    /\ GoTo(r, IF tag = NoCommit THEN "object"
               ELSE IF TagMatches(r) THEN "lookup" ELSE "failed")
    /\ UNCHANGED <<request, page, raced, server, history>>

Ref(r) == [run |-> r, kind |-> "ref", id |-> 0]
Draft(r) == [run |-> r, kind |-> "draft", id |-> 0]
Publish(r, rel) == [run |-> r, kind |-> "publish", id |-> rel.id]
Send(q) == inFlight' = inFlight \cup {q}

\* POST git/tags, of which nothing is seen, then POST git/refs.
CreateTag(r) ==
    /\ pc[r] = "object"
    /\ GoTo(r, "ref sent")
    /\ Send(Ref(r))
    /\ UNCHANGED <<request, page, raced, tag, releases, history>>

\* After a conflict the tag is read again and must match.
CheckWinner(r) ==
    /\ pc[r] = "ref lost"
    /\ GoTo(r, IF tag # NoCommit /\ TagMatches(r) THEN "lookup" ELSE "failed")
    /\ UNCHANGED <<request, page, raced, server, history>>

\* Slip: a draft for the right commit is taken for one's own.
SlipOwnedByTarget(r, rel) == rel.target = commit[r]
Owned(r, rel) == rel.marker = commit[r] /\ rel.target = commit[r]

\* _handle_existing: publish a draft of one's own, refuse any other draft and a
\* prerelease, and leave a published release as it is.
Handle(r, rel) ==
    IF rel.draft /\ ~rel.prerelease /\ Owned(r, rel)
      THEN GoTo(r, "publish sent") /\ Send(Publish(r, rel))
      ELSE /\ GoTo(r, IF rel.draft \/ rel.prerelease THEN "failed" ELSE "succeeded")
           /\ UNCHANGED inFlight

\* Slip: the list, too, is searched for published releases.
SlipSeePublishedOnly(places) == {i \in places : releases[i].tagged /\ ~releases[i].draft}
OfTag(places) == {i \in places : releases[i].tagged}
First(places) == releases[CHOOSE i \in places : \A j \in places : i <= j]
Published == {i \in OfTag(DOMAIN releases) : ~releases[i].draft}

\* _get_release asks for a release by its tag first: only published ones.
Lookup(r) ==
    /\ pc[r] = "lookup"
    /\ IF Published # {}
         THEN Handle(r, First(Published)) /\ UNCHANGED page
         ELSE GoTo(r, "list") /\ page' = [page EXCEPT ![r] = 1] /\ UNCHANGED inFlight
    /\ UNCHANGED <<request, raced, tag, releases, history>>

PageOf(n) == {i \in DOMAIN releases : (n - 1) * PageSize < i /\ i <= n * PageSize}
LastPage(r) == Len(releases) < page[r] * PageSize

\* No release: create the draft, unless it was refused once already.
Missing(r) ==
    IF r \in raced THEN GoTo(r, "failed") /\ UNCHANGED inFlight
    ELSE GoTo(r, "draft sent") /\ Send(Draft(r))

\* One page of the list of all releases; a full last page tells nothing.
List(r) ==
    /\ pc[r] = "list"
    /\ page' = [page EXCEPT ![r] = @ + 1]
    /\ IF OfTag(PageOf(page[r])) # {} THEN Handle(r, First(OfTag(PageOf(page[r]))))
       ELSE IF LastPage(r) THEN Missing(r)
       ELSE /\ GoTo(r, IF page[r] = PageLimit THEN "failed" ELSE "list")
            /\ UNCHANGED inFlight
    /\ UNCHANGED <<request, raced, tag, releases, history>>

-----------------------------------------------------------------------------
Arrives(q) ==
    /\ q \in inFlight
    /\ crossed' = (crossed \/ q.run # latest)
    /\ UNCHANGED <<request, page, meddling, latest, interrupted, disturbed>>

\* The answer to a sender that still waits for it.
Answer(q, sent, place) ==
    pc' = IF pc[q.run] = sent THEN [pc EXCEPT ![q.run] = place] ELSE pc

ServeRef(q) ==
    /\ Arrives(q) /\ q.kind = "ref"
    /\ inFlight' = inFlight \ {q}
    /\ tag' = IF tag = NoCommit THEN commit[q.run] ELSE tag
    /\ Answer(q, "ref sent", IF tag = NoCommit THEN "lookup" ELSE "ref lost")
    /\ UNCHANGED <<raced, releases>>

NewDraft(c) == [tagged |-> TRUE, foreign |-> FALSE, draft |-> TRUE, prerelease |-> FALSE,
                marker |-> c, target |-> c, id |-> Id]

\* The draft is created, and the script goes on to publish it.
ServeDraft(q) ==
    /\ Arrives(q) /\ q.kind = "draft"
    /\ releases' = <<NewDraft(commit[q.run])>> \o releases
    /\ Answer(q, "draft sent", "publish sent")
    /\ inFlight' = (inFlight \ {q}) \cup
                     IF pc[q.run] = "draft sent"
                       THEN {Publish(q.run, NewDraft(commit[q.run]))} ELSE {}
    /\ UNCHANGED <<raced, tag>>

\* Slip: losing the race ends the run.
SlipRaceFails == "failed"
AfterDraftConflict == "lookup"

\* GitHub may refuse a second release of a tag; the script looks for the first.
RefuseDraft(q) ==
    /\ Arrives(q) /\ q.kind = "draft"
    /\ OfTag(DOMAIN releases) # {}
    /\ inFlight' = inFlight \ {q}
    /\ Answer(q, "draft sent", AfterDraftConflict)
    /\ raced' = raced \cup {q.run}
    /\ UNCHANGED <<tag, releases>>

\* Slip: the answer is not looked at.
SlipIgnoreAnswer(rel) == "succeeded"
AfterPublish(rel) == IF rel.prerelease THEN "failed" ELSE "succeeded"

PublishedBut(id) == \E i \in OfTag(DOMAIN releases) : ~releases[i].draft /\ releases[i].id # id

ServePublish(q) ==
    /\ Arrives(q) /\ q.kind = "publish"
    /\ inFlight' = inFlight \ {q}
    /\ \E i \in DOMAIN releases :
         /\ releases[i].id = q.id
         /\ releases' = IF PublishedBut(q.id) THEN releases
                        ELSE [releases EXCEPT ![i].draft = FALSE]
         /\ Answer(q, "publish sent",
                   IF PublishedBut(q.id) THEN "failed" ELSE AfterPublish(releases[i]))
    /\ UNCHANGED <<raced, tag>>

\* A call fails, times out, or the runner is gone; what was sent stays sent.
Interrupt(r) ==
    /\ Active(r)
    /\ GoTo(r, "failed")
    /\ interrupted' = interrupted \cup {r}
    /\ UNCHANGED <<request, page, raced, server, meddling, latest, disturbed, crossed>>

\* A request whose sender no longer waits never arrives.
Lose(q) ==
    /\ q \in inFlight /\ ~Active(q.run)
    /\ inFlight' = inFlight \ {q}
    /\ UNCHANGED <<request, runs, tag, releases, history>>

-----------------------------------------------------------------------------
Meddle ==
    /\ meddling < MaxMeddling
    /\ meddling' = meddling + 1
    /\ disturbed' = disturbed \cup {r \in Run : Active(r)}
    /\ UNCHANGED <<request, runs, inFlight, latest, interrupted, crossed>>

TagByHand(c) ==
    /\ Meddle
    /\ tag = NoCommit /\ tag' = c
    /\ UNCHANGED releases

DraftByHand(c, prerelease) ==
    /\ Meddle
    /\ releases' = <<[NewDraft(c) EXCEPT !.foreign = TRUE, !.marker = NoCommit,
                                         !.prerelease = prerelease]>> \o releases
    /\ UNCHANGED tag

\* A person publishes a draft, a prerelease or not.
PublishByHand(i) ==
    /\ Meddle
    /\ releases[i].tagged /\ releases[i].draft /\ ~PublishedBut(releases[i].id)
    /\ releases' = [releases EXCEPT ![i].draft = FALSE]
    /\ UNCHANGED tag

\* A person makes a draft a prerelease, or writes its notes anew.
EditByHand(i) ==
    /\ Meddle
    /\ releases[i].tagged /\ releases[i].draft
    /\ \/ releases' = [releases EXCEPT ![i].prerelease = TRUE]
       \/ releases' = [releases EXCEPT ![i].marker = NoCommit]
    /\ UNCHANGED tag

\* Another version is released; versions do not wait for each other.
OtherVersion ==
    /\ Meddle
    /\ releases' = <<Other>> \o releases
    /\ UNCHANGED tag

\* A person deletes a release of another version.
DeleteByHand(i) ==
    /\ Meddle
    /\ ~releases[i].tagged
    /\ releases' = SubSeq(releases, 1, i - 1) \o SubSeq(releases, i + 1, Len(releases))
    /\ UNCHANGED tag

RunStep(r) ==
    \/ Start(r) \/ GetTag(r) \/ CreateTag(r) \/ CheckWinner(r)
    \/ Lookup(r) \/ List(r) \/ Interrupt(r)

Serve(q) == ServeRef(q) \/ ServeDraft(q) \/ RefuseDraft(q) \/ ServePublish(q) \/ Lose(q)

ByHand ==
    \/ \E c \in Commit : TagByHand(c) \/ \E prerelease \in BOOLEAN : DraftByHand(c, prerelease)
    \/ OtherVersion
    \/ \E i \in DOMAIN releases : PublishByHand(i) \/ EditByHand(i) \/ DeleteByHand(i)

Next ==
    \/ \E r \in Run : RunStep(r)
    \/ \E q \in inFlight : Serve(q)
    \/ ByHand

Spec == Init /\ [][Next]_vars

-----------------------------------------------------------------------------
OwnReleases == {i \in DOMAIN releases : ~releases[i].foreign}

\* Whoever wins which race: a release the automation made, draft or not, is for
\* the commit the tag resolves to.
ReleaseIsOfTaggedCommit == \A i \in OwnReleases : releases[i].target = tag

\* A run that reports success leaves the tag at its commit and a published
\* stable release, its own or one that was there.
SuccessIsPublished ==
    \A r \in Run : pc[r] = "succeeded" =>
        /\ tag = commit[r]
        /\ \E i \in OfTag(DOMAIN releases) : ~releases[i].draft /\ ~releases[i].prerelease

\* No request of a run, however late, changes a release that a person made or
\* one that is published ("left untouched", "never edited").
OthersAreUntouched ==
    [][ meddling' = meddling =>
          \A i \in DOMAIN releases : releases[i].foreign \/ ~releases[i].draft =>
            \E j \in DOMAIN releases' : releases'[j] = releases[i] ]_vars

\* What a person has to resolve before a run of r's commit can succeed.
Obstacle(r) ==
    \/ tag # NoCommit /\ tag # commit[r]
    \/ \E i \in OfTag(DOMAIN releases) :
         releases[i].prerelease \/ (releases[i].draft /\ releases[i].marker # commit[r])
    \/ Len(releases) >= PageSize * PageLimit

\* "Publication is safe to retry": wherever earlier runs stopped and whichever
\* of their requests still arrive, a run fails only when a call of its own does,
\* people interfere, or there is something for them to resolve.  (Two drafts of
\* the automation may both be about to be published; one is refused.)
FailureHasACause ==
    [][ \A r \in Run : Active(r) /\ pc'[r] = "failed" =>
          \/ r \in interrupted' \cup disturbed
          \/ Obstacle(r)
          \/ Cardinality(OwnReleases) > 1 ]_vars

\* A retry finds the draft of the run before and makes no second one, unless a
\* request was overtaken by a later run or people changed the list meanwhile.
RetryReusesDraft ==
    Cardinality(OwnReleases) > 1 => crossed \/ disturbed # {}
=============================================================================
