------------------------ MODULE ReleasePublish_proofs ------------------------
(***************************************************************************)
(* What a publication leaves behind, for any number of runs and commits,   *)
(* any size of the list of releases, and any interference.                 *)
(*                                                                         *)
(* The inductive invariant ties what a run believes to what is true: past  *)
(* the check of the tag the tag is the run's commit, as tags never change; *)
(* a request in flight was made under that belief; and a run that has read *)
(* pages of the list without a release of the version knows where one can  *)
(* still be.  Whatever a step does to the list is described by where each  *)
(* release of the new list comes from (ReleasesStep).                      *)
(***************************************************************************)
EXTENDS ReleasePublish, FiniteSetTheorems, SequenceTheorems, WellFoundedInduction, TLAPS

USE ReleasePublishAssumption

Place == {"idle", "tag", "object", "ref sent", "ref lost", "lookup", "list", "draft sent",
          "publish sent", "succeeded", "failed"}

Releases == [tagged : BOOLEAN, foreign : BOOLEAN, draft : BOOLEAN, prerelease : BOOLEAN,
             marker : Commit \cup {NoCommit}, target : Commit \cup {NoCommit}, id : Nat]

Requests == [run : Run, kind : {"ref", "draft", "publish"}, id : Nat]

TypeOK ==
    /\ commit \in [Run -> Commit] /\ serialized \in BOOLEAN
    /\ pc \in [Run -> Place] /\ page \in [Run -> Nat \ {0}] /\ raced \subseteq Run
    /\ inFlight \subseteq Requests
    /\ tag \in Commit \cup {NoCommit} /\ releases \in Seq(Releases)
    /\ meddling \in Nat /\ latest \in Run \cup {NoRun}
    /\ interrupted \subseteq Run /\ disturbed \subseteq Run /\ crossed \in BOOLEAN

\* Releases of the version have ids of their own, and the automation's are for
\* the commit of the tag.
ReleasesInv ==
    /\ \A i \in DOMAIN releases :
         LET rel == releases[i]
         IN  /\ rel.tagged <=> rel.id # 0
             /\ ~rel.foreign => rel.tagged /\ rel.target = tag /\ tag # NoCommit
             /\ rel.marker # NoCommit => rel.marker = rel.target /\ ~rel.foreign
    /\ \A i, j \in DOMAIN releases : releases[i].tagged /\ releases[i].id = releases[j].id => i = j

\* A request is its sender's last one, and was made for the commit of the tag.
RequestOK(q) ==
    /\ q.kind = "ref" => pc[q.run] \in {"ref sent", "failed"}
    /\ q.kind = "draft" => /\ pc[q.run] \in {"draft sent", "failed"}
                           /\ tag = commit[q.run] /\ q.id = 0
    /\ q.kind = "publish" =>
         /\ pc[q.run] \in {"publish sent", "failed"}
         /\ \E i \in DOMAIN releases : releases[i].id = q.id /\ ~releases[i].foreign

RequestsInv ==
    \A q \in inFlight : RequestOK(q) /\ \A p \in inFlight : p.run = q.run => p = q

\* The tag and the releases are what a run has found them to be.
PlaceOK(r) ==
    /\ pc[r] \in {"lookup", "list", "draft sent", "publish sent", "succeeded"} => tag = commit[r]
    /\ pc[r] = "ref lost" => tag # NoCommit
    /\ pc[r] = "succeeded" =>
         \E i \in OfTag(DOMAIN releases) : ~releases[i].draft /\ ~releases[i].prerelease
    /\ r \in raced => OfTag(DOMAIN releases) # {}
    /\ pc[r] = "list" /\ r \in raced \ disturbed =>
         \E i \in OfTag(DOMAIN releases) : i > (page[r] - 1) * PageSize
    /\ pc[r] \in {"list", "draft sent", "publish sent"} /\ r \notin disturbed =>
         \A i \in OfTag(DOMAIN releases) : releases[i].foreign => releases[i].draft

PlacesInv == \A r \in Run : PlaceOK(r)

\* While requests arrive in the time of their sender and nobody interferes, the
\* newest run makes a draft only where it has seen the automation has none.
OneOwn == \A i, j \in OwnReleases : i = j
DraftIsFirst == \A q \in inFlight : q.kind = "draft" /\ q.run = latest => OwnReleases = {}
ReadPagesHaveNone ==
    latest \in Run /\ pc[latest] = "list" =>
      \A i \in OwnReleases : i > (page[latest] - 1) * PageSize

ReuseInv == ~crossed /\ disturbed = {} => OneOwn /\ DraftIsFirst /\ ReadPagesHaveNone

IInv == TypeOK /\ ReleasesInv /\ RequestsInv /\ PlacesInv /\ ReuseInv

-----------------------------------------------------------------------------
LEMMA LeastNatural ==
  ASSUME NEW T \in SUBSET Nat, T # {}
  PROVE  \E x \in T : \A y \in T : x <= y
<1> DEFINE below == {p \in Nat \X Nat : p[1] < p[2]}
<1>1. IsWellFoundedOn(below, Nat)
  <2>1. OpToRel(<, Nat) = below
    BY DEF OpToRel
  <2> QED  BY <2>1, NatLessThanWellFounded
<1>2. PICK x \in T : \A y \in T : ~ (<<y, x>> \in below)
  <2> HIDE DEF below
  <2> QED  BY <1>1, WFMin
<1>3. \A y \in T : ~(y < x)
  BY <1>2
<1> QED  BY <1>3

\* The first of some releases is one of them.
LEMMA FirstIs ==
  ASSUME TypeOK, NEW S \in SUBSET DOMAIN releases, S # {}
  PROVE  \E i \in S : First(S) = releases[i]
<1>1. S \in SUBSET Nat
  BY DEF TypeOK
<1>2. PICK i \in S : \A j \in S : i <= j
  BY <1>1, LeastNatural
<1> QED  BY <1>2 DEF First

\* There is an id no release has.
LEMMA FreshId ==
  ASSUME TypeOK
  PROVE  Id \in Nat \ {0} /\ \A i \in DOMAIN releases : releases[i].id # Id
<1> DEFINE n == Len(releases)
           ids == {releases[i].id : i \in 1 .. n}
           all == 1 .. n + 1
<1>1. n \in Nat /\ DOMAIN releases = 1 .. n
  BY DEF TypeOK
<1>2. \E id \in all : id \notin ids
  <2> SUFFICES ASSUME all \subseteq ids PROVE FALSE
    OBVIOUS
  <2> DEFINE f == [i \in 1 .. n |-> releases[i].id]
             S == 1 .. n
  <2>1. f \in Surjection(S, ids)
    BY DEF Surjection
  <2>2. IsFiniteSet(S) /\ Cardinality(S) = n
    <3>1. n \in Int /\ 1 \in Int /\ (IF 1 > n THEN 0 ELSE n - 1 + 1) = n
      BY <1>1
    <3> HIDE DEF n
    <3> QED  BY <3>1, FS_Interval
  <2>3. IsFiniteSet(all) /\ Cardinality(all) = n + 1
    <3>1. n + 1 \in Int /\ 1 \in Int /\ ~(1 > n + 1) /\ (n + 1) - 1 + 1 = n + 1
      BY <1>1
    <3> QED  BY <3>1, FS_Interval
  <2> HIDE DEF f, S, ids, all, n
  <2>4. IsFiniteSet(ids) /\ Cardinality(ids) <= n
    BY <2>1, <2>2, FS_Surjection
  <2>5. n + 1 <= Cardinality(ids)
    BY <2>3, <2>4, FS_Subset
  <2>6. Cardinality(ids) \in Nat
    BY <2>4, FS_CardinalityType
  <2> QED  BY <1>1, <2>4, <2>5, <2>6
<1>3. Id \in all /\ \A i \in DOMAIN releases : releases[i].id # Id
  <2>1. PICK id \in all : \A i \in DOMAIN releases : releases[i].id # id
    BY <1>1, <1>2
  <2> QED  BY <2>1 DEF Id
<1> QED  BY <1>1, <1>3

LEMMA Prepended ==
  ASSUME NEW S, NEW s \in Seq(S), NEW x \in S
  PROVE  /\ <<x>> \o s \in Seq(S) /\ DOMAIN (<<x>> \o s) = 1 .. Len(s) + 1
         /\ (<<x>> \o s)[1] = x
         /\ \A j \in 2 .. Len(s) + 1 : (<<x>> \o s)[j] = s[j - 1]
<1>1. <<x>> \in Seq(S) /\ Len(<<x>>) = 1 /\ <<x>>[1] = x /\ Len(s) \in Nat
  OBVIOUS
<1> DEFINE a == <<x>>
<1> HIDE DEF a
<1>2. /\ a \o s \in Seq(S) /\ Len(a \o s) = 1 + Len(s)
      /\ \A j \in 1 .. 1 + Len(s) : (a \o s)[j] = IF j <= 1 THEN a[j] ELSE s[j - 1]
  BY <1>1 DEF a
<1> QED  BY <1>1, <1>2 DEF a

LEMMA Concatenated ==
  ASSUME NEW S, NEW a \in Seq(S), NEW b \in Seq(S)
  PROVE  /\ a \o b \in Seq(S) /\ Len(a \o b) = Len(a) + Len(b)
         /\ \A j \in 1 .. Len(a) + Len(b) :
              (a \o b)[j] = IF j <= Len(a) THEN a[j] ELSE b[j - Len(a)]
OBVIOUS

LEMMA Removed ==
  ASSUME NEW S, NEW s \in Seq(S), NEW i \in DOMAIN s
  PROVE  LET u == SubSeq(s, 1, i - 1) \o SubSeq(s, i + 1, Len(s))
         IN  /\ u \in Seq(S) /\ DOMAIN u = 1 .. Len(s) - 1
             /\ \A j \in 1 .. Len(s) - 1 : u[j] = s[IF j < i THEN j ELSE j + 1]
<1> DEFINE a == SubSeq(s, 1, i - 1)
           b == SubSeq(s, i + 1, Len(s))
           n == Len(s)
<1>1. n \in Nat /\ i \in 1 .. n
  OBVIOUS
<1>2. /\ a \in Seq(S) /\ Len(a) = i - 1
      /\ \A j \in 1 .. i - 1 : a[j] = s[j]
  BY <1>1
<1>3. /\ b \in Seq(S) /\ Len(b) = n - i
      /\ \A j \in 1 .. n - i : b[j] = s[i + j]
  BY <1>1
<1> HIDE DEF a, b
<1>4. /\ a \o b \in Seq(S) /\ Len(a \o b) = n - 1
      /\ \A j \in 1 .. n - 1 : (a \o b)[j] = IF j <= i - 1 THEN a[j] ELSE b[j - (i - 1)]
  <2>1. Len(a) + Len(b) = n - 1
    BY <1>1, <1>2, <1>3
  <2>2. a \in Seq(S) /\ b \in Seq(S) /\ Len(a) = i - 1
    BY <1>2, <1>3
  <2>3. /\ a \o b \in Seq(S) /\ Len(a \o b) = Len(a) + Len(b)
        /\ \A j \in 1 .. Len(a) + Len(b) :
             (a \o b)[j] = IF j <= Len(a) THEN a[j] ELSE b[j - Len(a)]
    BY <2>2, Concatenated
  <2> HIDE DEF n
  <2> QED  BY <2>1, <2>2, <2>3
<1>5. ASSUME NEW j \in 1 .. n - 1 PROVE (a \o b)[j] = s[IF j < i THEN j ELSE j + 1]
  <2>1. CASE j < i
    BY <1>1, <1>2, <1>4, <2>1
  <2>2. CASE ~(j < i)
    <3>1. j - (i - 1) \in 1 .. n - i /\ i + (j - (i - 1)) = j + 1
      BY <1>1, <2>2
    <3> QED  BY <1>1, <1>3, <1>4, <2>2, <3>1, SMTT(30)
  <2> QED  BY <2>1, <2>2
<1>6. DOMAIN (a \o b) = 1 .. n - 1
  BY <1>1, <1>4
<1> QED  BY <1>4, <1>5, <1>6 DEF a, b

-----------------------------------------------------------------------------
\* What may become of a release: a draft is edited or published.
Kept(a, b) ==
    /\ b \in Releases
    /\ b.tagged = a.tagged /\ b.foreign = a.foreign /\ b.target = a.target /\ b.id = a.id
    /\ b.marker \in {a.marker, NoCommit}
    /\ ~a.draft => b = a

\* A release that may come to the list.
NewOK(x) ==
    /\ x \in Releases
    /\ x.tagged <=> x.id # 0
    /\ x.tagged => \A i \in DOMAIN releases : releases[i].id # x.id
    /\ ~x.foreign => x.tagged /\ x.target = tag /\ tag # NoCommit
    /\ x.marker # NoCommit => x.marker = x.target /\ ~x.foreign

\* In the new list the release at j is the one that was at f[j], or x.
ReleasesStep(f, x) ==
    /\ f \in [DOMAIN releases' -> Nat]
    /\ \A j, k \in DOMAIN releases' : f[j] = f[k] => j = k
    /\ \A j \in DOMAIN releases' :
         \/ f[j] = 0 /\ releases'[j] = x
         \/ /\ f[j] \in DOMAIN releases /\ Kept(releases[f[j]], releases'[j])
            /\ meddling' = meddling /\ releases[f[j]].foreign => releases'[j] = releases[f[j]]
            /\ meddling' = meddling => f[j] <= j
    /\ \A i \in DOMAIN releases :
         releases[i].tagged \/ meddling' = meddling => \E j \in DOMAIN releases' : f[j] = i

LEMMA KeptAsItIs ==
  ASSUME TypeOK, NEW i \in DOMAIN releases
  PROVE  releases[i] \in Releases /\ Kept(releases[i], releases[i])
<1>1. releases[i] \in Releases
  BY DEF TypeOK
<1> QED  BY <1>1 DEF Kept

LEMMA OtherOK == NewOK(Other) /\ Other.foreign /\ ~Other.tagged
BY DEF NewOK, Other, Releases

LEMMA ListUnchanged ==
  ASSUME TypeOK, releases' = releases
  PROVE  \E f : ReleasesStep(f, Other)
<1> DEFINE f == [j \in DOMAIN releases |-> j]
<1>1. DOMAIN releases = 1 .. Len(releases) /\ Len(releases) \in Nat
  BY DEF TypeOK
<1>2. ReleasesStep(f, Other)
  BY <1>1, KeptAsItIs DEF ReleasesStep
<1> QED  BY <1>2

LEMMA ListPrepended ==
  ASSUME TypeOK, NEW x, NewOK(x), releases' = <<x>> \o releases
  PROVE  releases' \in Seq(Releases) /\ \E f : ReleasesStep(f, x)
<1> DEFINE n == Len(releases)
           f == [j \in 1 .. n + 1 |-> j - 1]
<1>1. releases \in Seq(Releases) /\ x \in Releases /\ n \in Nat /\ DOMAIN releases = 1 .. n
  BY DEF TypeOK, NewOK
<1>2. /\ releases' \in Seq(Releases) /\ DOMAIN releases' = 1 .. n + 1
      /\ releases'[1] = x
      /\ \A j \in 2 .. n + 1 : releases'[j] = releases[j - 1]
  BY <1>1, Prepended
<1> HIDE DEF n
<1>3. f \in [DOMAIN releases' -> Nat] /\ \A j, k \in DOMAIN releases' : f[j] = f[k] => j = k
  BY <1>1, <1>2
<1>4. ASSUME NEW j \in DOMAIN releases'
      PROVE  \/ f[j] = 0 /\ releases'[j] = x
             \/ /\ f[j] \in DOMAIN releases /\ Kept(releases[f[j]], releases'[j])
                /\ meddling' = meddling /\ releases[f[j]].foreign => releases'[j] = releases[f[j]]
                /\ f[j] <= j
  <2>1. CASE j = 1
    BY <1>1, <1>2, <2>1
  <2>2. CASE j # 1
    <3>1. j \in 2 .. n + 1 /\ f[j] = j - 1 /\ j - 1 \in DOMAIN releases
      BY <1>1, <1>2, <2>2
    <3> QED  BY <1>2, <3>1, KeptAsItIs
  <2> QED  BY <2>1, <2>2
<1>5. ASSUME NEW i \in DOMAIN releases PROVE \E j \in DOMAIN releases' : f[j] = i
  <2>1. i + 1 \in DOMAIN releases' /\ f[i + 1] = i
    BY <1>1, <1>2
  <2> QED  BY <2>1
<1>6. ReleasesStep(f, x)
  BY <1>3, <1>4, <1>5 DEF ReleasesStep
<1> QED  BY <1>2, <1>6

LEMMA ListChanged ==
  ASSUME TypeOK, NEW i \in DOMAIN releases, NEW b, Kept(releases[i], b),
         meddling' = meddling /\ releases[i].foreign => b = releases[i],
         releases' = [releases EXCEPT ![i] = b]
  PROVE  releases' \in Seq(Releases) /\ \E f : ReleasesStep(f, Other)
<1> DEFINE f == [j \in DOMAIN releases |-> j]
<1>1. DOMAIN releases = 1 .. Len(releases) /\ Len(releases) \in Nat /\ releases \in Seq(Releases)
  BY DEF TypeOK
<1>2. b \in Releases
  BY DEF Kept
<1>3. /\ releases' \in Seq(Releases) /\ DOMAIN releases' = DOMAIN releases
      /\ \A j \in DOMAIN releases : releases'[j] = IF j = i THEN b ELSE releases[j]
  BY <1>1, <1>2
<1>4. ReleasesStep(f, Other)
  BY <1>1, <1>3, KeptAsItIs DEF ReleasesStep
<1> QED  BY <1>3, <1>4

LEMMA ListShortened ==
  ASSUME TypeOK, NEW i \in DOMAIN releases, ~releases[i].tagged, meddling' # meddling,
         releases' = SubSeq(releases, 1, i - 1) \o SubSeq(releases, i + 1, Len(releases))
  PROVE  releases' \in Seq(Releases) /\ \E f : ReleasesStep(f, Other)
<1> DEFINE n == Len(releases)
           f == [j \in 1 .. n - 1 |-> IF j < i THEN j ELSE j + 1]
<1>1. releases \in Seq(Releases) /\ n \in Nat /\ DOMAIN releases = 1 .. n
  BY DEF TypeOK
<1>2. /\ releases' \in Seq(Releases) /\ DOMAIN releases' = 1 .. n - 1
      /\ \A j \in 1 .. n - 1 : releases'[j] = releases[IF j < i THEN j ELSE j + 1]
  BY <1>1, Removed
<1> HIDE DEF n
<1>3. f \in [DOMAIN releases' -> Nat] /\ \A j, k \in DOMAIN releases' : f[j] = f[k] => j = k
  BY <1>1, <1>2, SMTT(30)
<1>4. ASSUME NEW j \in DOMAIN releases'
      PROVE  f[j] \in DOMAIN releases /\ releases'[j] = releases[f[j]]
  <2>1. j \in 1 .. n - 1
    BY <1>2
  <2>2. f[j] = IF j < i THEN j ELSE j + 1
    BY <2>1
  <2>3. releases'[j] = releases[IF j < i THEN j ELSE j + 1]
    BY <1>2, <2>1
  <2>4. (IF j < i THEN j ELSE j + 1) \in 1 .. n
    BY <1>1, <2>1
  <2> HIDE DEF f
  <2> QED  BY <1>1, <2>2, <2>3, <2>4
<1>5. ASSUME NEW k \in DOMAIN releases, k # i PROVE \E j \in DOMAIN releases' : f[j] = k
  <2>1. CASE k < i
    <3>1. k \in DOMAIN releases' /\ f[k] = k
      BY <1>1, <1>2, <2>1
    <3> QED  BY <3>1
  <2>2. CASE ~(k < i)
    <3>1. k - 1 \in DOMAIN releases' /\ f[k - 1] = k
      BY <1>1, <1>2, <1>5, <2>2
    <3> QED  BY <3>1
  <2> QED  BY <2>1, <2>2
<1> HIDE DEF f
<1>6. ASSUME NEW j \in DOMAIN releases'
      PROVE  /\ f[j] \in DOMAIN releases /\ Kept(releases[f[j]], releases'[j])
             /\ meddling' = meddling /\ releases[f[j]].foreign => releases'[j] = releases[f[j]]
  BY <1>4, KeptAsItIs
<1>7. \A k \in DOMAIN releases :
        releases[k].tagged \/ meddling' = meddling => \E j \in DOMAIN releases' : f[j] = k
  BY <1>5
<1>8. ReleasesStep(f, Other)
  BY <1>3, <1>6, <1>7 DEF ReleasesStep
<1> QED  BY <1>2, <1>8

-----------------------------------------------------------------------------
\* A release that is about to be published is one of the automation's.
LEMMA RequestIsForOwn ==
  ASSUME IInv, NEW q \in inFlight, q.kind = "publish",
         NEW i \in DOMAIN releases, releases[i].id = q.id
  PROVE  ~releases[i].foreign /\ releases[i].tagged
<1>1. PICK k \in DOMAIN releases : releases[k].id = q.id /\ ~releases[k].foreign
  BY DEF IInv, RequestsInv, RequestOK
<1>2. releases[k].tagged
  BY <1>1 DEF IInv, ReleasesInv
<1>3. k = i
  BY <1>1, <1>2 DEF IInv, ReleasesInv
<1> QED  BY <1>1, <1>2, <1>3

LEMMA NewDraftOK ==
  ASSUME TypeOK, tag \in Commit
  PROVE  /\ NewOK(NewDraft(tag)) /\ ~NewDraft(tag).foreign /\ NewDraft(tag).draft
         /\ NewDraft(tag).id = Id /\ NewDraft(tag).tagged /\ ~NewDraft(tag).prerelease
<1>1. Id \in Nat \ {0} /\ \A i \in DOMAIN releases : releases[i].id # Id
  BY FreshId
<1> QED  BY <1>1 DEF NewOK, NewDraft, Releases

ByHandDraft(c, prerelease) ==
    [NewDraft(c) EXCEPT !.foreign = TRUE, !.marker = NoCommit, !.prerelease = prerelease]

LEMMA ByHandDraftOK ==
  ASSUME TypeOK, NEW c \in Commit, NEW prerelease \in BOOLEAN
  PROVE  NewOK(ByHandDraft(c, prerelease)) /\ ByHandDraft(c, prerelease).foreign
<1>1. Id \in Nat \ {0} /\ \A i \in DOMAIN releases : releases[i].id # Id
  BY FreshId
<1> QED  BY <1>1 DEF NewOK, ByHandDraft, NewDraft, Releases

\* Where the releases of the new list come from.
StepShape ==
    /\ releases' \in Seq(Releases)
    /\ \E f, x : /\ ReleasesStep(f, x) /\ NewOK(x)
                 /\ x.foreign \/ \E q \in inFlight : ServeDraft(q)
                 /\ x.foreign /\ x.tagged => meddling' # meddling

LEMMA QuietShape ==
  ASSUME TypeOK, releases' = releases
  PROVE  StepShape
<1>1. releases' \in Seq(Releases)
  BY DEF TypeOK
<1> QED  BY <1>1, ListUnchanged, OtherOK DEF StepShape

LEMMA ServeDraftShape ==
  ASSUME IInv, NEW q \in inFlight, ServeDraft(q)
  PROVE  StepShape
<1>1. tag = commit[q.run] /\ tag \in Commit /\ releases' = <<NewDraft(tag)>> \o releases
  <2>1. q.kind = "draft" /\ releases' = <<NewDraft(commit[q.run])>> \o releases
    BY DEF ServeDraft
  <2>2. tag = commit[q.run]
    BY <2>1 DEF IInv, RequestsInv, RequestOK
  <2>3. q.run \in Run /\ commit \in [Run -> Commit]
    BY DEF IInv, TypeOK, Requests
  <2> QED  BY <2>1, <2>2, <2>3
<1>2. TypeOK
  BY DEF IInv
<1> DEFINE x == NewDraft(tag)
<1>3. NewOK(x) /\ ~x.foreign
  BY <1>1, <1>2, NewDraftOK
<1>4. releases' = <<x>> \o releases
  BY <1>1
<1> HIDE DEF x
<1>5. releases' \in Seq(Releases) /\ \E f : ReleasesStep(f, x)
  BY <1>2, <1>3, <1>4, ListPrepended
<1> QED  BY <1>3, <1>5 DEF StepShape

LEMMA ServePublishShape ==
  ASSUME IInv, NEW q \in inFlight, ServePublish(q)
  PROVE  StepShape
<1>1. TypeOK /\ q.kind = "publish"
  BY DEF IInv, ServePublish
<1>2. PICK i \in DOMAIN releases :
        /\ releases[i].id = q.id
        /\ releases' = IF PublishedBut(q.id) THEN releases
                       ELSE [releases EXCEPT ![i].draft = FALSE]
  BY DEF ServePublish
<1>3. ~releases[i].foreign /\ releases[i] \in Releases
  BY <1>1, <1>2, RequestIsForOwn, KeptAsItIs
<1>4. CASE PublishedBut(q.id)
  BY <1>1, <1>2, <1>4, QuietShape
<1>5. CASE ~PublishedBut(q.id)
  <2> DEFINE b == [releases[i] EXCEPT !.draft = FALSE]
  <2>1. Kept(releases[i], b)
    BY <1>3 DEF Kept, Releases
  <2>2. releases' = [releases EXCEPT ![i] = b]
    BY <1>2, <1>5
  <2> HIDE DEF b
  <2>3. releases' \in Seq(Releases) /\ \E f : ReleasesStep(f, Other)
    BY <1>1, <1>3, <2>1, <2>2, ListChanged
  <2> QED  BY <2>3, OtherOK DEF StepShape
<1> QED  BY <1>4, <1>5

LEMMA ByHandShape ==
  ASSUME IInv, ByHand
  PROVE  StepShape
<1>1. TypeOK /\ meddling' # meddling
  <2>1. meddling' = meddling + 1
    BY DEF ByHand, Meddle, TagByHand, DraftByHand, OtherVersion, PublishByHand, EditByHand,
           DeleteByHand
  <2>2. TypeOK /\ meddling \in Nat
    BY DEF IInv, TypeOK
  <2> QED  BY <2>1, <2>2
<1>2. ASSUME NEW c \in Commit, TagByHand(c) PROVE StepShape
  BY <1>1, <1>2, QuietShape DEF TagByHand
<1>3. ASSUME NEW c \in Commit, NEW prerelease \in BOOLEAN, DraftByHand(c, prerelease)
      PROVE  StepShape
  <2> DEFINE x == ByHandDraft(c, prerelease)
  <2>1. releases' = <<x>> \o releases
    BY <1>3 DEF DraftByHand, ByHandDraft
  <2>2. NewOK(x) /\ x.foreign
    BY <1>1, ByHandDraftOK
  <2> HIDE DEF x
  <2>3. releases' \in Seq(Releases) /\ \E f : ReleasesStep(f, x)
    BY <1>1, <2>1, <2>2, ListPrepended
  <2> QED  BY <1>1, <2>2, <2>3 DEF StepShape
<1>4. ASSUME OtherVersion PROVE StepShape
  <2>1. releases' = <<Other>> \o releases
    BY <1>4 DEF OtherVersion
  <2>2. releases' \in Seq(Releases) /\ \E f : ReleasesStep(f, Other)
    BY <1>1, <2>1, OtherOK, ListPrepended
  <2> QED  BY <2>2, OtherOK DEF StepShape
<1>5. ASSUME NEW i \in DOMAIN releases, PublishByHand(i) \/ EditByHand(i) PROVE StepShape
  <2>1. releases[i] \in Releases /\ releases[i].draft
    BY <1>1, <1>5, KeptAsItIs DEF PublishByHand, EditByHand
  <2>2. PICK b \in {[releases[i] EXCEPT !.draft = FALSE], [releases[i] EXCEPT !.prerelease = TRUE],
                    [releases[i] EXCEPT !.marker = NoCommit]} :
               releases' = [releases EXCEPT ![i] = b]
    BY <1>5 DEF PublishByHand, EditByHand
  <2>3. Kept(releases[i], b)
    BY <2>1, <2>2 DEF Kept, Releases
  <2>4. releases' \in Seq(Releases) /\ \E f : ReleasesStep(f, Other)
    BY <1>1, <2>2, <2>3, ListChanged
  <2> QED  BY <2>4, OtherOK DEF StepShape
<1>6. ASSUME NEW i \in DOMAIN releases, DeleteByHand(i) PROVE StepShape
  <2>1. releases' \in Seq(Releases) /\ \E f : ReleasesStep(f, Other)
    BY <1>1, <1>6, ListShortened DEF DeleteByHand
  <2> QED  BY <2>1, OtherOK DEF StepShape
<1> QED  BY <1>2, <1>3, <1>4, <1>5, <1>6 DEF ByHand

LEMMA EveryStepHasShape ==
  ASSUME IInv, [Next]_vars
  PROVE  StepShape
<1>1. TypeOK
  BY DEF IInv
<1>2. ASSUME NEW r \in Run, RunStep(r) PROVE StepShape
  <2>1. releases' = releases
    BY <1>2 DEF RunStep, Start, GetTag, CreateTag, CheckWinner, Lookup, List, Interrupt, server
  <2> QED  BY <1>1, <2>1, QuietShape
<1>3. ASSUME NEW q \in inFlight, Serve(q) PROVE StepShape
  <2>1. CASE ServeRef(q) \/ RefuseDraft(q) \/ Lose(q)
    <3>1. releases' = releases
      BY <2>1 DEF ServeRef, RefuseDraft, Lose
    <3> QED  BY <1>1, <3>1, QuietShape
  <2> QED  BY <1>3, <2>1, ServeDraftShape, ServePublishShape DEF Serve
<1>4. CASE UNCHANGED vars
  <2>1. releases' = releases
    BY <1>4 DEF vars, server
  <2> QED  BY <1>1, <2>1, QuietShape
<1> QED  BY <1>2, <1>3, <1>4, ByHandShape DEF Next

-----------------------------------------------------------------------------
\* What becomes of a run that has found the release at i.
Handled(r, i) ==
    \/ /\ pc' = [pc EXCEPT ![r] = "publish sent"]
       /\ inFlight' = inFlight \cup {Publish(r, releases[i])}
       /\ releases[i].draft /\ ~releases[i].prerelease /\ Owned(r, releases[i])
    \/ /\ pc' = [pc EXCEPT ![r] = "failed"] /\ inFlight' = inFlight
       /\ releases[i].prerelease \/ (releases[i].draft /\ ~Owned(r, releases[i]))
    \/ /\ pc' = [pc EXCEPT ![r] = "succeeded"] /\ inFlight' = inFlight
       /\ ~releases[i].draft /\ ~releases[i].prerelease

LEMMA HandleOutcome ==
  ASSUME NEW r \in Run, NEW i \in DOMAIN releases, Handle(r, releases[i])
  PROVE  Handled(r, i)
<1>1. CASE releases[i].draft /\ ~releases[i].prerelease /\ Owned(r, releases[i])
  BY <1>1 DEF Handle, Handled, GoTo, Send
<1>2. CASE ~(releases[i].draft /\ ~releases[i].prerelease /\ Owned(r, releases[i]))
  <2>1. CASE releases[i].draft \/ releases[i].prerelease
    BY <1>2, <2>1 DEF Handle, Handled, GoTo
  <2>2. CASE ~(releases[i].draft \/ releases[i].prerelease)
    BY <1>2, <2>2 DEF Handle, Handled, GoTo
  <2> QED  BY <2>1, <2>2
<1> QED  BY <1>1, <1>2

LEMMA LookupOutcome ==
  ASSUME TypeOK, NEW r \in Run, Lookup(r)
  PROVE  \/ /\ Published = {} /\ inFlight' = inFlight
            /\ pc' = [pc EXCEPT ![r] = "list"] /\ page' = [page EXCEPT ![r] = 1]
         \/ /\ page' = page
            /\ \E i \in Published : Handled(r, i)
<1>1. CASE Published = {}
  BY <1>1 DEF Lookup, GoTo
<1>2. CASE Published # {}
  <2>1. Published \in SUBSET DOMAIN releases
    BY DEF Published, OfTag
  <2>2. PICK i \in Published : First(Published) = releases[i]
    BY <1>2, <2>1, FirstIs
  <2>3. Handle(r, releases[i]) /\ page' = page
    BY <1>2, <2>2 DEF Lookup
  <2>4. Handled(r, i)
    BY <2>1, <2>3, HandleOutcome
  <2> QED  BY <2>3, <2>4
<1> QED  BY <1>1, <1>2

LEMMA ListOutcome ==
  ASSUME TypeOK, NEW r \in Run, List(r)
  PROVE  \/ \E i \in OfTag(PageOf(page[r])) : Handled(r, i)
         \/ /\ OfTag(PageOf(page[r])) = {}
            /\ \/ /\ LastPage(r) /\ r \in raced
                  /\ pc' = [pc EXCEPT ![r] = "failed"] /\ inFlight' = inFlight
               \/ /\ LastPage(r)
                  /\ pc' = [pc EXCEPT ![r] = "draft sent"]
                  /\ inFlight' = inFlight \cup {Draft(r)}
               \/ /\ ~LastPage(r) /\ page[r] = PageLimit
                  /\ pc' = [pc EXCEPT ![r] = "failed"] /\ inFlight' = inFlight
               \/ /\ ~LastPage(r)
                  /\ pc' = [pc EXCEPT ![r] = "list"] /\ inFlight' = inFlight
<1> DEFINE S == OfTag(PageOf(page[r]))
<1>1. CASE S = {}
  <2>1. IF LastPage(r) THEN Missing(r)
        ELSE GoTo(r, IF page[r] = PageLimit THEN "failed" ELSE "list") /\ inFlight' = inFlight
    BY <1>1 DEF List
  <2> QED  BY <1>1, <2>1 DEF Missing, GoTo, Send
<1>2. CASE S # {}
  <2>1. S \in SUBSET DOMAIN releases
    BY DEF OfTag, PageOf
  <2>2. PICK i \in S : First(S) = releases[i]
    BY <1>2, <2>1, FirstIs
  <2>3. Handle(r, releases[i])
    BY <1>2, <2>2 DEF List
  <2>4. Handled(r, i)
    BY <2>1, <2>3, HandleOutcome
  <2> QED  BY <2>4
<1> QED  BY <1>1, <1>2

-----------------------------------------------------------------------------
LEMMA RunStepTypes ==
  ASSUME TypeOK, NEW r \in Run, RunStep(r)
  PROVE  /\ pc' \in [Run -> Place] /\ page' \in [Run -> Nat \ {0}] /\ inFlight' \subseteq Requests
         /\ \A p \in Run : p # r => pc'[p] = pc[p] /\ page'[p] = page[p]
<1>1. /\ pc \in [Run -> Place] /\ page \in [Run -> Nat \ {0}] /\ inFlight \subseteq Requests
      /\ \A i \in DOMAIN releases : releases[i] \in Releases
  BY DEF TypeOK
<1>2. Ref(r) \in Requests /\ Draft(r) \in Requests
  BY DEF Ref, Draft, Requests
<1>3. ASSUME NEW i \in DOMAIN releases
      PROVE  Publish(r, releases[i]) \in Requests
  BY <1>1 DEF Publish, Requests, Releases
<1>4. ASSUME NEW i \in DOMAIN releases, Handled(r, i)
      PROVE  /\ pc' \in [Run -> Place] /\ inFlight' \subseteq Requests
             /\ \A p \in Run : p # r => pc'[p] = pc[p]
  BY <1>1, <1>3, <1>4 DEF Handled, Place
<1>5. CASE Start(r) \/ GetTag(r) \/ CreateTag(r) \/ CheckWinner(r) \/ Interrupt(r)
  <2>1. page' = page /\ (inFlight' = inFlight \/ inFlight' = inFlight \cup {Ref(r)})
    BY <1>5 DEF Start, GetTag, CreateTag, CheckWinner, Interrupt, Send, server
  <2>2. PICK place \in Place : pc' = [pc EXCEPT ![r] = place]
    BY <1>5 DEF Start, GetTag, CreateTag, CheckWinner, Interrupt, GoTo, Place
  <2> QED  BY <1>1, <1>2, <2>1, <2>2
<1>6. CASE Lookup(r)
  <2>1. CASE /\ inFlight' = inFlight
             /\ pc' = [pc EXCEPT ![r] = "list"] /\ page' = [page EXCEPT ![r] = 1]
    <3>1. page' \in [Run -> Nat \ {0}] /\ \A p \in Run : p # r => page'[p] = page[p]
      BY <1>1, <2>1
    <3>2. pc' \in [Run -> Place] /\ \A p \in Run : p # r => pc'[p] = pc[p]
      BY <1>1, <2>1 DEF Place
    <3> QED  BY <1>1, <2>1, <3>1, <3>2
  <2>2. CASE page' = page /\ \E i \in Published : Handled(r, i)
    BY <1>1, <1>4, <2>2 DEF Published, OfTag
  <2> QED  BY <1>6, <2>1, <2>2, LookupOutcome
<1>7. CASE List(r)
  <2>1. page' = [page EXCEPT ![r] = page[r] + 1]
    BY <1>7 DEF List
  <2>2. page' \in [Run -> Nat \ {0}] /\ \A p \in Run : p # r => page'[p] = page[p]
    BY <1>1, <2>1
  <2>3. CASE \E i \in OfTag(PageOf(page[r])) : Handled(r, i)
    BY <1>4, <2>2, <2>3 DEF OfTag, PageOf
  <2>4. CASE /\ \E place \in Place : pc' = [pc EXCEPT ![r] = place]
             /\ inFlight' = inFlight \/ inFlight' = inFlight \cup {Draft(r)}
    <3>1. pc' \in [Run -> Place] /\ \A p \in Run : p # r => pc'[p] = pc[p]
      BY <1>1, <2>4
    <3>2. inFlight' \subseteq Requests
      BY <1>1, <1>2, <2>4
    <3> QED  BY <2>2, <3>1, <3>2
  <2>5. {"failed", "draft sent", "list"} \subseteq Place
    BY DEF Place
  <2>6. \/ \E i \in OfTag(PageOf(page[r])) : Handled(r, i)
        \/ /\ \E place \in {"failed", "draft sent", "list"} : pc' = [pc EXCEPT ![r] = place]
           /\ inFlight' = inFlight \/ inFlight' = inFlight \cup {Draft(r)}
    BY <1>7, ListOutcome
  <2> QED  BY <2>3, <2>4, <2>5, <2>6
<1> QED  BY <1>5, <1>6, <1>7 DEF RunStep

LEMMA ServeTypes ==
  ASSUME IInv, NEW q \in inFlight, Serve(q)
  PROVE  /\ pc' \in [Run -> Place] /\ page' = page /\ inFlight' \subseteq Requests
         /\ raced' \subseteq Run /\ tag' \in Commit \cup {NoCommit}
         /\ \A p \in Run : p # q.run => pc'[p] = pc[p]
<1>1. /\ pc \in [Run -> Place] /\ inFlight \subseteq Requests /\ commit \in [Run -> Commit]
      /\ tag \in Commit \cup {NoCommit} /\ raced \subseteq Run /\ q.run \in Run
      /\ TypeOK
  BY DEF IInv, TypeOK, Requests
<1>2. ASSUME NEW sent, NEW place \in Place, Answer(q, sent, place)
      PROVE  pc' \in [Run -> Place] /\ \A p \in Run : p # q.run => pc'[p] = pc[p]
  BY <1>1, <1>2 DEF Answer
<1>3. CASE ServeRef(q)
  <2>1. PICK place \in Place : Answer(q, "ref sent", place)
    BY <1>3 DEF ServeRef, Place
  <2> QED  BY <1>1, <1>2, <1>3, <2>1 DEF ServeRef, Arrives
<1>4. CASE ServeDraft(q)
  <2>1. Answer(q, "draft sent", "publish sent") /\ "publish sent" \in Place
    BY <1>4 DEF ServeDraft, Place
  <2>2. NewDraft(commit[q.run]).id \in Nat
    BY <1>1, FreshId DEF NewDraft
  <2>3. Publish(q.run, NewDraft(commit[q.run])) \in Requests
    BY <1>1, <2>2 DEF Publish, Requests
  <2> QED  BY <1>1, <1>2, <1>4, <2>1, <2>3 DEF ServeDraft, Arrives
<1>5. CASE RefuseDraft(q)
  <2>1. Answer(q, "draft sent", "lookup") /\ "lookup" \in Place
    BY <1>5 DEF RefuseDraft, AfterDraftConflict, Place
  <2> QED  BY <1>1, <1>2, <1>5, <2>1 DEF RefuseDraft, Arrives
<1>6. CASE ServePublish(q)
  <2>1. PICK place \in Place : Answer(q, "publish sent", place)
    BY <1>6 DEF ServePublish, AfterPublish, Place
  <2> QED  BY <1>1, <1>2, <1>6, <2>1 DEF ServePublish, Arrives
<1>7. CASE Lose(q)
  BY <1>1, <1>7 DEF Lose, runs
<1> QED  BY <1>3, <1>4, <1>5, <1>6, <1>7 DEF Serve

LEMMA TypesKept ==
  ASSUME IInv, [Next]_vars
  PROVE  TypeOK'
<1>1. TypeOK /\ StepShape
  BY EveryStepHasShape DEF IInv
<1>2. releases' \in Seq(Releases)
  BY <1>1 DEF StepShape
<1>3. ASSUME NEW r \in Run, RunStep(r) PROVE TypeOK'
  <2>1. /\ pc' \in [Run -> Place] /\ page' \in [Run -> Nat \ {0}] /\ inFlight' \subseteq Requests
    BY <1>1, <1>3, RunStepTypes
  <2>2. /\ commit' = commit /\ serialized' = serialized /\ raced' = raced /\ tag' = tag
        /\ meddling' = meddling /\ latest' \in {latest, r} /\ disturbed' = disturbed
        /\ crossed' = crossed /\ interrupted' \in {interrupted, interrupted \cup {r}}
    BY <1>3 DEF RunStep, Start, GetTag, CreateTag, CheckWinner, Lookup, List, Interrupt,
       request, server, history
  <2> QED  BY <1>1, <1>2, <2>1, <2>2 DEF TypeOK
<1>4. ASSUME NEW q \in inFlight, Serve(q) PROVE TypeOK'
  <2>1. /\ pc' \in [Run -> Place] /\ page' = page /\ inFlight' \subseteq Requests
        /\ raced' \subseteq Run /\ tag' \in Commit \cup {NoCommit}
    BY <1>4, ServeTypes
  <2>2. /\ commit' = commit /\ serialized' = serialized
        /\ meddling' = meddling /\ latest' = latest /\ disturbed' = disturbed
        /\ crossed' \in {crossed, crossed \/ q.run # latest} /\ interrupted' = interrupted
    BY <1>4 DEF Serve, ServeRef, ServeDraft, RefuseDraft, ServePublish, Lose, Arrives,
       request, history
  <2>3. crossed' \in BOOLEAN
    BY <1>1, <2>2 DEF TypeOK
  <2> QED  BY <1>1, <1>2, <2>1, <2>2, <2>3 DEF TypeOK
<1>5. CASE ByHand
  <2>1. Meddle /\ tag' \in Commit \cup {NoCommit}
    BY <1>1, <1>5 DEF TypeOK, ByHand, TagByHand, DraftByHand, OtherVersion, PublishByHand,
       EditByHand, DeleteByHand
  <2> QED  BY <1>1, <1>2, <2>1 DEF TypeOK, Meddle, request, runs
<1>6. CASE UNCHANGED vars
  BY <1>1, <1>6 DEF TypeOK, vars, request, runs, server, history
<1> QED  BY <1>3, <1>4, <1>5, <1>6 DEF Next

-----------------------------------------------------------------------------
\* A tag stays where it is, and a run keeps its commit.
LEMMA TagStays ==
  ASSUME IInv, [Next]_vars
  PROVE  commit' = commit /\ (tag # NoCommit => tag' = tag)
<1>1. ASSUME NEW r \in Run, RunStep(r) PROVE commit' = commit /\ tag' = tag
  BY <1>1 DEF RunStep, Start, GetTag, CreateTag, CheckWinner, Lookup, List, Interrupt, request,
     server
<1>2. ASSUME NEW q \in inFlight, Serve(q) PROVE commit' = commit /\ (tag # NoCommit => tag' = tag)
  BY <1>2 DEF Serve, ServeRef, ServeDraft, RefuseDraft, ServePublish, Lose, Arrives, request
<1>3. CASE ByHand
  BY <1>3 DEF ByHand, Meddle, TagByHand, DraftByHand, OtherVersion, PublishByHand, EditByHand,
     DeleteByHand, request
<1>4. CASE UNCHANGED vars
  BY <1>4 DEF vars, request, server
<1> QED  BY <1>1, <1>2, <1>3, <1>4 DEF Next

LEMMA ReleasesKept ==
  ASSUME IInv, [Next]_vars
  PROVE  ReleasesInv'
<1>1. tag # NoCommit => tag' = tag
  BY TagStays
<1>2. ReleasesInv
  BY DEF IInv
<1>3. PICK f, x : ReleasesStep(f, x) /\ NewOK(x)
  BY EveryStepHasShape DEF StepShape
<1>4. ASSUME NEW j \in DOMAIN releases'
      PROVE  LET rel == releases'[j]
             IN  /\ rel.tagged <=> rel.id # 0
                 /\ ~rel.foreign => rel.tagged /\ rel.target = tag' /\ tag' # NoCommit
                 /\ rel.marker # NoCommit => rel.marker = rel.target /\ ~rel.foreign
  <2>1. CASE f[j] = 0 /\ releases'[j] = x
    BY <1>1, <1>3, <2>1 DEF NewOK
  <2>2. CASE f[j] \in DOMAIN releases /\ Kept(releases[f[j]], releases'[j])
    BY <1>1, <1>2, <2>2 DEF ReleasesInv, Kept
  <2> QED  BY <1>3, <2>1, <2>2 DEF ReleasesStep
<1>5. ASSUME NEW j \in DOMAIN releases', NEW k \in DOMAIN releases',
             releases'[j].tagged, releases'[j].id = releases'[k].id
      PROVE  j = k
  <2>1. /\ \/ f[j] = 0 /\ releases'[j] = x
           \/ f[j] \in DOMAIN releases /\ Kept(releases[f[j]], releases'[j])
        /\ \/ f[k] = 0 /\ releases'[k] = x
           \/ f[k] \in DOMAIN releases /\ Kept(releases[f[k]], releases'[k])
        /\ f[j] = f[k] => j = k
    BY <1>3 DEF ReleasesStep
  <2>2. releases'[k].tagged
    BY <1>4, <1>5
  <2>3. CASE f[j] = 0 /\ releases'[j] = x
    BY <1>3, <1>5, <2>1, <2>2, <2>3 DEF NewOK, Kept
  <2>4. CASE f[k] = 0 /\ releases'[k] = x
    BY <1>3, <1>5, <2>1, <2>2, <2>4 DEF NewOK, Kept
  <2>5. CASE /\ f[j] \in DOMAIN releases /\ Kept(releases[f[j]], releases'[j])
             /\ f[k] \in DOMAIN releases /\ Kept(releases[f[k]], releases'[k])
    BY <1>2, <1>5, <2>1, <2>5 DEF ReleasesInv, Kept
  <2> QED  BY <2>1, <2>3, <2>4, <2>5
<1> QED  BY <1>4, <1>5 DEF ReleasesInv

\* A release of the version stays in the list.
LEMMA TaggedStays ==
  ASSUME IInv, [Next]_vars, NEW i \in DOMAIN releases, releases[i].tagged
  PROVE  \E j \in DOMAIN releases' : Kept(releases[i], releases'[j])
<1>1. PICK f, x : ReleasesStep(f, x)
  BY EveryStepHasShape DEF StepShape
<1>2. PICK j \in DOMAIN releases' : f[j] = i
  BY <1>1 DEF ReleasesStep
<1>3. i # 0
  BY DEF IInv, TypeOK
<1> QED  BY <1>1, <1>2, <1>3 DEF ReleasesStep

-----------------------------------------------------------------------------
\* Where the last request of a run may still be in flight.
Waiting == {"ref sent", "draft sent", "publish sent", "failed"}

\* A run sends one request at a time, and one that waits can only be stopped.
LEMMA RunStepSends ==
  ASSUME TypeOK, NEW r \in Run, RunStep(r)
  PROVE  \/ inFlight' = inFlight /\ (pc'[r] = "failed" \/ pc[r] \notin Waiting)
         \/ /\ pc[r] = "object" /\ pc'[r] = "ref sent"
            /\ inFlight' = inFlight \cup {Ref(r)}
         \/ /\ pc[r] = "list" /\ pc'[r] = "draft sent"
            /\ inFlight' = inFlight \cup {Draft(r)}
         \/ /\ pc[r] \in {"lookup", "list"} /\ pc'[r] = "publish sent"
            /\ \E i \in DOMAIN releases : /\ inFlight' = inFlight \cup {Publish(r, releases[i])}
                                          /\ Owned(r, releases[i])
<1>1. pc \in [Run -> Place]
  BY DEF TypeOK
<1>2. CASE Start(r) \/ GetTag(r) \/ CheckWinner(r) \/ Interrupt(r)
  BY <1>1, <1>2 DEF Start, GetTag, CheckWinner, Interrupt, GoTo, server, Waiting
<1>3. CASE CreateTag(r)
  BY <1>1, <1>3 DEF CreateTag, GoTo, Send
<1>4. ASSUME NEW i \in DOMAIN releases, Handled(r, i), pc[r] \in {"lookup", "list"}
      PROVE  \/ inFlight' = inFlight /\ pc[r] \notin Waiting
             \/ /\ pc[r] \in {"lookup", "list"} /\ pc'[r] = "publish sent"
                /\ inFlight' = inFlight \cup {Publish(r, releases[i])}
                /\ Owned(r, releases[i])
  BY <1>1, <1>4 DEF Handled, Waiting
<1>5. CASE Lookup(r)
  <2>1. pc[r] = "lookup"
    BY <1>5 DEF Lookup
  <2>2. CASE \E i \in Published : Handled(r, i)
    BY <1>4, <2>1, <2>2 DEF Published, OfTag
  <2>3. CASE inFlight' = inFlight
    BY <2>1, <2>3 DEF Waiting
  <2> QED  BY <1>5, <2>2, <2>3, LookupOutcome
<1>6. CASE List(r)
  <2>1. pc[r] = "list"
    BY <1>6 DEF List
  <2>2. CASE \E i \in OfTag(PageOf(page[r])) : Handled(r, i)
    BY <1>4, <2>1, <2>2 DEF PageOf, OfTag
  <2>3. CASE inFlight' = inFlight
    BY <2>1, <2>3 DEF Waiting
  <2>4. CASE pc' = [pc EXCEPT ![r] = "draft sent"] /\ inFlight' = inFlight \cup {Draft(r)}
    BY <1>1, <2>1, <2>4
  <2> QED  BY <1>6, <2>2, <2>3, <2>4, ListOutcome
<1> QED  BY <1>2, <1>3, <1>5, <1>6 DEF RunStep

\* An owned release is none that a person made.
LEMMA OwnedIsOwn ==
  ASSUME IInv, NEW r \in Run, NEW i \in DOMAIN releases, Owned(r, releases[i])
  PROVE  ~releases[i].foreign
<1>1. commit[r] \in Commit
  BY DEF IInv, TypeOK
<1> QED  BY <1>1 DEF IInv, ReleasesInv, Owned

LEMMA OwnStays ==
  ASSUME IInv, [Next]_vars, NEW i \in DOMAIN releases, ~releases[i].foreign
  PROVE  \E j \in DOMAIN releases' : releases'[j].id = releases[i].id /\ ~releases'[j].foreign
<1>1. releases[i].tagged
  BY DEF IInv, ReleasesInv
<1>2. PICK j \in DOMAIN releases' : Kept(releases[i], releases'[j])
  BY <1>1, TaggedStays
<1> QED  BY <1>2 DEF Kept

\* A request stays as it should be while its sender waits or has failed.
LEMMA RequestStays ==
  ASSUME IInv, [Next]_vars, NEW q \in inFlight, pc'[q.run] \in {pc[q.run], "failed"}
  PROVE  RequestOK(q)'
<1>1. RequestOK(q)
  BY DEF IInv, RequestsInv, RequestOK
<1>2. commit[q.run] # NoCommit
  BY DEF IInv, TypeOK, Requests
<1>3. commit' = commit /\ (tag # NoCommit => tag' = tag)
  BY TagStays
<1>4. CASE q.kind = "ref"
  BY <1>1, <1>4 DEF RequestOK
<1>5. CASE q.kind = "draft"
  BY <1>1, <1>2, <1>3, <1>5 DEF RequestOK
<1>6. CASE q.kind = "publish"
  <2>1. PICK i \in DOMAIN releases : releases[i].id = q.id /\ ~releases[i].foreign
    BY <1>1, <1>6 DEF RequestOK
  <2>2. PICK j \in DOMAIN releases' : releases'[j].id = q.id /\ ~releases'[j].foreign
    BY <2>1, OwnStays
  <2> QED  BY <1>1, <1>6, <2>2 DEF RequestOK
<1> QED  BY <1>4, <1>5, <1>6 DEF RequestOK

LEMMA RunStepKeepsRequests ==
  ASSUME IInv, NEW r \in Run, RunStep(r)
  PROVE  RequestsInv'
<1>1. /\ TypeOK /\ [Next]_vars /\ pc \in [Run -> Place]
      /\ \A q \in inFlight : q.run \in Run /\ q.kind \in {"ref", "draft", "publish"}
  BY DEF IInv, TypeOK, Requests, Next
<1>2. \A p \in Run : p # r => pc'[p] = pc[p]
  BY <1>1, RunStepTypes
<1>3. \A q \in inFlight : pc[q.run] \in Waiting
  BY <1>1 DEF IInv, RequestsInv, RequestOK, Waiting
<1>4. \A q, p \in inFlight : q.run = p.run => q = p
  BY DEF IInv, RequestsInv, RequestOK
<1>5. commit' = commit /\ (tag # NoCommit => tag' = tag)
  BY <1>1, TagStays
<1>6. CASE inFlight' = inFlight /\ (pc'[r] = "failed" \/ pc[r] \notin Waiting)
  <2>1. \A q \in inFlight : RequestOK(q)'
    BY <1>1, <1>2, <1>3, <1>6, RequestStays
  <2> QED  BY <1>4, <1>6, <2>1 DEF RequestsInv, RequestOK
<1>7. ASSUME NEW new, inFlight' = inFlight \cup {new}, new.run = r, pc[r] \notin Waiting,
             RequestOK(new)'
      PROVE  RequestsInv'
  <2>1. \A q \in inFlight : q.run # r
    BY <1>3, <1>7
  <2>2. \A q \in inFlight : RequestOK(q)'
    BY <1>1, <1>2, <2>1, RequestStays
  <2>3. \A q \in inFlight' : RequestOK(q)'
    BY <1>7, <2>2
  <2>4. \A q, p \in inFlight' : q.run = p.run => q = p
    BY <1>4, <1>7, <2>1
  <2> QED  BY <2>3, <2>4 DEF RequestsInv, RequestOK
<1>8. CASE /\ pc[r] = "object" /\ pc'[r] = "ref sent"
           /\ inFlight' = inFlight \cup {Ref(r)}
  <2>1. PICK new : new = Ref(r)
    OBVIOUS
  <2>2. new.run = r /\ new.kind = "ref"
    BY <2>1 DEF Ref
  <2>3. RequestOK(new)'
    BY <1>8, <2>2 DEF RequestOK
  <2> QED  BY <1>7, <1>8, <2>1, <2>2, <2>3 DEF Waiting
<1>9. CASE /\ pc[r] = "list" /\ pc'[r] = "draft sent"
           /\ inFlight' = inFlight \cup {Draft(r)}
  <2>1. tag = commit[r] /\ commit[r] # NoCommit
    <3>1. PlacesInv /\ commit[r] \in Commit
      BY DEF IInv, TypeOK
    <3>2. tag = commit[r]
      BY <1>9, <3>1 DEF PlacesInv, PlaceOK
    <3> QED  BY <3>1, <3>2
  <2>2. tag' = commit'[r]
    BY <1>5, <2>1
  <2>3. PICK new : new = Draft(r)
    OBVIOUS
  <2>4. new.run = r /\ new.kind = "draft" /\ new.id = 0
    BY <2>3 DEF Draft
  <2>5. RequestOK(new)'
    BY <1>9, <2>2, <2>4 DEF RequestOK
  <2> QED  BY <1>7, <1>9, <2>3, <2>4, <2>5 DEF Waiting
<1>10. CASE /\ pc[r] \in {"lookup", "list"} /\ pc'[r] = "publish sent"
            /\ \E i \in DOMAIN releases : /\ inFlight' = inFlight \cup {Publish(r, releases[i])}
                                          /\ Owned(r, releases[i])
  <2>1. PICK i \in DOMAIN releases : /\ inFlight' = inFlight \cup {Publish(r, releases[i])}
                                     /\ Owned(r, releases[i])
    BY <1>10
  <2>2. \E j \in DOMAIN releases' : releases'[j].id = releases[i].id /\ ~releases'[j].foreign
    BY <1>1, <2>1, OwnedIsOwn, OwnStays
  <2>3. PICK new : new = Publish(r, releases[i])
    OBVIOUS
  <2>4. new.run = r /\ new.kind = "publish" /\ new.id = releases[i].id
    BY <2>3 DEF Publish
  <2>5. RequestOK(new)'
    BY <1>10, <2>2, <2>4 DEF RequestOK
  <2> QED  BY <1>7, <1>10, <2>1, <2>3, <2>4, <2>5 DEF Waiting
<1> QED  BY <1>1, <1>6, <1>8, <1>9, <1>10, RunStepSends

LEMMA ServeKeepsRequests ==
  ASSUME IInv, NEW q \in inFlight, Serve(q)
  PROVE  RequestsInv'
<1>1. /\ TypeOK /\ [Next]_vars /\ q.run \in Run /\ commit \in [Run -> Commit]
      /\ pc \in [Run -> Place] /\ \A p \in inFlight : p.run \in Run
  BY DEF IInv, TypeOK, Requests, Next
<1>2. \A p \in Run : p # q.run => pc'[p] = pc[p]
  BY ServeTypes
<1>3. \A p \in inFlight : p.run = q.run => p = q
  BY DEF IInv, RequestsInv, RequestOK
<1>4. \A p, o \in inFlight : p.run = o.run => p = o
  BY DEF IInv, RequestsInv, RequestOK
<1>5. ASSUME NEW p \in inFlight, p # q PROVE RequestOK(p)'
  BY <1>1, <1>2, <1>3, <1>5, RequestStays
<1>6. CASE inFlight' = inFlight \ {q}
  BY <1>4, <1>5, <1>6 DEF RequestsInv, RequestOK
<1>7. CASE ServeDraft(q) /\ pc[q.run] = "draft sent"
  <2>1. PICK new : new = Publish(q.run, NewDraft(commit[q.run]))
    OBVIOUS
  <2>2. inFlight' = (inFlight \ {q}) \cup {new} /\ pc' = [pc EXCEPT ![q.run] = "publish sent"]
    BY <1>7, <2>1 DEF ServeDraft, Answer
  <2>3. new.run = q.run /\ new.kind = "publish" /\ new.id = NewDraft(commit[q.run]).id
    BY <2>1 DEF Publish
  <2>4. \E j \in DOMAIN releases' : releases'[j].id = new.id /\ ~releases'[j].foreign
    <3>1. commit[q.run] \in Commit /\ releases \in Seq(Releases) /\ tag = commit[q.run]
      BY <1>1, <1>7 DEF TypeOK, ServeDraft, IInv, RequestsInv, RequestOK
    <3>2. releases' = <<NewDraft(commit[q.run])>> \o releases
      BY <1>7 DEF ServeDraft
    <3>3. NewDraft(commit[q.run]) \in Releases /\ ~NewDraft(commit[q.run]).foreign
      BY <1>1, <3>1, NewDraftOK DEF NewOK
    <3>4. 1 \in DOMAIN releases' /\ releases'[1] = NewDraft(commit[q.run])
      <4>1. Len(releases) \in Nat /\ 1 \in 1 .. Len(releases) + 1
        BY <3>1
      <4> QED  BY <3>1, <3>2, <3>3, <4>1, Prepended
    <3> QED  BY <2>3, <3>3, <3>4
  <2>5. pc'[new.run] = "publish sent"
    BY <1>1, <2>2, <2>3
  <2>6. RequestOK(new)'
    BY <2>3, <2>4, <2>5 DEF RequestOK
  <2>7. \A p \in inFlight' : RequestOK(p)'
    BY <1>5, <2>2, <2>6
  <2>8. \A p, o \in inFlight' : p.run = o.run => p = o
    BY <1>3, <1>4, <2>2, <2>3
  <2> QED  BY <2>7, <2>8 DEF RequestsInv, RequestOK
<1>8. CASE ~(ServeDraft(q) /\ pc[q.run] = "draft sent")
  <2>1. inFlight' = inFlight \ {q}
    BY <1>8 DEF Serve, ServeRef, ServeDraft, RefuseDraft, ServePublish, Lose
  <2> QED  BY <1>6, <2>1
<1> QED  BY <1>7, <1>8

LEMMA RequestsKept ==
  ASSUME IInv, [Next]_vars
  PROVE  RequestsInv'
<1>1. CASE ByHand \/ UNCHANGED vars
  <2>1. pc' = pc /\ inFlight' = inFlight
    BY <1>1 DEF vars, runs, server, ByHand, Meddle, TagByHand, DraftByHand, OtherVersion,
       PublishByHand, EditByHand, DeleteByHand
  <2>2. \A q \in inFlight : RequestOK(q)'
    BY <2>1, RequestStays
  <2>3. \A q, p \in inFlight : q.run = p.run => q = p
    BY DEF IInv, RequestsInv, RequestOK
  <2> QED  BY <2>1, <2>2, <2>3 DEF RequestsInv, RequestOK
<1> QED  BY <1>1, RunStepKeepsRequests, ServeKeepsRequests DEF Next

-----------------------------------------------------------------------------
LEMMA Positions ==
  ASSUME NEW S, NEW s \in Seq(S)
  PROVE  DOMAIN s \in SUBSET (Nat \ {0})
OBVIOUS

LEMMA Further ==
  ASSUME NEW p \in Nat \ {0}, NEW n \in Nat \ {0}, NEW i \in Nat, NEW j \in Nat,
         i > (p - 1) * n, i <= j
  PROVE  j > (p - 1) * n
<1>1. p - 1 \in Nat
  OBVIOUS
<1> DEFINE q == p - 1
<1> HIDE DEF q
<1>2. q * n \in Nat
  BY <1>1 DEF q
<1> DEFINE b == q * n
<1> HIDE DEF b
<1>3. j > b
  BY <1>2 DEF b, q
<1> QED  BY <1>3 DEF b, q

\* What a run that does not move knows of the releases stays true.
LEMMA PlaceStays ==
  ASSUME IInv, [Next]_vars, NEW r \in Run, pc'[r] = pc[r], page'[r] = page[r],
         r \in raced' => r \in raced, r \in disturbed => r \in disturbed',
         pc[r] \in {"list", "draft sent", "publish sent"} /\ r \notin disturbed' =>
           meddling' = meddling
  PROVE  PlaceOK(r)'
<1>1. PlaceOK(r) /\ commit[r] # NoCommit /\ page[r] \in Nat \ {0} /\ DOMAIN releases \in SUBSET (Nat \ {0})
  <2>1. PlaceOK(r)
    BY DEF IInv, PlacesInv
  <2>2. TypeOK
    BY DEF IInv
  <2>3. commit[r] \in Commit /\ page[r] \in Nat \ {0}
    BY <2>2 DEF TypeOK
  <2>4. releases \in Seq(Releases)
    BY <2>2 DEF TypeOK
  <2> QED  BY <2>1, <2>3, <2>4, Positions
<1>2. commit' = commit /\ (tag # NoCommit => tag' = tag)
  BY TagStays
<1>3. TypeOK' /\ DOMAIN releases' \in SUBSET (Nat \ {0})
  <2>1. TypeOK'
    BY TypesKept
  <2>2. releases' \in Seq(Releases)
    BY <2>1 DEF TypeOK
  <2> QED  BY <2>1, <2>2, Positions
<1>4. PICK f, x : /\ ReleasesStep(f, x)
                  /\ x.foreign /\ x.tagged => meddling' # meddling
  BY EveryStepHasShape DEF StepShape
<1>5. ASSUME NEW i \in OfTag(DOMAIN releases)
      PROVE  \E j \in OfTag(DOMAIN releases)' :
               Kept(releases[i], releases'[j]) /\ (meddling' = meddling => i <= j)
  <2>1. i \in DOMAIN releases /\ releases[i].tagged /\ i # 0
    BY <1>1 DEF OfTag
  <2>2. PICK j \in DOMAIN releases' : f[j] = i
    BY <1>4, <2>1 DEF ReleasesStep
  <2>3. Kept(releases[i], releases'[j]) /\ (meddling' = meddling => i <= j)
    BY <1>4, <2>1, <2>2 DEF ReleasesStep
  <2>4. j \in OfTag(DOMAIN releases)'
    BY <2>1, <2>2, <2>3 DEF OfTag, Kept
  <2> QED  BY <2>3, <2>4
<1>6. pc'[r] \in {"lookup", "list", "draft sent", "publish sent", "succeeded"} => tag' = commit'[r]
  BY <1>1, <1>2 DEF PlaceOK
<1>7. pc'[r] = "ref lost" => tag' # NoCommit
  BY <1>1, <1>2 DEF PlaceOK
<1>8. ASSUME pc'[r] = "succeeded"
      PROVE  \E i \in OfTag(DOMAIN releases)' : ~releases'[i].draft /\ ~releases'[i].prerelease
  <2>1. PICK i \in OfTag(DOMAIN releases) : ~releases[i].draft /\ ~releases[i].prerelease
    BY <1>1, <1>8 DEF PlaceOK
  <2>2. PICK j \in OfTag(DOMAIN releases)' : Kept(releases[i], releases'[j])
    BY <1>5
  <2> QED  BY <2>1, <2>2 DEF Kept
<1>9. r \in raced' => OfTag(DOMAIN releases)' # {}
  BY <1>1, <1>5 DEF PlaceOK
<1>10. ASSUME pc'[r] = "list", r \in raced', r \notin disturbed'
       PROVE  \E i \in OfTag(DOMAIN releases)' : i > (page'[r] - 1) * PageSize
  <2>1. PICK i \in OfTag(DOMAIN releases) : i > (page[r] - 1) * PageSize
    BY <1>1, <1>10 DEF PlaceOK
  <2>2. PICK j \in OfTag(DOMAIN releases)' : i <= j
    BY <1>5, <1>10
  <2>3. i \in Nat /\ j \in Nat
    BY <1>1, <1>3 DEF OfTag
  <2>4. PageSize \in Nat \ {0} /\ page'[r] = page[r]
    OBVIOUS
  <2>5. j > (page[r] - 1) * PageSize
    BY <1>1, <2>1, <2>2, <2>3, <2>4, Further
  <2> QED  BY <2>4, <2>5
<1>11. ASSUME pc'[r] \in {"list", "draft sent", "publish sent"}, r \notin disturbed',
              NEW j \in OfTag(DOMAIN releases)', releases'[j].foreign
       PROVE  releases'[j].draft
  <2>1. meddling' = meddling /\ r \notin disturbed
    BY <1>11
  <2>2. j \in DOMAIN releases' /\ releases'[j].tagged
    BY <1>11 DEF OfTag
  <2>3. \/ f[j] = 0 /\ releases'[j] = x
        \/ /\ f[j] \in DOMAIN releases /\ Kept(releases[f[j]], releases'[j])
           /\ releases[f[j]].foreign => releases'[j] = releases[f[j]]
    BY <1>4, <2>1, <2>2 DEF ReleasesStep
  <2>4. ~(f[j] = 0 /\ releases'[j] = x)
    BY <1>4, <1>11, <2>1, <2>2
  <2>5. /\ f[j] \in OfTag(DOMAIN releases) /\ releases[f[j]].foreign
        /\ releases'[j] = releases[f[j]]
    BY <1>11, <2>2, <2>3, <2>4 DEF Kept, OfTag
  <2>6. releases[f[j]].draft
    BY <1>1, <1>11, <2>1, <2>5 DEF PlaceOK
  <2> QED  BY <2>5, <2>6
<1> QED  BY <1>6, <1>7, <1>8, <1>9, <1>10, <1>11 DEF PlaceOK

\* What has been read without a release of the version in it.
LEMMA NextPage ==
  ASSUME TypeOK, NEW r \in Run, OfTag(PageOf(page[r])) = {},
         NEW i \in OfTag(DOMAIN releases), i > (page[r] - 1) * PageSize
  PROVE  i > page[r] * PageSize
<1>1. releases \in Seq(Releases) /\ page[r] \in Nat \ {0}
  BY DEF TypeOK
<1>2. i \in DOMAIN releases /\ releases[i].tagged
  BY DEF OfTag
<1>3. i \in Nat
  BY <1>1, <1>2, Positions
<1>4. ~(i <= page[r] * PageSize)
  BY <1>2 DEF OfTag, PageOf
<1> DEFINE b == page[r] * PageSize
<1>5. b \in Nat
  BY <1>1
<1> HIDE DEF b
<1>6. ~(i <= b)
  BY <1>4 DEF b
<1>7. i > b
  BY <1>3, <1>5, <1>6
<1> QED  BY <1>7 DEF b

\* A run that moves knows what it has just found.
LEMMA RunStepPlace ==
  ASSUME IInv, NEW r \in Run, RunStep(r)
  PROVE  PlaceOK(r)'
<1>1. /\ releases' = releases /\ raced' = raced /\ disturbed' = disturbed /\ tag' = tag
      /\ commit' = commit
  BY DEF RunStep, Start, GetTag, CreateTag, CheckWinner, Lookup, List, Interrupt, request,
     server, history
<1>2. TypeOK /\ PlaceOK(r)
  BY DEF IInv, PlacesInv
<1>3. /\ pc \in [Run -> Place] /\ page \in [Run -> Nat \ {0}] /\ releases \in Seq(Releases)
  BY <1>2 DEF TypeOK
<1>4. r \in raced => OfTag(DOMAIN releases) # {}
  BY <1>2 DEF PlaceOK
<1>5. OfTag(DOMAIN releases)' = OfTag(DOMAIN releases)
  BY <1>1 DEF OfTag
<1>6. CASE Start(r) \/ GetTag(r) \/ CreateTag(r) \/ CheckWinner(r) \/ Interrupt(r)
  <2>1. /\ pc'[r] \in {"tag", "object", "lookup", "failed", "ref sent"}
        /\ pc'[r] = "lookup" => tag = commit[r]
    BY <1>3, <1>6 DEF Start, GetTag, CreateTag, CheckWinner, Interrupt, GoTo, TagMatches
  <2> QED  BY <1>1, <1>4, <1>5, <2>1 DEF PlaceOK
<1>7. ASSUME NEW i \in OfTag(DOMAIN releases), Handled(r, i), pc[r] \in {"lookup", "list"},
             pc'[r] = "publish sent" /\ r \notin disturbed =>
               \A k \in OfTag(DOMAIN releases) : releases[k].foreign => releases[k].draft
      PROVE  PlaceOK(r)'
  <2>1. tag = commit[r]
    BY <1>2, <1>7 DEF PlaceOK
  <2>2. /\ pc'[r] \in {"publish sent", "failed", "succeeded"}
        /\ pc'[r] = "succeeded" => ~releases[i].draft /\ ~releases[i].prerelease
    BY <1>3, <1>7 DEF Handled
  <2> QED  BY <1>1, <1>4, <1>5, <1>7, <2>1, <2>2 DEF PlaceOK
<1>8. CASE Lookup(r)
  <2>1. pc[r] = "lookup"
    BY <1>8 DEF Lookup
  <2>2. CASE \E i \in Published : Handled(r, i)
    <3>1. PICK i \in OfTag(DOMAIN releases) : ~releases[i].draft /\ Handled(r, i)
      BY <2>2 DEF Published
    <3>2. pc'[r] # "publish sent"
      BY <1>3, <3>1 DEF Handled
    <3> QED  BY <1>7, <2>1, <3>1, <3>2
  <2>3. CASE /\ Published = {}
             /\ pc' = [pc EXCEPT ![r] = "list"] /\ page' = [page EXCEPT ![r] = 1]
    <3>1. tag = commit[r] /\ pc'[r] = "list" /\ (page'[r] - 1) * PageSize = 0
      <4>1. page'[r] = 1
        BY <1>3, <2>3
      <4>2. (1 - 1) * PageSize = 0
        OBVIOUS
      <4> QED  BY <1>2, <1>3, <2>1, <2>3, <4>1, <4>2 DEF PlaceOK
    <3>2. \A i \in OfTag(DOMAIN releases) : releases[i].draft
      BY <2>3 DEF Published
    <3>3. \A i \in OfTag(DOMAIN releases) : i > 0
      BY <1>3, Positions DEF OfTag
    <3> QED  BY <1>1, <1>4, <1>5, <3>1, <3>2, <3>3 DEF PlaceOK
  <2> QED  BY <1>2, <1>8, <2>2, <2>3, LookupOutcome
<1>9. CASE List(r)
  <2>1. pc[r] = "list" /\ tag = commit[r]
    BY <1>2, <1>9 DEF List, PlaceOK
  <2>2. page'[r] = page[r] + 1
    BY <1>3, <1>9 DEF List
  <2>3. r \notin disturbed =>
          \A k \in OfTag(DOMAIN releases) : releases[k].foreign => releases[k].draft
    BY <1>2, <2>1 DEF PlaceOK
  <2>4. CASE \E i \in OfTag(PageOf(page[r])) : Handled(r, i)
    <3>1. PICK i \in OfTag(PageOf(page[r])) : Handled(r, i)
      BY <2>4
    <3>2. i \in OfTag(DOMAIN releases)
      BY <3>1 DEF OfTag, PageOf
    <3> QED  BY <1>7, <2>1, <2>3, <3>1, <3>2
  <2>5. CASE \E place \in {"failed", "draft sent"} : pc' = [pc EXCEPT ![r] = place]
    <3>1. pc'[r] \in {"failed", "draft sent"}
      BY <1>3, <2>5
    <3> QED  BY <1>1, <1>4, <1>5, <2>1, <2>3, <3>1 DEF PlaceOK
  <2>6. CASE OfTag(PageOf(page[r])) = {} /\ pc' = [pc EXCEPT ![r] = "list"]
    <3>1. ASSUME r \in raced, r \notin disturbed
          PROVE  \E i \in OfTag(DOMAIN releases) : i > (page'[r] - 1) * PageSize
      <4>1. PICK i \in OfTag(DOMAIN releases) : i > (page[r] - 1) * PageSize
        BY <1>2, <2>1, <3>1 DEF PlaceOK
      <4>2. i > page[r] * PageSize
        BY <1>2, <2>6, <4>1, NextPage
      <4>3. page'[r] - 1 = page[r]
        BY <1>3, <2>2
      <4> QED  BY <4>2, <4>3
    <3>2. pc'[r] = "list"
      BY <1>3, <2>6
    <3> QED  BY <1>1, <1>4, <1>5, <2>1, <2>3, <3>1, <3>2 DEF PlaceOK
  <2> QED  BY <1>2, <1>9, <2>4, <2>5, <2>6, ListOutcome
<1> QED  BY <1>6, <1>8, <1>9 DEF RunStep

\* An answer that arrives in time tells its sender what is so.
LEMMA ServePlace ==
  ASSUME IInv, NEW q \in inFlight, Serve(q)
  PROVE  PlaceOK(q.run)'
<1>1. /\ TypeOK /\ [Next]_vars /\ q.run \in Run /\ q.kind \in {"ref", "draft", "publish"}
  BY DEF IInv, TypeOK, Requests, Next
<1>2. PICK r \in Run : r = q.run
  BY <1>1
<1>3. pc \in [Run -> Place] /\ commit[r] \in Commit /\ releases \in Seq(Releases)
  BY <1>1, <1>2 DEF TypeOK
<1>4. PlaceOK(r) /\ pc[r] \in Waiting
  BY <1>1, <1>2 DEF IInv, PlacesInv, RequestsInv, RequestOK, Waiting
<1>5. page' = page /\ disturbed' = disturbed /\ meddling' = meddling /\ commit' = commit
  BY DEF Serve, ServeRef, ServeDraft, RefuseDraft, ServePublish, Lose, Arrives, history, runs,
     request
<1>6. tag # NoCommit => tag' = tag
  BY <1>1, TagStays
<1>7. CASE pc'[r] = pc[r] /\ raced' = raced
  <2>1. PlaceOK(r)'
    BY <1>1, <1>5, <1>7, PlaceStays
  <2> QED  BY <1>2, <2>1
<1>8. OfTag(DOMAIN releases) # {} => OfTag(DOMAIN releases)' # {}
  <2>1. ASSUME NEW i \in OfTag(DOMAIN releases) PROVE OfTag(DOMAIN releases)' # {}
    <3>1. i \in DOMAIN releases /\ releases[i].tagged
      BY DEF OfTag
    <3>2. PICK j \in DOMAIN releases' : Kept(releases[i], releases'[j])
      BY <1>1, <3>1, TaggedStays
    <3> QED  BY <3>1, <3>2 DEF Kept, OfTag
  <2> QED  BY <2>1
<1>9. r \in raced => OfTag(DOMAIN releases)' # {}
  BY <1>4, <1>8 DEF PlaceOK
<1>10. CASE ServeRef(q) /\ pc'[r] # pc[r]
  <2>1. /\ pc[r] = "ref sent" /\ raced' = raced
        /\ pc' = [pc EXCEPT ![r] = IF tag = NoCommit THEN "lookup" ELSE "ref lost"]
        /\ tag' = IF tag = NoCommit THEN commit[r] ELSE tag
    BY <1>2, <1>3, <1>10 DEF ServeRef, Answer
  <2>2. \/ pc'[r] = "lookup" /\ tag' = commit[r]
        \/ pc'[r] = "ref lost" /\ tag' # NoCommit
    BY <1>3, <2>1
  <2>3. PlaceOK(r)'
    BY <1>5, <1>9, <2>1, <2>2 DEF PlaceOK
  <2> QED  BY <1>2, <2>3
<1>11. CASE ServeDraft(q) /\ pc'[r] # pc[r]
  <2>1. pc[r] = "draft sent" /\ pc'[r] = "publish sent" /\ raced' = raced /\ tag' = tag
    BY <1>2, <1>3, <1>11 DEF ServeDraft, Answer
  <2>2. tag' = commit'[r]
    BY <1>4, <1>5, <2>1 DEF PlaceOK
  <2>3. ASSUME r \notin disturbed', NEW j \in OfTag(DOMAIN releases)', releases'[j].foreign
        PROVE  releases'[j].draft
    <3>1. releases' = <<NewDraft(commit[r])>> \o releases
      BY <1>2, <1>11 DEF ServeDraft
    <3>2. tag = commit[r]
      BY <1>4, <2>1 DEF PlaceOK
    <3>3. NewDraft(commit[r]) \in Releases /\ ~NewDraft(commit[r]).foreign
      BY <1>1, <1>3, <3>2, NewDraftOK DEF NewOK
    <3>4. /\ DOMAIN releases' = 1 .. Len(releases) + 1 /\ releases'[1] = NewDraft(commit[r])
          /\ \A k \in 2 .. Len(releases) + 1 : releases'[k] = releases[k - 1]
      BY <1>3, <3>1, <3>3, Prepended
    <3>5. j \in DOMAIN releases' /\ releases'[j].tagged /\ j # 1
      BY <2>3, <3>3, <3>4 DEF OfTag
    <3>6. /\ Len(releases) \in Nat /\ DOMAIN releases = 1 .. Len(releases)
          /\ j \in 2 .. Len(releases) + 1
      BY <1>3, <3>4, <3>5
    <3>7. j - 1 \in DOMAIN releases /\ releases'[j] = releases[j - 1]
      BY <3>4, <3>6
    <3>8. j - 1 \in OfTag(DOMAIN releases)
      BY <3>5, <3>7 DEF OfTag
    <3> QED  BY <1>4, <1>5, <2>1, <2>3, <3>7, <3>8 DEF PlaceOK
  <2>4. PlaceOK(r)'
    BY <1>9, <2>1, <2>2, <2>3 DEF PlaceOK
  <2> QED  BY <1>2, <2>4
<1>12. CASE RefuseDraft(q)
  <2>1. /\ OfTag(DOMAIN releases) # {} /\ tag' = tag /\ releases' = releases
        /\ \/ pc[r] = "draft sent" /\ pc'[r] = "lookup"
           \/ pc'[r] = pc[r] /\ pc[r] # "draft sent"
    BY <1>2, <1>3, <1>12 DEF RefuseDraft, Answer, AfterDraftConflict
  <2>2. pc[r] = "draft sent" => tag = commit[r]
    BY <1>4 DEF PlaceOK
  <2>3. pc[r] \in {"draft sent", "failed"}
    BY <1>2, <1>12 DEF RefuseDraft, IInv, RequestsInv, RequestOK
  <2>4. PlaceOK(r)'
    BY <1>5, <1>8, <2>1, <2>2, <2>3 DEF PlaceOK
  <2> QED  BY <1>2, <2>4
<1>13. CASE ServePublish(q) /\ pc'[r] # pc[r]
  <2>1. PICK i \in DOMAIN releases :
          /\ releases[i].id = q.id
          /\ releases' = IF PublishedBut(q.id) THEN releases
                         ELSE [releases EXCEPT ![i].draft = FALSE]
          /\ Answer(q, "publish sent",
                    IF PublishedBut(q.id) THEN "failed" ELSE AfterPublish(releases[i]))
    BY <1>13 DEF ServePublish
  <2>2. /\ pc[r] = "publish sent" /\ raced' = raced /\ tag' = tag /\ tag = commit[r]
        /\ pc'[r] = IF PublishedBut(q.id) THEN "failed" ELSE AfterPublish(releases[i])
    BY <1>2, <1>3, <1>4, <1>13, <2>1 DEF ServePublish, Answer, PlaceOK
  <2>3. pc'[r] \in {"failed", "succeeded"}
    BY <2>2 DEF AfterPublish
  <2>4. ASSUME pc'[r] = "succeeded"
        PROVE  \E k \in OfTag(DOMAIN releases)' : ~releases'[k].draft /\ ~releases'[k].prerelease
    <3>1. ~PublishedBut(q.id) /\ ~releases[i].prerelease
      BY <2>2, <2>4 DEF AfterPublish
    <3>2. releases[i].tagged
      BY <1>13, <2>1, RequestIsForOwn DEF ServePublish
    <3>3. releases[i] \in Releases
      BY <1>3
    <3>4. /\ DOMAIN releases' = DOMAIN releases
          /\ releases'[i] = [releases[i] EXCEPT !.draft = FALSE]
      BY <1>3, <2>1, <3>1
    <3>5. releases'[i].tagged /\ ~releases'[i].draft /\ ~releases'[i].prerelease
      BY <3>1, <3>2, <3>3, <3>4 DEF Releases
    <3> QED  BY <3>4, <3>5 DEF OfTag
  <2>5. PlaceOK(r)'
    BY <1>5, <1>9, <2>2, <2>3, <2>4 DEF PlaceOK
  <2> QED  BY <1>2, <2>5
<1>14. CASE Lose(q)
  BY <1>7, <1>14 DEF Lose, runs
<1>15. ServeRef(q) \/ ServeDraft(q) \/ ServePublish(q) => raced' = raced
  BY DEF ServeRef, ServeDraft, ServePublish
<1> QED  BY <1>7, <1>10, <1>11, <1>12, <1>13, <1>14, <1>15 DEF Serve

LEMMA PlacesKept ==
  ASSUME IInv, [Next]_vars
  PROVE  PlacesInv'
<1>1. TypeOK
  BY DEF IInv
<1>2. ASSUME NEW r \in Run, RunStep(r), NEW p \in Run PROVE PlaceOK(p)'
  <2>1. CASE p = r
    <3>1. PlaceOK(r)'
      BY <1>2, RunStepPlace
    <3> QED  BY <2>1, <3>1
  <2>2. CASE p # r
    <3>1. pc'[p] = pc[p] /\ page'[p] = page[p]
      BY <1>1, <1>2, <2>2, RunStepTypes
    <3>2. raced' = raced /\ disturbed' = disturbed /\ meddling' = meddling
      BY <1>2 DEF RunStep, Start, GetTag, CreateTag, CheckWinner, Lookup, List, Interrupt,
         history
    <3> QED  BY <3>1, <3>2, PlaceStays
  <2> QED  BY <2>1, <2>2
<1>3. ASSUME NEW q \in inFlight, Serve(q), NEW p \in Run PROVE PlaceOK(p)'
  <2>1. CASE p = q.run
    <3>1. PlaceOK(q.run)'
      BY <1>3, ServePlace
    <3> QED  BY <2>1, <3>1
  <2>2. CASE p # q.run
    <3>1. pc'[p] = pc[p] /\ page' = page
      BY <1>3, <2>2, ServeTypes
    <3>2. /\ p \in raced' => p \in raced
          /\ disturbed' = disturbed /\ meddling' = meddling
      BY <1>3, <2>2 DEF Serve, ServeRef, ServeDraft, RefuseDraft, ServePublish, Lose, Arrives,
         history, runs
    <3> QED  BY <3>1, <3>2, PlaceStays
  <2> QED  BY <2>1, <2>2
<1>4. ASSUME ByHand, NEW p \in Run PROVE PlaceOK(p)'
  <2>1. Meddle
    BY <1>4 DEF ByHand, TagByHand, DraftByHand, OtherVersion, PublishByHand, EditByHand,
       DeleteByHand
  <2>2. /\ pc' = pc /\ page' = page /\ raced' = raced
        /\ disturbed' = disturbed \cup {r \in Run : Active(r)}
    BY <2>1 DEF Meddle, runs
  <2>3. pc[p] \in {"list", "draft sent", "publish sent"} => p \in disturbed'
    BY <2>2 DEF Active, Ended
  <2> QED  BY <2>2, <2>3, PlaceStays
<1>5. ASSUME UNCHANGED vars, NEW p \in Run PROVE PlaceOK(p)'
  <2>1. pc' = pc /\ page' = page /\ raced' = raced /\ disturbed' = disturbed
        /\ meddling' = meddling
    BY <1>5 DEF vars, runs, history
  <2> QED  BY <2>1, PlaceStays
<1> QED  BY <1>2, <1>3, <1>4, <1>5 DEF Next, PlacesInv

-----------------------------------------------------------------------------
\* Only a served request for a draft adds to the automation's releases.
LEMMA OwnComeFromOwn ==
  ASSUME IInv, [Next]_vars, \A q \in inFlight : ~ServeDraft(q)
  PROVE  \E f : /\ \A j \in OwnReleases' : f[j] \in OwnReleases
                /\ \A j, k \in OwnReleases' : f[j] = f[k] => j = k
<1>1. PICK f, x : ReleasesStep(f, x) /\ x.foreign
  BY EveryStepHasShape DEF StepShape
<1>2. ASSUME NEW j \in OwnReleases' PROVE f[j] \in OwnReleases
  <2>1. j \in DOMAIN releases' /\ ~releases'[j].foreign
    BY DEF OwnReleases
  <2>2. f[j] \in DOMAIN releases /\ Kept(releases[f[j]], releases'[j])
    BY <1>1, <2>1 DEF ReleasesStep
  <2> QED  BY <2>1, <2>2 DEF Kept, OwnReleases
<1>3. \A j, k \in OwnReleases' : f[j] = f[k] => j = k
  BY <1>1 DEF ReleasesStep, OwnReleases
<1> QED  BY <1>2, <1>3

LEMMA OwnKept ==
  ASSUME IInv, [Next]_vars, \A q \in inFlight : ~ServeDraft(q)
  PROVE  (OneOwn => OneOwn') /\ (OwnReleases = {} => OwnReleases' = {})
<1>1. PICK f : /\ \A j \in OwnReleases' : f[j] \in OwnReleases
               /\ \A j, k \in OwnReleases' : f[j] = f[k] => j = k
  BY OwnComeFromOwn
<1>2. ASSUME OneOwn, NEW j \in OwnReleases', NEW k \in OwnReleases' PROVE j = k
  BY <1>1, <1>2 DEF OneOwn
<1> QED  BY <1>1, <1>2 DEF OneOwn

\* A run that reaches the end of the list has not found a release of the version.
LEMMA EndOfList ==
  ASSUME TypeOK, NEW r \in Run, OfTag(PageOf(page[r])) = {}, LastPage(r),
         NEW i \in OfTag(DOMAIN releases), i > (page[r] - 1) * PageSize
  PROVE  FALSE
<1>1. i > page[r] * PageSize
  BY NextPage
<1>2. releases \in Seq(Releases) /\ page[r] \in Nat \ {0}
  BY DEF TypeOK
<1>3. Len(releases) \in Nat /\ i \in 1 .. Len(releases)
  BY <1>2 DEF OfTag
<1> DEFINE b == page[r] * PageSize
<1>4. b \in Nat /\ i > b /\ Len(releases) < b
  BY <1>1, <1>2 DEF LastPage
<1> HIDE DEF b
<1> QED  BY <1>3, <1>4

LEMMA RunStepReuse ==
  ASSUME IInv, OneOwn, DraftIsFirst, ReadPagesHaveNone, NEW r \in Run, RunStep(r)
  PROVE  OneOwn' /\ DraftIsFirst' /\ ReadPagesHaveNone'
<1>1. /\ TypeOK /\ pc \in [Run -> Place] /\ page \in [Run -> Nat \ {0}]
      /\ releases \in Seq(Releases) /\ releases' = releases /\ OwnReleases' = OwnReleases
  BY DEF IInv, TypeOK, RunStep, Start, GetTag, CreateTag, CheckWinner, Lookup, List, Interrupt,
     server, OwnReleases
<1>2. OneOwn'
  BY <1>1 DEF OneOwn
<1>3. \A p \in Run : p # r => pc'[p] = pc[p] /\ page'[p] = page[p]
  BY <1>1, RunStepTypes
<1>4. OwnReleases \subseteq OfTag(DOMAIN releases)
  BY DEF OwnReleases, OfTag, IInv, ReleasesInv
<1>5. CASE Start(r)
  <2>1. latest' = r /\ pc[r] = "idle" /\ pc'[r] = "tag" /\ inFlight' = inFlight
    BY <1>1, <1>5 DEF Start, GoTo, server
  <2>2. \A q \in inFlight : q.run # r
    <3>1. ASSUME NEW q \in inFlight, q.run = r PROVE FALSE
      <4>1. q.kind \in {"ref", "draft", "publish"} /\ RequestOK(q)
        BY DEF IInv, TypeOK, Requests, RequestsInv
      <4> QED  BY <2>1, <3>1, <4>1 DEF RequestOK
    <3> QED  BY <3>1
  <2> QED  BY <1>2, <2>1, <2>2 DEF DraftIsFirst, ReadPagesHaveNone
<1>6. CASE ~Start(r)
  <2>1. latest' = latest
    BY <1>6 DEF RunStep, GetTag, CreateTag, CheckWinner, Lookup, List, Interrupt, history
  <2>2. CASE latest # r
    <3>1. \A q \in inFlight' : q \in inFlight \/ q.run = r
      <4>1. Ref(r).run = r /\ Draft(r).run = r
        BY DEF Ref, Draft
      <4>2. \A i \in DOMAIN releases : Publish(r, releases[i]).run = r
        BY DEF Publish
      <4> QED  BY <1>1, <4>1, <4>2, RunStepSends
    <3>2. DraftIsFirst'
      BY <1>1, <2>1, <2>2, <3>1 DEF DraftIsFirst
    <3>3. ReadPagesHaveNone'
      <4>1. ASSUME latest \in Run, pc'[latest] = "list", NEW i \in OwnReleases
            PROVE  i > (page'[latest] - 1) * PageSize
        <5>1. pc[latest] = "list" /\ page'[latest] = page[latest]
          BY <1>3, <2>2, <4>1
        <5> QED  BY <4>1, <5>1 DEF ReadPagesHaveNone
      <4> QED  BY <1>1, <2>1, <4>1 DEF ReadPagesHaveNone
    <3> QED  BY <1>2, <3>2, <3>3
  <2>3. ASSUME latest = r, OfTag(PageOf(page[r])) = {}, NEW i \in OwnReleases, pc[r] = "list"
        PROVE  ~LastPage(r) /\ i > page[r] * PageSize
    <3>1. i \in OfTag(DOMAIN releases) /\ i > (page[r] - 1) * PageSize
      BY <1>4, <2>3 DEF ReadPagesHaveNone
    <3> QED  BY <1>1, <2>3, <3>1, NextPage, EndOfList
  <2>4. ASSUME latest = r, NEW q \in inFlight', q \notin inFlight, q.kind = "draft"
        PROVE  OwnReleases = {}
    <3>1. inFlight' # inFlight /\ Ref(r).kind # "draft"
          /\ \A i \in DOMAIN releases : Publish(r, releases[i]).kind # "draft"
      BY <2>4 DEF Ref, Publish
    <3>2. pc[r] = "list" /\ pc'[r] = "draft sent"
      BY <1>1, <2>4, <3>1, RunStepSends
    <3>3. List(r)
      <4>1. ~GetTag(r) /\ ~CreateTag(r) /\ ~CheckWinner(r) /\ ~Lookup(r)
        BY <3>2 DEF GetTag, CreateTag, CheckWinner, Lookup
      <4>2. ~Interrupt(r)
        BY <1>1, <3>2 DEF Interrupt, GoTo
      <4> QED  BY <1>6, <4>1, <4>2 DEF RunStep
    <3>4. OfTag(PageOf(page[r])) = {} /\ LastPage(r)
      <4>1. ASSUME NEW i \in OfTag(PageOf(page[r])), Handled(r, i) PROVE FALSE
        BY <1>1, <3>2, <4>1 DEF Handled
      <4> QED  BY <1>1, <3>2, <3>3, <4>1, ListOutcome
    <3> QED  BY <2>3, <2>4, <3>2, <3>4
  <2>5. CASE latest = r
    <3>1. DraftIsFirst'
      BY <1>1, <2>1, <2>4, <2>5 DEF DraftIsFirst
    <3>2. ASSUME pc'[r] = "list", NEW i \in OwnReleases
          PROVE  i > (page'[r] - 1) * PageSize
      <4>1. Lookup(r) \/ List(r)
        BY <1>1, <1>6, <3>2 DEF RunStep, GetTag, CreateTag, CheckWinner, Interrupt, GoTo
      <4>2. ASSUME NEW k, Handled(r, k) PROVE FALSE
        BY <1>1, <3>2, <4>2 DEF Handled
      <4>3. CASE Lookup(r)
        <5>1. page'[r] = 1
          BY <1>1, <4>2, <4>3, LookupOutcome
        <5>2. i > 0 /\ (1 - 1) * PageSize = 0
          BY <1>1, Positions DEF OwnReleases
        <5> QED  BY <5>1, <5>2
      <4>4. CASE List(r)
        <5>1. page'[r] = page[r] + 1 /\ pc[r] = "list"
          BY <1>1, <4>4 DEF List
        <5>2. OfTag(PageOf(page[r])) = {}
          BY <1>1, <4>2, <4>4, ListOutcome
        <5>3. i > page[r] * PageSize
          BY <2>3, <2>5, <5>1, <5>2
        <5>4. page'[r] - 1 = page[r]
          BY <1>1, <5>1
        <5> QED  BY <5>3, <5>4
      <4> QED  BY <4>1, <4>3, <4>4
    <3>3. ReadPagesHaveNone'
      BY <1>1, <2>1, <2>5, <3>2 DEF ReadPagesHaveNone
    <3> QED  BY <1>2, <3>1, <3>3
  <2> QED  BY <2>2, <2>5
<1> QED  BY <1>5, <1>6

LEMMA ServeReuse ==
  ASSUME IInv, OneOwn, DraftIsFirst, ReadPagesHaveNone, NEW q \in inFlight, Serve(q),
         Lose(q) \/ q.run = latest
  PROVE  OneOwn' /\ DraftIsFirst' /\ ReadPagesHaveNone'
<1>1. /\ TypeOK /\ [Next]_vars /\ pc \in [Run -> Place] /\ releases \in Seq(Releases)
      /\ q.run \in Run /\ latest' = latest /\ page' = page
  BY ServeTypes DEF IInv, TypeOK, Requests, Next, Serve, ServeRef, ServeDraft, RefuseDraft,
     ServePublish, Lose, Arrives, history
<1>2. \A p \in inFlight : p.run = q.run => p = q
  BY DEF IInv, RequestsInv
<1>3. CASE Lose(q)
  <2>1. /\ pc' = pc /\ inFlight' = inFlight \ {q} /\ releases' = releases
        /\ OwnReleases' = OwnReleases
    BY <1>3 DEF Lose, runs, OwnReleases
  <2> QED  BY <1>1, <2>1 DEF OneOwn, DraftIsFirst, ReadPagesHaveNone
<1>4. CASE ~Lose(q)
  <2>1. latest = q.run /\ RequestOK(q) /\ q.kind \in {"ref", "draft", "publish"}
    BY <1>4 DEF IInv, RequestsInv, TypeOK, Requests
  <2>2. pc[latest] \in Waiting
    BY <2>1 DEF RequestOK, Waiting
  <2>3. pc'[latest] # "list"
    BY <1>1, <1>4, <2>1, <2>2 DEF Serve, ServeRef, ServeDraft, RefuseDraft, ServePublish, Answer,
       AfterPublish, AfterDraftConflict, Waiting
  <2>4. ReadPagesHaveNone'
    BY <1>1, <2>3 DEF ReadPagesHaveNone
  <2>5. \A p \in inFlight' : p.kind = "draft" => p \in inFlight \ {q}
    <3>1. CASE ServeDraft(q)
      <4>1. Publish(q.run, NewDraft(commit[q.run])).kind # "draft"
        BY DEF Publish
      <4>2. \/ inFlight' = (inFlight \ {q}) \cup {Publish(q.run, NewDraft(commit[q.run]))}
            \/ inFlight' = inFlight \ {q}
        BY <3>1 DEF ServeDraft
      <4> QED  BY <4>1, <4>2
    <3>2. CASE inFlight' = inFlight \ {q}
      BY <3>2
    <3> QED  BY <1>4, <3>1, <3>2 DEF Serve, ServeRef, RefuseDraft, ServePublish
  <2>6. DraftIsFirst'
    BY <1>1, <1>2, <2>1, <2>5 DEF DraftIsFirst
  <2>7. CASE ServeDraft(q)
    <3>1. OwnReleases = {}
      BY <2>1, <2>7 DEF DraftIsFirst, ServeDraft
    <3>2. PICK f, x : ReleasesStep(f, x)
      BY <1>1, EveryStepHasShape DEF StepShape
    <3>3. ASSUME NEW j \in OwnReleases' PROVE f[j] = 0
      <4>1. j \in DOMAIN releases' /\ ~releases'[j].foreign
        BY DEF OwnReleases
      <4>2. ~(f[j] \in DOMAIN releases /\ Kept(releases[f[j]], releases'[j]))
        BY <3>1, <4>1 DEF Kept, OwnReleases
      <4> QED  BY <3>2, <4>1, <4>2 DEF ReleasesStep
    <3>4. OneOwn'
      BY <3>2, <3>3 DEF OneOwn, OwnReleases, ReleasesStep
    <3> QED  BY <2>4, <2>6, <3>4
  <2>8. CASE ~ServeDraft(q)
    <3>1. \A p \in inFlight : ~ServeDraft(p)
      <4>1. q.kind # "draft" \/ releases' = releases
        BY <1>4, <2>8 DEF Serve, ServeRef, RefuseDraft, ServePublish
      <4>2. CASE inFlight' = inFlight \ {q} /\ q.kind # "draft"
        BY <4>2 DEF ServeDraft
      <4> QED  BY <1>4, <2>8, <4>1, <4>2 DEF Serve, ServeRef, RefuseDraft, ServePublish, ServeDraft
    <3> QED  BY <1>1, <2>4, <2>6, <3>1, OwnKept
  <2> QED  BY <2>7, <2>8
<1> QED  BY <1>3, <1>4

LEMMA ReuseKept ==
  ASSUME IInv, [Next]_vars
  PROVE  ReuseInv'
<1> SUFFICES ASSUME ~crossed', disturbed' = {}
             PROVE  OneOwn' /\ DraftIsFirst' /\ ReadPagesHaveNone'
  BY DEF ReuseInv
<1>1. CASE ~crossed /\ disturbed = {}
  <2>1. OneOwn /\ DraftIsFirst /\ ReadPagesHaveNone
    BY <1>1 DEF IInv, ReuseInv
  <2>2. ASSUME NEW q \in inFlight, Serve(q), ~Lose(q) PROVE q.run = latest
    BY <2>2 DEF Serve, ServeRef, ServeDraft, RefuseDraft, ServePublish, Arrives
  <2>3. ASSUME ByHand PROVE OneOwn' /\ DraftIsFirst' /\ ReadPagesHaveNone'
    <3>1. Meddle
      BY <2>3 DEF ByHand, TagByHand, DraftByHand, OtherVersion, PublishByHand, EditByHand,
         DeleteByHand
    <3>2. /\ pc' = pc /\ inFlight' = inFlight /\ latest' = latest
          /\ meddling' = meddling + 1 /\ disturbed' = disturbed \cup {r \in Run : Active(r)}
      BY <3>1 DEF Meddle, runs
    <3>3. meddling' # meddling
      BY <3>2 DEF IInv, TypeOK
    <3>4. \A q \in inFlight : ~ServeDraft(q)
      BY <3>3 DEF ServeDraft, Arrives
    <3>5. OneOwn' /\ (OwnReleases = {} => OwnReleases' = {})
      BY <2>1, <3>4, OwnKept
    <3>6. ~(latest \in Run /\ pc[latest] = "list")
      BY <3>2 DEF Active, Ended
    <3> QED  BY <2>1, <3>2, <3>5, <3>6 DEF DraftIsFirst, ReadPagesHaveNone
  <2>4. CASE UNCHANGED vars
    <3>1. /\ pc' = pc /\ page' = page /\ inFlight' = inFlight /\ latest' = latest
          /\ OwnReleases' = OwnReleases
      BY <2>4 DEF vars, runs, server, history, OwnReleases
    <3> QED  BY <2>1, <3>1 DEF OneOwn, DraftIsFirst, ReadPagesHaveNone
  <2> QED  BY <2>1, <2>2, <2>3, <2>4, RunStepReuse, ServeReuse DEF Next
<1>2. (crossed => crossed') /\ disturbed \subseteq disturbed'
  <2>1. ASSUME NEW r \in Run, RunStep(r) PROVE crossed' = crossed /\ disturbed' = disturbed
    BY <2>1 DEF RunStep, Start, GetTag, CreateTag, CheckWinner, Lookup, List, Interrupt, history
  <2>2. ASSUME NEW q \in inFlight, Serve(q)
        PROVE  (crossed => crossed') /\ disturbed' = disturbed
    <3>1. Arrives(q) \/ UNCHANGED history
      BY <2>2 DEF Serve, ServeRef, ServeDraft, RefuseDraft, ServePublish, Lose
    <3>2. CASE Arrives(q)
      <4>1. crossed' = (crossed \/ q.run # latest) /\ disturbed' = disturbed
        BY <3>2 DEF Arrives
      <4> QED  BY <4>1
    <3> QED  BY <3>1, <3>2 DEF history
  <2>3. CASE ByHand
    <3>1. Meddle
      BY <2>3 DEF ByHand, TagByHand, DraftByHand, OtherVersion, PublishByHand, EditByHand,
         DeleteByHand
    <3> QED  BY <3>1 DEF Meddle
  <2>4. CASE UNCHANGED vars
    BY <2>4 DEF vars, history
  <2> QED  BY <2>1, <2>2, <2>3, <2>4 DEF Next
<1> QED  BY <1>1, <1>2

LEMMA InitIInv == Init => IInv
<1> SUFFICES ASSUME Init PROVE IInv
  OBVIOUS
<1>1. PICK n \in 0 .. MaxOthers : releases = [i \in 1 .. n |-> Other]
  BY DEF Init
<1>2. Other \in Releases /\ ~Other.tagged /\ Other.foreign /\ Other.id = 0 /\ Other.marker = NoCommit
  BY DEF Other, Releases
<1>3. releases \in Seq(Releases)
  BY <1>1, <1>2
<1>4. \A i \in DOMAIN releases : releases[i] = Other
  BY <1>1
<1>5. TypeOK
  <2>1. pc \in [Run -> Place] /\ page \in [Run -> Nat \ {0}]
    BY DEF Init, Place
  <2>2. /\ commit \in [Run -> Commit] /\ serialized \in BOOLEAN /\ raced \subseteq Run
        /\ inFlight \subseteq Requests /\ tag \in Commit \cup {NoCommit} /\ meddling \in Nat
        /\ latest \in Run \cup {NoRun} /\ interrupted \subseteq Run /\ disturbed \subseteq Run
        /\ crossed \in BOOLEAN
    BY DEF Init
  <2> QED  BY <1>3, <2>1, <2>2 DEF TypeOK
<1>6. ReleasesInv
  BY <1>2, <1>4 DEF ReleasesInv
<1>7. RequestsInv
  BY DEF Init, RequestsInv
<1>8. PlacesInv
  <2>1. ASSUME NEW r \in Run PROVE pc[r] = "idle" /\ r \notin raced
    BY DEF Init
  <2> QED  BY <2>1 DEF PlacesInv, PlaceOK
<1>9. ReuseInv
  BY <1>2, <1>4 DEF Init, ReuseInv, OneOwn, DraftIsFirst, ReadPagesHaveNone, OwnReleases
<1> QED  BY <1>5, <1>6, <1>7, <1>8, <1>9 DEF IInv

\* Whatever the runs, people and the service do, what a run believes is true.
THEOREM PublicationInvariant == Spec => []IInv
<1>1. IInv /\ [Next]_vars => IInv'
  BY TypesKept, ReleasesKept, RequestsKept, PlacesKept, ReuseKept DEF IInv
<1> QED  BY InitIInv, <1>1, PTL DEF Spec

\* Whoever wins which race, a release the automation made, draft or not, is for
\* the commit that the tag of the version resolves to.
THEOREM ReleasesAreOfTaggedCommit == Spec => []ReleaseIsOfTaggedCommit
<1>1. IInv => ReleaseIsOfTaggedCommit
  BY DEF IInv, ReleasesInv, ReleaseIsOfTaggedCommit, OwnReleases
<1> QED  BY <1>1, PublicationInvariant, PTL

\* A run that reports success leaves the tag at its commit and a published stable
\* release of the version.
THEOREM SuccessesArePublished == Spec => []SuccessIsPublished
<1>1. IInv => SuccessIsPublished
  BY DEF IInv, PlacesInv, PlaceOK, SuccessIsPublished
<1> QED  BY <1>1, PublicationInvariant, PTL

\* A request of a run, however late it arrives, changes no release that a person
\* made and none that is published.
THEOREM OthersStayUntouched == Spec => OthersAreUntouched
<1>1. ASSUME IInv, [Next]_vars, meddling' = meddling, NEW i \in DOMAIN releases,
             releases[i].foreign \/ ~releases[i].draft
      PROVE  \E j \in DOMAIN releases' : releases'[j] = releases[i]
  <2>1. PICK f, x : ReleasesStep(f, x)
    BY <1>1, EveryStepHasShape DEF StepShape
  <2>2. PICK j \in DOMAIN releases' : f[j] = i
    BY <1>1, <2>1 DEF ReleasesStep
  <2>3. i # 0
    <3>1. releases \in Seq(Releases)
      BY <1>1 DEF IInv, TypeOK
    <3> QED  BY <3>1, Positions
  <2>4. Kept(releases[i], releases'[j]) /\ (releases[i].foreign => releases'[j] = releases[i])
    BY <1>1, <2>1, <2>2, <2>3 DEF ReleasesStep
  <2> QED  BY <1>1, <2>4 DEF Kept
<1>2. IInv /\ [Next]_vars =>
        (meddling' = meddling =>
           \A i \in DOMAIN releases : releases[i].foreign \/ ~releases[i].draft =>
             \E j \in DOMAIN releases' : releases'[j] = releases[i])
  BY <1>1
<1> QED  BY <1>2, PublicationInvariant, PTL DEF Spec, OthersAreUntouched

LEMMA MoreThanOne ==
  ASSUME TypeOK
  PROVE  Cardinality(OwnReleases) > 1 <=> ~OneOwn
<1>1. releases \in Seq(Releases)
  BY DEF TypeOK
<1>2. DOMAIN releases = 1 .. Len(releases) /\ Len(releases) \in Nat
  BY <1>1
<1>3. IsFiniteSet(DOMAIN releases)
  BY <1>2, FS_Interval
<1>4. IsFiniteSet(OwnReleases)
  BY <1>3, FS_Subset DEF OwnReleases
<1>5. Cardinality(OwnReleases) \in Nat
  BY <1>4, FS_CardinalityType
<1>6. Cardinality(OwnReleases) = 0 <=> OwnReleases = {}
  BY <1>4, FS_EmptySet
<1>7. Cardinality(OwnReleases) = 1 <=> \E i : OwnReleases = {i}
  BY <1>4, FS_Singleton
<1>8. OneOwn <=> OwnReleases = {} \/ \E i : OwnReleases = {i}
  BY DEF OneOwn
<1> QED  BY <1>5, <1>6, <1>7, <1>8

\* A retry finds the draft of the run before and makes no second one, unless a
\* request was overtaken by a later run or people changed the list meanwhile.
THEOREM RetriesReuseDrafts == Spec => []RetryReusesDraft
<1>1. IInv => RetryReusesDraft
  <2> SUFFICES ASSUME IInv, Cardinality(OwnReleases) > 1, ~crossed, disturbed = {}
               PROVE  FALSE
    BY DEF RetryReusesDraft
  <2>1. TypeOK /\ OneOwn
    BY DEF IInv, ReuseInv
  <2> QED  BY <2>1, MoreThanOne
<1> QED  BY <1>1, PublicationInvariant, PTL

-----------------------------------------------------------------------------
\* A release that is not a run's own is something for a person to resolve.
LEMMA NotOwnedIsObstacle ==
  ASSUME IInv, NEW r \in Run, NEW i \in OfTag(DOMAIN releases), Handled(r, i), pc'[r] = "failed"
  PROVE  Obstacle(r)
<1>1. i \in DOMAIN releases /\ commit[r] \in Commit /\ pc \in [Run -> Place]
  BY DEF OfTag, IInv, TypeOK
<1>2. releases[i].prerelease \/ (releases[i].draft /\ ~Owned(r, releases[i]))
  BY <1>1 DEF Handled
<1>3. ~Owned(r, releases[i]) => releases[i].marker # commit[r]
  BY <1>1 DEF Owned, IInv, ReleasesInv
<1> QED  BY <1>2, <1>3 DEF Obstacle

\* A run that stops by itself has found something for a person to resolve.
LEMMA OwnFailure ==
  ASSUME IInv, NEW r \in Run, RunStep(r), ~Interrupt(r), pc'[r] = "failed"
  PROVE  r \in disturbed \/ Obstacle(r)
<1>1. TypeOK /\ PlaceOK(r) /\ pc \in [Run -> Place] /\ page \in [Run -> Nat \ {0}]
  BY DEF IInv, PlacesInv, TypeOK
<1>2. CASE Start(r) \/ GetTag(r) \/ CreateTag(r) \/ CheckWinner(r)
  <2>1. tag # NoCommit /\ tag # commit[r]
    BY <1>1, <1>2 DEF Start, GetTag, CreateTag, CheckWinner, GoTo, TagMatches, PlaceOK
  <2> QED  BY <2>1 DEF Obstacle
<1>3. CASE Lookup(r)
  <2>1. PICK i \in Published : Handled(r, i)
    BY <1>1, <1>3, LookupOutcome
  <2> QED  BY <2>1, NotOwnedIsObstacle DEF Published
<1>4. CASE List(r)
  <2>1. CASE \E i \in OfTag(PageOf(page[r])) : Handled(r, i)
    <3>1. PICK i \in OfTag(PageOf(page[r])) : Handled(r, i)
      BY <2>1
    <3>2. i \in OfTag(DOMAIN releases)
      BY <3>1 DEF OfTag, PageOf
    <3> QED  BY <3>1, <3>2, NotOwnedIsObstacle
  <2>2. CASE OfTag(PageOf(page[r])) = {} /\ LastPage(r) /\ r \in raced
    <3>1. ASSUME r \notin disturbed PROVE FALSE
      <4>1. pc[r] = "list"
        BY <1>4 DEF List
      <4>2. PICK i \in OfTag(DOMAIN releases) : i > (page[r] - 1) * PageSize
        BY <1>1, <2>2, <3>1, <4>1 DEF PlaceOK
      <4> QED  BY <1>1, <2>2, <4>2, EndOfList
    <3> QED  BY <3>1
  <2>3. CASE ~LastPage(r) /\ page[r] = PageLimit
    <3>1. ~(Len(releases) < PageLimit * PageSize)
      BY <2>3 DEF LastPage
    <3>2. releases \in Seq(Releases)
      BY <1>1 DEF TypeOK
    <3>3. Len(releases) \in Nat
      BY <3>2
    <3>4. Len(releases) >= PageSize * PageLimit
      BY <3>1, <3>3
    <3> QED  BY <3>4 DEF Obstacle
  <2> QED  BY <1>1, <1>4, <2>1, <2>2, <2>3, ListOutcome
<1> QED  BY <1>2, <1>3, <1>4 DEF RunStep

\* A run is told that it has failed only over a release of somebody else, a
\* prerelease, or a second release of the automation.
LEMMA AnsweredFailure ==
  ASSUME IInv, NEW q \in inFlight, Serve(q), Active(q.run), pc'[q.run] = "failed"
  PROVE  q.run \in disturbed \/ Obstacle(q.run) \/ Cardinality(OwnReleases) > 1
<1>1. TypeOK /\ q.run \in Run /\ pc \in [Run -> Place] /\ releases \in Seq(Releases)
  BY DEF IInv, TypeOK, Requests
<1>2. PlaceOK(q.run) /\ pc[q.run] # "failed"
  BY <1>1 DEF IInv, PlacesInv, Active, Ended
<1>3. ServePublish(q)
  BY <1>1, <1>2 DEF Serve, ServeRef, ServeDraft, RefuseDraft, Lose, Answer, AfterDraftConflict,
     runs
<1>4. PICK i \in DOMAIN releases :
        /\ releases[i].id = q.id
        /\ Answer(q, "publish sent",
                  IF PublishedBut(q.id) THEN "failed" ELSE AfterPublish(releases[i]))
  BY <1>3 DEF ServePublish
<1>5. ~releases[i].foreign /\ i \in OfTag(DOMAIN releases)
  BY <1>3, <1>4, RequestIsForOwn DEF ServePublish, OfTag
<1>6. /\ pc[q.run] = "publish sent"
      /\ PublishedBut(q.id) \/ AfterPublish(releases[i]) = "failed"
  BY <1>1, <1>2, <1>4 DEF Answer
<1>7. CASE PublishedBut(q.id)
  <2>1. PICK k \in OfTag(DOMAIN releases) : ~releases[k].draft /\ releases[k].id # q.id
    BY <1>7 DEF PublishedBut
  <2>2. CASE releases[k].foreign
    BY <1>2, <1>6, <2>1, <2>2 DEF PlaceOK
  <2>3. CASE ~releases[k].foreign
    <3>1. i \in OwnReleases /\ k \in OwnReleases /\ i # k
      BY <1>4, <1>5, <2>1, <2>3 DEF OwnReleases, OfTag
    <3> QED  BY <1>1, <3>1, MoreThanOne DEF OneOwn
  <2> QED  BY <2>2, <2>3
<1>8. CASE AfterPublish(releases[i]) = "failed"
  BY <1>5, <1>8 DEF AfterPublish, Obstacle
<1> QED  BY <1>6, <1>7, <1>8

\* "Publication is safe to retry": wherever earlier runs stopped and whichever of
\* their requests still arrive, a run fails only when a call of its own does,
\* people interfere, or there is something for a person to resolve.
THEOREM FailuresHaveACause == Spec => FailureHasACause
<1>1. ASSUME IInv, [Next]_vars, NEW r \in Run, Active(r), pc'[r] = "failed"
      PROVE  \/ r \in interrupted' \cup disturbed
             \/ Obstacle(r)
             \/ Cardinality(OwnReleases) > 1
  <2>1. pc[r] # "failed" /\ TypeOK
    BY <1>1 DEF Active, Ended, IInv
  <2>2. ASSUME NEW p \in Run, RunStep(p) PROVE p = r
    BY <1>1, <2>1, <2>2, RunStepTypes
  <2>3. ASSUME RunStep(r)
        PROVE  r \in interrupted' \cup disturbed \/ Obstacle(r)
    <3>1. CASE Interrupt(r)
      BY <3>1 DEF Interrupt
    <3> QED  BY <1>1, <2>3, <3>1, OwnFailure
  <2>4. ASSUME NEW q \in inFlight, Serve(q)
        PROVE  r \in disturbed \/ Obstacle(r) \/ Cardinality(OwnReleases) > 1
    <3>1. r = q.run
      BY <1>1, <2>1, <2>4, ServeTypes
    <3>2. Active(q.run) /\ pc'[q.run] = "failed"
      BY <1>1, <3>1
    <3>3. q.run \in disturbed \/ Obstacle(q.run) \/ Cardinality(OwnReleases) > 1
      BY <1>1, <2>4, <3>2, AnsweredFailure
    <3> QED  BY <3>1, <3>3
  <2>5. ~(ByHand \/ UNCHANGED vars)
    BY <1>1, <2>1 DEF ByHand, Meddle, TagByHand, DraftByHand, OtherVersion, PublishByHand,
       EditByHand, DeleteByHand, vars, runs
  <2> QED  BY <1>1, <2>2, <2>3, <2>4, <2>5 DEF Next
<1>2. IInv /\ [Next]_vars =>
        \A r \in Run : Active(r) /\ pc'[r] = "failed" =>
          \/ r \in interrupted' \cup disturbed
          \/ Obstacle(r)
          \/ Cardinality(OwnReleases) > 1
  BY <1>1
<1> QED  BY <1>2, PublicationInvariant, PTL DEF Spec, FailureHasACause
=============================================================================
