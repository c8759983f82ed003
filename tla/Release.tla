------------------------------ MODULE Release ------------------------------
(***************************************************************************)
(* How the tool itself is released.  Each major version has a line, a      *)
(* branch that never ends, and at most one open pull request that prepares *)
(* its next version.  A controller stages a candidate of that pull request *)
(* as a draft release: a preview while the pull request has a phase label, *)
(* and otherwise the stable version, whose record is committed to the pull *)
(* request.  Previews are published when staged, stable versions when the  *)
(* pull request is merged.  Every workflow is a process; those of one      *)
(* concurrency group wait for each other, and a newer one that waits       *)
(* replaces the one that waited before.                                    *)
(***************************************************************************)
EXTENDS Naturals, Sequences, FiniteSets, FiniteSetsExt, Functions

CONSTANTS
    Lines,    \* the major versions
    Phases,   \* the phases that labels name
    MaxActs,  \* bounds, for each line, what people do and how many runs die
    Nil

\* Identities and records are introduced below, under Candidates
TagNames == [line : Lines, n : Nat, phase : Phases \cup {Nil}, k : Nat]
Identities == [pr : Nat, base : Nat, src : Nat, tag : TagNames]
Records == [id : Identities, draft : Nat, assets : Nat]

ASSUME LinesAreMajors == Lines \subseteq Nat \ {0} /\ IsFiniteSet(Lines)
ASSUME NilIsNone ==
    Nil \notin Lines \cup {0} /\ Nil \notin Phases /\ Nil \notin Identities /\ Nil \notin Records

VARIABLES
    line,      \* of each line its commits: backports, and merges of a head
    heads,     \* the commits of the generated branches
    pr,        \* of each line its last pull request
    prep,      \* of each line the run of `Release PR`
    ctl,       \* of each line the run of `Release controller`
    cand,      \* of each line the run of `Release candidate`, and the next one
    pub,       \* the run of `Release publish`, and the next one
    lock,      \* release-mutation: the job that has it and the one that waits
    releases,  \* the releases of the repository, drafts among them
    tags,      \* the tags of versions, with their commits
    latest,    \* the tag of the release marked latest
    uploads,   \* how often assets were uploaded
    acts       \* how much of MaxActs each line has left
branches == <<line, heads, pr, prep>>
workflows == <<ctl, cand, pub, lock>>
published == <<releases, tags, latest, uploads>>
release == <<branches, workflows, published, acts>>

\* the job of `Release publish` in the queue of `lock`; the others are named by their line
Publisher == 0

(* Commits and versions *)

\* source_equivalence.meaningful_tree: the tree without the record
Snapshot(h) == [line |-> heads[h].line, base |-> heads[h].base, edit |-> heads[h].edit]

Tip(l) == Len(line[l])
Merges(l, last) == {i \in 1..last : line[l][i].head # 0}

\* the version that Knope prepares above a commit of the line
Prepared(h) == 1 + Cardinality(Merges(heads[h].line, heads[h].base))

\* the change files that no merged head has consumed
Pending(l) ==
    \E i \in 1..Tip(l) :
        /\ line[l][i].head = 0
        /\ \A j \in Merges(l, Tip(l)) : heads[line[l][j].head].base < i

\* packaging/release-candidate.json in the tree of a commit of the line
RecordAt(l, i) ==
    IF Merges(l, i) = {} THEN Nil ELSE heads[line[l][Max(Merges(l, i))].head].rec

(* Candidates.  An identity is [pr, base, src, tag]; a tag, [line, n, phase, k], is the *)
(* version; a record is the identity with the draft and the assets it was staged in. *)

\* CandidateIdentity.build_sha, which derive_preview_commit gives a preview
BuildCommit(id) == IF id.tag.phase = Nil THEN <<"head", id.src>> ELSE <<"preview", id.src, id.tag>>

\* assert_live_identity
IsLive(id) ==
    LET p == pr[id.tag.line] IN
    p.open /\ <<p.number, p.base, p.head, p.phase>> = <<id.pr, id.base, id.src, id.tag.phase>>

\* source_equivalence.assert_record_successor
IsSuccessor(h, rec) ==
    /\ heads[h].parent = rec.id.src /\ heads[h].rec = rec
    /\ Snapshot(h) = Snapshot(rec.id.src)

\* _stable_record_staged
Staged(id) ==
    LET rec == heads[id.src].rec IN
    /\ rec # Nil
    /\ IsSuccessor(id.src, rec)
    /\ <<rec.id.pr, rec.id.base, rec.id.tag>> = <<id.pr, id.base, id.tag>>

With(tag) == {r \in DOMAIN releases : releases[r].tag = tag}
Published(tag) == \E r \in With(tag) : ~releases[r].draft

\* verify_draft.verify
DraftVerified(rec, target) ==
    LET r == releases[rec.draft] IN
    /\ r.draft /\ r.tag = rec.id.tag /\ r.assets = rec.assets
    /\ rec.id.tag.phase # Nil => r.rec = rec
    /\ rec.id.tag \in DOMAIN tags => tags[rec.id.tag] = target

\* _assert_release_shape: the body of the release names the identity of the record
Shaped(rec) == releases[rec.draft].id = rec.id

(* Runs *)

NoRun == [at |-> "none", id |-> Nil, draft |-> 0, rec |-> Nil, next |-> Nil]
Candidate(id) == [NoRun EXCEPT !.at = "build", !.id = id]
Ended(c) == IF c.next = Nil THEN NoRun ELSE Candidate(c.next)
Queued(c, id) == IF c.at = "none" THEN Candidate(id) ELSE [c EXCEPT !.next = id]

\* a job of `Release publish`: for the push of a commit to a line, or for a candidate
NoJob == [line |-> 0, commit |-> 0, rec |-> Nil]
Push(l, i) == [NoJob EXCEPT !.line = l, !.commit = i]
Preview(rec) == [NoJob EXCEPT !.rec = rec]
NotPublishing == [at |-> "none", job |-> NoJob, next |-> NoJob]
Publishing(job) == [NotPublishing EXCEPT !.at = "start", !.job = job]
PublishEnded(p) == IF p.next = NoJob THEN NotPublishing ELSE Publishing(p.next)
Triggered(p, job) == IF p.at = "none" THEN Publishing(job) ELSE [p EXCEPT !.next = job]

\* a job comes for the lock of release-mutation: the one that waited is cancelled
Cancelled == IF Len(lock) = 2 THEN lock[2] ELSE Nil
Came(job) == IF Len(lock) = 2 THEN <<lock[1], job>> ELSE Append(lock, job)
Has(job) == lock # <<>> /\ Head(lock) = job

Act(l) == acts[l] > 0 /\ acts' = [acts EXCEPT ![l] = @ - 1]

\* lines without changes have no pull request; the controller has to look at the others
ReleaseInit ==
    /\ \E order \in UNION {[1..n -> Lines] : n \in 0..Cardinality(Lines)} :
          /\ \A i, j \in DOMAIN order : i < j => order[i] < order[j]
          /\ heads = [i \in DOMAIN order |->
                         [line |-> order[i], parent |-> 0, base |-> 1, edit |-> 0, rec |-> Nil]]
          /\ line = [l \in Lines |->
                       IF \E i \in DOMAIN order : order[i] = l THEN <<[head |-> 0, pr |-> 0]>> ELSE <<>>]
          /\ pr = [l \in Lines |->
                 [number |-> 0, open |-> \E i \in DOMAIN order : order[i] = l, base |-> Len(line[l]),
                  phase |-> Nil, head |-> Max({0} \cup {i \in DOMAIN order : order[i] = l}), gate |-> 0]]
    /\ prep = [l \in Lines |-> [asked |-> FALSE, at |-> "none", base |-> 0, old |-> 0]]
    /\ ctl = [l \in Lines |-> [asked |-> pr[l].open, at |-> "none", id |-> Nil, tags |-> {}]]
    /\ cand = [l \in Lines |-> NoRun]
    /\ pub = NotPublishing
    /\ lock = <<>> /\ releases = <<>> /\ tags = <<>> /\ latest = Nil /\ uploads = 0
    /\ acts \in [Lines -> 0..MaxActs]

(* People, and the branches *)

\* a fix is picked for the line; GitHub may show the new tip as the base of the open PR
Backport(l) ==
    /\ Act(l)
    /\ line' = [line EXCEPT ![l] = Append(@, [head |-> 0, pr |-> 0])]
    /\ \E base \in {pr[l].base, Tip(l) + 1} : pr' = [pr EXCEPT ![l].base = base]
    /\ prep' = [prep EXCEPT ![l].asked = TRUE]
    /\ pub' = Triggered(pub, Push(l, Tip(l) + 1))
    /\ UNCHANGED <<heads, ctl, cand, lock, published>>

\* the generated branch gets a new head: an open PR follows it, which starts the
\* controller and the merge gate
NewHead(l, head) ==
    /\ heads' = Append(heads, head)
    /\ pr' = [pr EXCEPT ![l].head = Len(heads) + 1, ![l].gate = 0,
                        ![l].base = IF pr[l].open THEN Tip(l) ELSE @]
    /\ ctl' = [ctl EXCEPT ![l].asked = @ \/ pr[l].open]

\* a reviewer pushes to the generated branch
EditHead(l) ==
    /\ Act(l) /\ pr[l].open
    /\ NewHead(l, [heads[pr[l].head] EXCEPT !.parent = pr[l].head, !.edit = Len(heads) + 1])
    /\ UNCHANGED <<line, prep, cand, pub, lock, published>>

SetPhase(l, phase) ==
    /\ pr' = [pr EXCEPT ![l].phase = phase, ![l].gate = 0]
    /\ ctl' = [ctl EXCEPT ![l].asked = TRUE]
    /\ UNCHANGED <<line, heads, prep, cand, pub, lock, published>>
AddLabel(l) == Act(l) /\ pr[l].open /\ pr[l].phase = Nil /\ \E p \in Phases : SetPhase(l, p)
RemoveLabel(l) == Act(l) /\ pr[l].open /\ pr[l].phase # Nil /\ SetPhase(l, Nil)

\* an operator starts the controller
Ask(l) ==
    /\ Act(l)
    /\ ctl' = [ctl EXCEPT ![l].asked = TRUE]
    /\ UNCHANGED <<branches, cand, pub, lock, published>>

\* an operator has the head prepared again
Regenerate(l) ==
    /\ Act(l)
    /\ prep' = [prep EXCEPT ![l].asked = TRUE]
    /\ UNCHANGED <<line, heads, pr, workflows, published>>

\* an operator repeats the publication of a merge
RetryPublish(l) ==
    /\ Act(l)
    /\ \E i \in Merges(l, Tip(l)) : pub' = Triggered(pub, Push(l, i))
    /\ UNCHANGED <<branches, ctl, cand, lock, published>>

\* check_stable_merge, over the prospective merge of the live head
MayMerge(l) ==
    LET p == pr[l]
        rec == heads[p.head].rec
    IN  /\ p.open /\ p.phase = Nil
        /\ rec # Nil
        /\ <<rec.id.pr, rec.id.base, rec.id.tag.line>> = <<p.number, p.base, l>>
        /\ IsSuccessor(p.head, rec)
        /\ heads[p.head].base = Tip(l)
        /\ DraftVerified(rec, BuildCommit(rec.id))
Gate(l) ==
    LET passed == IF MayMerge(l) THEN pr[l].head ELSE 0 IN
    /\ pr[l].open /\ pr[l].gate # passed
    /\ pr' = [pr EXCEPT ![l].gate = passed]
    /\ UNCHANGED <<line, heads, prep, workflows, published, acts>>

\* a maintainer merges the pull request, which its required check allows
Merge(l) ==
    /\ pr[l].open /\ pr[l].gate = pr[l].head
    /\ line' = [line EXCEPT ![l] = Append(@, [head |-> pr[l].head, pr |-> pr[l].number])]
    /\ pr' = [pr EXCEPT ![l].open = FALSE, ![l].gate = 0]
    /\ prep' = [prep EXCEPT ![l].asked = TRUE]
    /\ pub' = Triggered(pub, Push(l, Tip(l) + 1))
    /\ UNCHANGED <<heads, ctl, cand, lock, published, acts>>

(* Release PR *)

\* the head and the line are read; Knope prepares the version from there
Prepare(l) ==
    /\ prep[l].asked /\ prep[l].at = "none"
    /\ prep' = [prep EXCEPT ![l] =
           IF Pending(l) THEN [asked |-> FALSE, at |-> "check", base |-> Tip(l), old |-> pr[l].head]
           ELSE [@ EXCEPT !.asked = FALSE]]
    /\ UNCHANGED <<line, heads, pr, workflows, published, acts>>

Unprepared(l) == prep' = [prep EXCEPT ![l].at = "none", ![l].base = 0, ![l].old = 0]

\* the line must not have moved
CheckLine(l) ==
    /\ prep[l].at = "check"
    /\ IF Tip(l) = prep[l].base THEN prep' = [prep EXCEPT ![l].at = "push"] ELSE Unprepared(l)
    /\ UNCHANGED <<line, heads, pr, workflows, published, acts>>

\* the push is on condition of the head
PushPrepared(l) ==
    /\ prep[l].at = "push"
    /\ IF pr[l].head = prep[l].old
         THEN /\ NewHead(l, [line |-> l, parent |-> 0, base |-> prep[l].base, edit |-> 0,
                             rec |-> Nil])
              /\ prep' = [prep EXCEPT ![l].at = "sync"]
         ELSE Unprepared(l) /\ UNCHANGED <<heads, pr, ctl>>
    /\ UNCHANGED <<line, cand, pub, lock, published, acts>>

\* sync_release_pr creates or refreshes the pull request; the controller is started
SyncPR(l) ==
    /\ prep[l].at = "sync"
    /\ pr' = IF pr[l].open THEN pr
             ELSE [pr EXCEPT ![l].open = TRUE, ![l].number = @ + 1, ![l].base = Tip(l), ![l].phase = Nil]
    /\ ctl' = [ctl EXCEPT ![l].asked = TRUE]
    /\ Unprepared(l)
    /\ UNCHANGED <<line, heads, cand, pub, lock, published, acts>>

(* Release controller: it reads the pull request, then the tags, then the releases *)

ReadPR(l) ==
    /\ ctl[l].asked /\ ctl[l].at = "none"
    /\ LET p == pr[l]
           tag == [line |-> l, n |-> Prepared(p.head), phase |-> p.phase, k |-> 0]
       IN  ctl' = [ctl EXCEPT ![l] =
               IF p.open
               THEN [@ EXCEPT !.asked = FALSE, !.at = "tags",
                              !.id = [pr |-> p.number, base |-> p.base, src |-> p.head, tag |-> tag]]
               ELSE [@ EXCEPT !.asked = FALSE]]
    /\ UNCHANGED <<branches, cand, pub, lock, published, acts>>

\* the tags of previews of this version in this phase
ReadTags(l) ==
    /\ ctl[l].at = "tags"
    /\ ctl' = [ctl EXCEPT ![l].at = "releases",
                          ![l].tags = {t \in DOMAIN tags :
                                          t.k > 0 /\ [t EXCEPT !.k = 0] = ctl[l].id.tag}]
    /\ UNCHANGED <<branches, cand, pub, lock, published, acts>>

ControllerEnds(l) ==
    ctl' = [ctl EXCEPT ![l].at = "none", ![l].id = Nil, ![l].tags = {}]

\* published_snapshots
PublishedBefore(id) ==
    \E r \in DOMAIN releases :
        /\ ~releases[r].draft /\ releases[r].tag.phase = id.tag.phase
        /\ Snapshot(releases[r].rec.id.src) = Snapshot(id.src)

\* next_preview_version, of the tags that are not of drafts only
NextNumber(seen) ==
    1 + Max({0} \cup {t.k : t \in {s \in seen : With(s) = {} \/ Published(s)}})

\* resolve_candidate
Resolve(l) ==
    /\ ctl[l].at = "releases"
    /\ LET id == ctl[l].id IN
       IF id.tag.phase # Nil
       THEN IF PublishedBefore(id)
            THEN ControllerEnds(l)
            ELSE ctl' = [ctl EXCEPT ![l].at = "dispatch", ![l].tags = {},
                                    ![l].id.tag.k = NextNumber(ctl[l].tags)]
       ELSE IF Staged(id) \/ Published(id.tag)
            THEN ControllerEnds(l)
            ELSE ctl' = [ctl EXCEPT ![l].at = "dispatch"]
    /\ UNCHANGED <<branches, cand, pub, lock, published, acts>>

\* the pull request is read again, and the candidate workflow started
Dispatch(l) ==
    /\ ctl[l].at = "dispatch"
    /\ ControllerEnds(l)
    /\ cand' = IF IsLive(ctl[l].id) THEN [cand EXCEPT ![l] = Queued(@, ctl[l].id)] ELSE cand
    /\ UNCHANGED <<branches, pub, lock, published, acts>>

(* Release candidate *)

CandidateFails(l) == cand' = [cand EXCEPT ![l] = Ended(@)]

\* the job that stages what was built comes for the lock
Build(l) ==
    /\ cand[l].at = "build"
    /\ cand' = [m \in Lines |->
           IF m = l THEN [cand[l] EXCEPT !.at = "select"]
           ELSE IF m = Cancelled THEN Ended(cand[m]) ELSE cand[m]]
    /\ pub' = IF Cancelled = Publisher THEN PublishEnded(pub) ELSE pub
    /\ lock' = Came(l)
    /\ UNCHANGED <<branches, ctl, published, acts>>

\* a published release is taken like a draft
TakesPublished(r, id) == <<releases[r].id.pr, releases[r].id.base>> = <<id.pr, id.base>>

\* select_draft: what it refuses to write to
MayTake(r, id) ==
    /\ releases[r].draft /\ Cardinality(With(id.tag)) = 1
    /\ <<releases[r].id.pr, releases[r].id.base>> = <<id.pr, id.base>>

\* ... and a new draft if there is none
Select(l) ==
    /\ cand[l].at = "select" /\ Has(l)
    /\ LET id == cand[l].id
           found == With(id.tag)
           draft == CHOOSE r \in found : TRUE
       IN  IF found = {}
           THEN /\ releases' = Append(releases, [tag |-> id.tag, draft |-> TRUE, id |-> id,
                                                 assets |-> 0, rec |-> Nil])
                /\ cand' = [cand EXCEPT ![l].at = "upload", ![l].draft = Len(releases) + 1]
                /\ UNCHANGED lock
           ELSE IF \A r \in found : MayTake(r, id)
           THEN /\ cand' = [cand EXCEPT ![l].draft = draft,
                                        ![l].at = IF releases[draft].id = id THEN "clear" ELSE "untag"]
                /\ UNCHANGED <<releases, lock>>
           ELSE CandidateFails(l) /\ lock' = Tail(lock) /\ UNCHANGED releases
    /\ UNCHANGED <<branches, ctl, pub, tags, latest, uploads, acts>>

\* the tag of the candidate that is superseded is deleted
Untag(l) ==
    /\ cand[l].at = "untag"
    /\ LET tag == cand[l].id.tag IN
       IF tag \in DOMAIN tags /\ tags[tag] # BuildCommit(releases[cand[l].draft].id)
         THEN CandidateFails(l) /\ lock' = Tail(lock) /\ UNCHANGED tags
         ELSE /\ tags' = Restrict(tags, DOMAIN tags \ {tag})
              /\ cand' = [cand EXCEPT ![l].at = "adopt"]
              /\ UNCHANGED lock
    /\ UNCHANGED <<branches, ctl, pub, releases, latest, uploads, acts>>

\* its draft gets the new identity
Adopt(l) ==
    /\ cand[l].at = "adopt"
    /\ releases' = [releases EXCEPT ![cand[l].draft].id = cand[l].id]
    /\ cand' = [cand EXCEPT ![l].at = "clear"]
    /\ UNCHANGED <<branches, ctl, pub, lock, tags, latest, uploads, acts>>

Clear(l) ==
    /\ cand[l].at = "clear"
    /\ releases' = [releases EXCEPT ![cand[l].draft].assets = 0, ![cand[l].draft].rec = Nil]
    /\ cand' = [cand EXCEPT ![l].at = "upload"]
    /\ UNCHANGED <<branches, ctl, pub, lock, tags, latest, uploads, acts>>

\* assets get new ids; the record of a preview is one of them.  The lock is given up.
Upload(l) ==
    /\ cand[l].at = "upload"
    /\ LET id == cand[l].id
           draft == cand[l].draft
           rec == [id |-> id, draft |-> draft, assets |-> uploads + 1]
       IN  /\ releases' = [releases EXCEPT ![draft].assets = uploads + 1,
                               ![draft].rec = IF id.tag.phase = Nil THEN Nil ELSE rec]
           /\ cand' = [cand EXCEPT ![l].at = "verify", ![l].rec = rec]
    /\ uploads' = uploads + 1 /\ lock' = Tail(lock)
    /\ UNCHANGED <<branches, ctl, pub, tags, latest, acts>>

\* the draft is read back; a preview is done with that, and its publication starts
VerifyDraft(l) ==
    /\ cand[l].at = "verify"
    /\ LET rec == cand[l].rec IN
       IF ~DraftVerified(rec, BuildCommit(rec.id)) THEN CandidateFails(l) /\ UNCHANGED pub
       ELSE IF rec.id.tag.phase = Nil
       THEN cand' = [cand EXCEPT ![l].at = "recheck"] /\ UNCHANGED pub
       ELSE cand' = [cand EXCEPT ![l] = Ended(@)] /\ pub' = Triggered(pub, Preview(rec))
    /\ UNCHANGED <<branches, ctl, lock, published, acts>>

Recheck(l) ==
    /\ cand[l].at = "recheck"
    /\ IF IsLive(cand[l].id) THEN cand' = [cand EXCEPT ![l].at = "push"] ELSE CandidateFails(l)
    /\ UNCHANGED <<branches, ctl, pub, lock, published, acts>>

\* the record is pushed on condition of the head; the end of the run starts a
\* publication too, which finds no phase in the record
PushRecord(l) ==
    /\ cand[l].at = "push"
    /\ cand' = [cand EXCEPT ![l] = Ended(@)]
    /\ IF pr[l].head = cand[l].id.src
         THEN /\ NewHead(l, [heads[pr[l].head] EXCEPT !.parent = pr[l].head, !.rec = cand[l].rec])
              /\ pub' = Triggered(pub, Preview(cand[l].rec))
         ELSE UNCHANGED <<heads, pr, ctl, pub>>
    /\ UNCHANGED <<line, prep, lock, published, acts>>

(* Release publish *)

StartPublish ==
    /\ pub.at = "start"
    /\ pub' = [pub EXCEPT !.at = "check"]
    /\ cand' = [m \in Lines |-> IF m = Cancelled THEN Ended(cand[m]) ELSE cand[m]]
    /\ lock' = Came(Publisher)
    /\ UNCHANGED <<branches, ctl, published, acts>>

PublishEnds == pub' = PublishEnded(pub) /\ lock' = Tail(lock)

CheckPreview ==
    /\ pub.at = "check" /\ Has(Publisher) /\ pub.job.rec # Nil
    /\ LET rec == pub.job.rec IN
       IF /\ rec.id.tag.phase # Nil
              /\ IsLive(rec.id) /\ Shaped(rec) /\ DraftVerified(rec, BuildCommit(rec.id))
           THEN pub' = [pub EXCEPT !.at = "refresh"] /\ UNCHANGED lock
           ELSE PublishEnds
    /\ UNCHANGED <<branches, ctl, cand, published, acts>>

Refresh ==
    /\ pub.at = "refresh"
    /\ IF IsLive(pub.job.rec.id)
         THEN pub' = [pub EXCEPT !.at = "tag"] /\ UNCHANGED lock
         ELSE PublishEnds
    /\ UNCHANGED <<branches, ctl, cand, published, acts>>

\* _matching_merge_pr, _assert_line_push_base, _assert_record_introduced
MergedHere(rec, l, i) ==
    /\ line[l][i].head # 0 /\ line[l][i].pr = rec.id.pr
    /\ IsSuccessor(line[l][i].head, rec)
    /\ i - rec.id.base \in 1..2

\* _assert_merge_source
MergedAsTested(rec, l, i) == heads[line[l][i].head].base = i - 1

CheckPush ==
    /\ pub.at = "check" /\ Has(Publisher) /\ pub.job.rec = Nil
    /\ LET l == pub.job.line
           i == pub.job.commit
           rec == RecordAt(l, i)
           target == <<"line", l, i>>
       IN  IF /\ rec # Nil
              /\ MergedHere(rec, l, i) /\ MergedAsTested(rec, l, i)
              /\ Shaped(rec) /\ DraftVerified(rec, target)
           THEN pub' = [pub EXCEPT !.at = "tag", !.job.rec = rec] /\ UNCHANGED lock
           ELSE PublishEnds
    /\ UNCHANGED <<branches, ctl, cand, published, acts>>

\* a preview is tagged at its source
TagsSource ==
    IF pub.job.line = 0 THEN <<"head", pub.job.rec.id.src>>
    ELSE <<"line", pub.job.line, pub.job.commit>>

Target ==
    IF pub.job.line = 0 THEN BuildCommit(pub.job.rec.id)
    ELSE <<"line", pub.job.line, pub.job.commit>>

EnsureTag ==
    /\ pub.at = "tag"
    /\ LET tag == pub.job.rec.id.tag IN
       IF tag \in DOMAIN tags /\ tags[tag] # Target
         THEN PublishEnds /\ UNCHANGED tags
         ELSE /\ tags' = [t \in DOMAIN tags \cup {tag} |-> IF t = tag THEN Target ELSE tags[t]]
              /\ pub' = [pub EXCEPT !.at = "publish"]
              /\ UNCHANGED lock
    /\ UNCHANGED <<branches, ctl, cand, releases, latest, uploads, acts>>

Stable(r) == ~releases[r].draft /\ releases[r].tag.phase = Nil
Above(t, u) == t.line > u.line \/ (t.line = u.line /\ t.n > u.n)

ShouldMakeLatest(tag) == \A r \in DOMAIN releases : Stable(r) => ~Above(releases[r].tag, tag)

\* _publish_release, with should_make_latest for a stable version
PublishRelease ==
    /\ pub.at = "publish"
    /\ LET rec == pub.job.rec
       IN  /\ releases' = [releases EXCEPT ![rec.draft].draft = FALSE]
           /\ latest' = IF rec.id.tag.phase = Nil /\ ShouldMakeLatest(rec.id.tag)
                         THEN rec.id.tag ELSE latest
    /\ PublishEnds
    /\ UNCHANGED <<branches, ctl, cand, tags, uploads, acts>>

(* A run fails or is cut off at any of its steps *)

WithoutJob(job) == IF Has(job) THEN Tail(lock) ELSE IF Cancelled = job THEN <<Head(lock)>> ELSE lock

ControllerDies(l) ==
    /\ Act(l) /\ ctl[l].at # "none"
    /\ ControllerEnds(l)
    /\ UNCHANGED <<branches, cand, pub, lock, published>>

\* an operator may run it again, with the identity it had
CandidateDies(l) ==
    /\ Act(l) /\ cand[l].at # "none"
    /\ \E again \in BOOLEAN :
          cand' = [cand EXCEPT ![l] = IF again THEN Queued(Ended(@), @.id) ELSE Ended(@)]
    /\ lock' = WithoutJob(l)
    /\ UNCHANGED <<branches, ctl, pub, published>>

PublishDies ==
    /\ (\E l \in Lines : Act(l)) /\ pub.at # "none"
    /\ pub' = PublishEnded(pub)
    /\ lock' = WithoutJob(Publisher)
    /\ UNCHANGED <<branches, ctl, cand, published>>

ReleaseNext ==
    \/ \E l \in Lines :
          \/ Backport(l) \/ EditHead(l) \/ AddLabel(l) \/ RemoveLabel(l) \/ Ask(l)
          \/ Regenerate(l) \/ RetryPublish(l) \/ Gate(l) \/ Merge(l)
          \/ Prepare(l) \/ CheckLine(l) \/ PushPrepared(l) \/ SyncPR(l)
          \/ ReadPR(l) \/ ReadTags(l) \/ Resolve(l) \/ Dispatch(l)
          \/ Build(l) \/ Select(l) \/ Untag(l) \/ Adopt(l) \/ Clear(l) \/ Upload(l)
          \/ VerifyDraft(l) \/ Recheck(l) \/ PushRecord(l)
          \/ ControllerDies(l) \/ CandidateDies(l)
    \/ StartPublish \/ CheckPreview \/ Refresh \/ CheckPush \/ EnsureTag \/ PublishRelease
    \/ PublishDies

ReleaseSpec == ReleaseInit /\ [][ReleaseNext]_release

(* Properties *)

IsOut(r) == ~releases[r].draft

\* the record with which a release was published
RecordOf(r) ==
    IF releases[r].tag.phase # Nil THEN releases[r].rec
    ELSE RecordAt(tags[releases[r].tag][2], tags[releases[r].tag][3])

\* The tag of what is published names the commit that was built: of a preview the commit
\* derived from its source, of a stable version the merge of the tested pull request,
\* whose tree is that of the tested head (_ensure_tag, _assert_merge_source).
PublishedIsTagged ==
    \A r \in DOMAIN releases : IsOut(r) =>
        /\ releases[r].tag \in DOMAIN tags
        /\ LET target == tags[releases[r].tag] IN
           IF releases[r].tag.phase # Nil THEN target = BuildCommit(releases[r].id)
           ELSE /\ target[1] = "line" /\ line[target[2]][target[3]].head # 0
                /\ MergedAsTested(RecordOf(r), target[2], target[3])

\* What is published are the assets of its record, staged for its identity, although a
\* draft is taken over, cleared and filled by one candidate after the other, and by
\* several runs of one (select_draft, verify_draft.verify).
PublishedIsRecorded ==
    \A r \in DOMAIN releases : IsOut(r) =>
        RecordOf(r) = [id |-> releases[r].id, draft |-> r, assets |-> releases[r].assets]

\* No two releases have one tag, and a snapshot is published at most once in a phase,
\* however many controllers resolve it (published_snapshots, resolve_candidate).
OncePerSnapshot ==
    \A r, s \in DOMAIN releases :
        /\ r # s => releases[r].tag # releases[s].tag
        /\ r # s /\ IsOut(r) /\ IsOut(s) /\ releases[r].tag.phase # Nil
           /\ releases[r].tag.phase = releases[s].tag.phase
              => Snapshot(releases[r].id.src) # Snapshot(releases[s].id.src)

\* The previews of a version in one phase are numbered without gaps, although tags are
\* made before publication and are read before the releases (next_preview_version,
\* _published_tag_inventory).
NoGaps ==
    \A r \in DOMAIN releases :
        IsOut(r) /\ releases[r].tag.k > 1 => Published([releases[r].tag EXCEPT !.k = @ - 1])

\* The release marked latest is the highest stable version, whatever order the lines and
\* the retries publish in (should_make_latest).
LatestIsHighest ==
    LET out == {releases[r].tag : r \in {s \in DOMAIN releases : Stable(s)}} IN
    IF out = {} THEN latest = Nil
    ELSE latest \in out /\ \A t \in out : ~Above(t, latest)

\* What is published is what was recorded, tested and tagged, once, without gaps, and
\* the highest stable version is the latest: the five above.
ReleasesInv ==
    PublishedIsTagged /\ PublishedIsRecorded /\ OncePerSnapshot /\ NoGaps /\ LatestIsHighest

\* What is published is never changed or taken back, nor its tag moved: not by a
\* candidate that is run again, not by the deletion of a superseded tag or of assets
\* (select_draft, the steps of release-candidate.yml under the lock).
PublishedStays ==
    [][\A r \in DOMAIN releases : IsOut(r) =>
          /\ releases'[r] = releases[r]
          /\ releases[r].tag \in DOMAIN tags' /\ tags'[releases[r].tag] = tags[releases[r].tag]]_release

\* github_release.py:574-575 says of a head that carries its record: "the candidate exists".
\* TLC refutes it: a second run for the same identity, which was dispatched before the
\* record was pushed, takes the draft as its own and replaces the assets the record names.
StagedRecordStands ==
    \A l \in Lines :
        LET rec == heads[pr[l].head].rec IN
        /\ pr[l].open /\ rec # Nil /\ IsSuccessor(pr[l].head, rec)
        /\ rec.id.base = pr[l].base /\ rec.id.pr = pr[l].number
        /\ cand[l].at = "none"
        => releases[rec.draft].assets = rec.assets
=============================================================================
