---------------------------- MODULE AppcastFeed ----------------------------
(***************************************************************************)
(* The Sparkle update feed, from a release build to GitHub Pages.          *)
(*                                                                         *)
(* A release build makes a DMG and an appcast in dist/ and checks them     *)
(* (scripts/verify-appcast-artifact.py).  The maintainer attaches them to  *)
(* a GitHub Release one by one and publishes it.  A push to main, a        *)
(* published release and a manual dispatch each start the Pages workflow:  *)
(* it lists the releases, selects one (scripts/select-pages-appcast.py),   *)
(* fetches its appcast, checksum and DMG, verifies them                    *)
(* (scripts/verify-pages-appcast.py) and deploys, while releases are       *)
(* edited under it.                                                        *)
(***************************************************************************)
EXTENDS Integers, FiniteSets, FiniteSetsExt

CONSTANTS
  Versions,     \* release versions, ordered as _version_key orders their tags
  MaxBuilds,    \* bound: release builds
  MaxEdits,     \* bound: edits of releases, once built
  MaxJobs       \* bound: workflow events

VARIABLES
  dist,         \* per version, the build of the DMG in dist/, NoBuild for none
  ready,        \* per version, the build whose appcast passed verification
  builds,       \* builds made
  releases,     \* per version, the release of its tag: state and assets
  edits,        \* edits made
  pending,      \* the workflow run waiting in the concurrency group
  job,          \* the workflow run in progress
  jobs,         \* workflow events so far
  feed          \* what Pages serves

releaseVars == <<dist, ready, builds, releases, edits>>
feedVars == <<releaseVars, pending, job, jobs, feed>>

NoBuild == 0
NoVersion == 0
Assets == {"appcast", "checksum", "dmg"}

NoRun == [step |-> "none", event |-> "push", tag |-> NoVersion, tree |-> {},
          chosen |-> NoVersion, appcast |-> NoBuild, checksum |-> NoBuild, dmg |-> NoBuild]
NoFeed == [chosen |-> NoVersion, appcast |-> NoBuild, dmg |-> NoBuild,
           event |-> "push", tag |-> NoVersion, tree |-> {}]

FeedInit ==
  /\ dist = [v \in Versions |-> NoBuild]
  /\ ready = [v \in Versions |-> NoBuild]
  /\ builds = 0
  /\ releases = [v \in Versions |-> [state |-> "absent", appcast |-> NoBuild,
                                     checksum |-> NoBuild, dmg |-> NoBuild]]
  /\ edits = 0 /\ jobs = 0
  /\ pending = NoRun /\ job = NoRun
  /\ feed = NoFeed
-----------------------------------------------------------------------------
(* The release machine *)

\* generate_appcast makes an item of every DMG in dist/, under the download
\* prefix of the version being released; an item is signed for its DMG.
GeneratedAppcast(v, dmgs) ==
  {[prefix |-> v, version |-> w, signs |-> dmgs[w]] : w \in {w \in Versions : dmgs[w] # NoBuild}}

\* verify_appcast_artifact: exactly one enclosure, at the URL of the tag's DMG,
\* for the version, with a signature over the local DMG.
ArtifactVerifies(appcast, v, dmg) ==
  /\ Cardinality(appcast) = 1
  /\ \A item \in appcast : item.prefix = v /\ item.version = v /\ item.signs = dmg

\* release-mac.sh: the DMG is replaced, and stays when the check fails.
Build(v) ==
  /\ builds < MaxBuilds
  /\ builds' = builds + 1
  /\ dist' = [dist EXCEPT ![v] = builds + 1]
  /\ ready' = [ready EXCEPT ![v] =
       IF ArtifactVerifies(GeneratedAppcast(v, dist'), v, dist'[v]) THEN builds + 1 ELSE NoBuild]
  /\ UNCHANGED <<releases, edits, pending, job, jobs, feed>>

CleanDist ==
  /\ \E v \in Versions : dist[v] # NoBuild
  /\ dist' = [v \in Versions |-> NoBuild]
  /\ UNCHANGED <<ready, builds, releases, edits, pending, job, jobs, feed>>

(* The maintainer and GitHub Releases *)

Edit == edits < MaxEdits /\ edits' = edits + 1

Attach(v, asset) ==
  /\ ready[v] # NoBuild /\ releases[v][asset] # ready[v]
  /\ Edit
  /\ releases' = [releases EXCEPT ![v].state = IF @ = "absent" THEN "draft" ELSE @,
                                  ![v][asset] = ready[v]]
  /\ UNCHANGED <<dist, ready, builds, pending, job, jobs, feed>>

\* Publishing starts a run; a run that was waiting gives way to the newer one.
Waiting(event, tag) == [NoRun EXCEPT !.step = "waiting", !.event = event, !.tag = tag]

Publish(v, state) ==
  /\ jobs < MaxJobs
  /\ releases[v].state = "draft"
  /\ releases' = [releases EXCEPT ![v].state = state]
  /\ pending' = Waiting("release", v)
  /\ jobs' = jobs + 1
  /\ UNCHANGED <<dist, ready, builds, edits, job, feed>>

\* A published release is turned back into a draft or into a prerelease.
Withdraw(v, state) ==
  /\ releases[v].state = "published"
  /\ Edit
  /\ releases' = [releases EXCEPT ![v].state = state]
  /\ UNCHANGED <<dist, ready, builds, pending, job, jobs, feed>>

\* A push to main; a release of another product's tag; a dispatch with a tag.
OtherEvent(event, tag) ==
  /\ jobs < MaxJobs
  /\ pending' = Waiting(event, tag)
  /\ jobs' = jobs + 1
  /\ UNCHANGED <<releaseVars, job, feed>>
-----------------------------------------------------------------------------
(* The Pages workflow *)

\* Mutant: prereleases are not filtered.
PublishedWithPrereleases ==
  {v \in Versions : releases[v].state \in {"published", "prerelease"}}

\* _published_namespaced
PublishedNamespaced == {v \in Versions : releases[v].state = "published"}

\* _appcast_selection: the release must have an appcast and its checksum.
HasAppcast(v) == releases[v].appcast # NoBuild /\ releases[v].checksum # NoBuild

\* select_appcast: the exact tag of a dispatch or of a release event, the
\* highest published version otherwise, nothing when nothing is published.
Selections(event, tag) ==
  CASE event = "workflow_dispatch" -> {tag} \cap PublishedNamespaced
    [] event = "release" /\ tag # NoVersion -> {tag} \cap PublishedNamespaced
    [] OTHER -> IF PublishedNamespaced = {} THEN {NoVersion} ELSE {Max(PublishedNamespaced)}

Run(step) == job' = [job EXCEPT !.step = step]

StartJob ==
  /\ job.step = "none" /\ pending.step = "waiting"
  /\ job' = [pending EXCEPT !.step = "list"]
  /\ pending' = NoRun
  /\ UNCHANGED <<releaseVars, jobs, feed>>

SelectAppcast ==
  /\ job.step = "list"
  /\ \E v \in Selections(job.event, job.tag) :
       /\ v # NoVersion => HasAppcast(v)
       /\ job' = [job EXCEPT !.step = IF v = NoVersion THEN "deploy" ELSE "appcast",
                             !.chosen = v,
                             !.tree = {w \in Versions : releases[w].state = "published"}]
  /\ UNCHANGED <<releaseVars, pending, jobs, feed>>

\* curl of the appcast, its checksum and the DMG, in this order.
Fetch(asset) ==
  /\ job.step = asset
  /\ releases[job.chosen][asset] # NoBuild
  /\ job' = [job EXCEPT ![asset] = releases[job.chosen][asset],
                        !.step = CASE asset = "appcast" -> "checksum"
                                   [] asset = "checksum" -> "dmg"
                                   [] asset = "dmg" -> "verify"]
  /\ UNCHANGED <<releaseVars, pending, jobs, feed>>

\* Mutant: the checksum is compared, the signature is not verified.
VerifyPagesChecksumOnly ==
  /\ job.step = "verify"
  /\ job.checksum = job.appcast
  /\ Run("deploy")
  /\ UNCHANGED <<releaseVars, pending, jobs, feed>>

\* verify_appcast: the digest of the appcast, one enclosure for the tag (every
\* appcast that left the release machine has it), and its signature over the DMG.
VerifyPages ==
  /\ job.step = "verify"
  /\ job.checksum = job.appcast
  /\ job.dmg = job.appcast
  /\ Run("deploy")
  /\ UNCHANGED <<releaseVars, pending, jobs, feed>>

\* The site is replaced as a whole: without an appcast the feed disappears.
Deploy ==
  /\ job.step = "deploy"
  /\ feed' = [chosen |-> job.chosen, appcast |-> job.appcast, dmg |-> job.dmg,
              event |-> job.event, tag |-> job.tag, tree |-> job.tree]
  /\ job' = NoRun
  /\ UNCHANGED <<releaseVars, pending, jobs>>

\* A step failed, timed out or was cancelled: the feed is left alone.
JobFails ==
  /\ job.step # "none"
  /\ job' = NoRun
  /\ UNCHANGED <<releaseVars, pending, jobs, feed>>

FeedNext ==
  \/ \E v \in Versions : \/ Build(v)
                         \/ \E asset \in Assets : Attach(v, asset)
                         \/ \E state \in {"published", "prerelease"} : Publish(v, state)
                         \/ \E state \in {"draft", "prerelease"} : Withdraw(v, state)
                         \/ OtherEvent("workflow_dispatch", v)
  \/ CleanDist
  \/ \E event \in {"push", "release"} : OtherEvent(event, NoVersion)
  \/ StartJob \/ SelectAppcast
  \/ \E asset \in Assets : Fetch(asset)
  \/ VerifyPages \/ Deploy \/ JobFails

FeedSpec == FeedInit /\ [][FeedNext]_feedVars
-----------------------------------------------------------------------------
(* Properties *)

\* The appcast Pages serves came whole from one build: it signs the very DMG the
\* release had when the deployment fetched it, however the assets were rebuilt
\* and replaced one by one in between (verify_appcast, verify_appcast_artifact).
FeedSignsItsDmg ==
  feed.chosen # NoVersion => feed.appcast = feed.dmg /\ feed.appcast # NoBuild

\* A feed is for a release that was published, and neither a draft nor a
\* prerelease, when the deployment listed the releases: the one the event
\* named, or else the highest there was.  The feed is taken down only when
\* nothing was published at all (select_appcast).
FeedIsTheReleaseToServe ==
  feed # NoFeed =>
    IF feed.event = "workflow_dispatch" \/ (feed.event = "release" /\ feed.tag # NoVersion)
    THEN feed.chosen = feed.tag /\ feed.tag \in feed.tree
    ELSE IF feed.tree = {} THEN feed.chosen = NoVersion ELSE feed.chosen = Max(feed.tree)
=============================================================================
