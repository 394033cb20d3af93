---------------------------- MODULE CampaignIntake ----------------------------
(***************************************************************************)
(* The owner hands a campaign in (use-campaign-intake.ts): the request is    *)
(* created, then each photograph gets a token from a route, goes from the    *)
(* browser to the blob store, and is registered by another route.  Nothing   *)
(* spans these steps: any of them may fail, and a reload ends the loop.      *)
(*                                                                         *)
(* `submit` is an async function over the brief and the photographs of its   *)
(* render.  Its last step, reading the list again, comes after the button    *)
(* is enabled: a second submission may begin before the first has ended, and *)
(* the first may still fail.                                               *)
(***************************************************************************)
EXTENDS Integers, Sequences, SequencesExt

CONSTANTS
  Texts, Nothing,
  Photos, Refused,   \* photographs; those of a type or size not allowed
  MaxPhotos,         \* mediaStoreMaxFilesPerRequest
  Selections,        \* bound: the photographs an owner may choose
  MaxSubmissions,    \* bound: submissions that pass the form's checks
  Limits             \* bound: how many, what is chosen for them, and whether
                     \* reports are asked for

IntakeAssumption ==
  /\ Nothing \notin Texts /\ Refused \subseteq Photos
  /\ MaxPhotos \in Nat \ {0} /\ Selections \subseteq Seq(Photos)
  /\ MaxSubmissions \in Nat
  /\ Limits \subseteq
       [submissions : 0 .. MaxSubmissions, chosen : SUBSET Selections, reports : BOOLEAN]

Subs == 1 .. MaxSubmissions

VARIABLES
  brief, selected, intake,  \* the screen: the form and what is said below it
  sub,                      \* the submissions: the async functions at work
  created, assets,          \* campaign_requests, campaign_assets
  blobs, aged,              \* the blob store, and what a day has passed for
  sweep,                    \* an operator's report of orphaned uploads
  told, left,               \* history: the submissions whose failure was
                            \* shown, and those that a reload ended
  limit                     \* bound: what may happen

screen == <<brief, selected, intake>>
tables == <<created, assets>>
media == <<blobs, aged>>
memory == <<told, left, limit>>
intakeVars == <<screen, sub, tables, media, sweep, memory>>

Busy == {"submitting", "uploading"}
Stages == {"create", "token", "put", "register", "refresh"}
NoSub == [at |-> "none", answer |-> "none", brief |-> Nothing, photos |-> <<>>,
          next |-> 1, gone |-> FALSE]
NoSweep == [known |-> FALSE, registered |-> {}, listed |-> FALSE, found |-> {},
            before |-> {}, report |-> {}]

Active(i) == sub[i].at \in Stages /\ ~sub[i].gone
Began == {i \in Subs : sub[i].at # "none"}

Init ==
  /\ brief = Nothing /\ selected = <<>> /\ intake = [kind |-> "idle", by |-> 0]
  /\ sub = [i \in Subs |-> NoSub]
  /\ created = [i \in Subs |-> Nothing] /\ assets = [i \in Subs |-> <<>>]
  /\ blobs = {} /\ aged = {} /\ sweep = NoSweep /\ told = {} /\ left = {}
  /\ limit \in Limits
-------------------------------------------------------------------------------
(* The form.  Only its button waits for a submission.                       *)

SetBrief == \E t \in Texts \cup {Nothing} :
  /\ brief' = t
  /\ UNCHANGED <<selected, intake, sub, tables, media, sweep, memory>>

HandleFiles == \E s \in limit.chosen \cup {<<>>} :
  /\ selected' = s
  /\ UNCHANGED <<brief, intake, sub, tables, media, sweep, memory>>

(* validateSelectedFiles, and a brief that is not blank.                    *)
Valid ==
  /\ brief # Nothing
  /\ Len(selected) \in 1 .. MaxPhotos /\ Range(selected) \cap Refused = {}

\* Plausible bug: the button waits for the request, not for its photographs.
EnabledWhileUploading == intake.kind # "submitting"
Enabled == intake.kind \notin Busy

Say(i, kind) == intake' = [kind |-> kind, by |-> i]

Refuse ==
  /\ Enabled /\ ~Valid
  /\ Say(0, "error")
  /\ UNCHANGED <<brief, selected, sub, tables, media, sweep, memory>>

Submit == \E i \in (1 .. limit.submissions) \ Began :
  /\ Enabled /\ Valid
  /\ \A j \in Subs \ Began : i <= j
  /\ sub' = [sub EXCEPT ![i] =
               [NoSub EXCEPT !.at = "create", !.brief = brief, !.photos = selected]]
  /\ Say(i, "submitting")
  /\ UNCHANGED <<brief, selected, tables, media, sweep, memory>>
-------------------------------------------------------------------------------
(* The loop: each step takes an answer and sends the next request.           *)

\* Plausible bug: whatever is answered is taken for an asset.
AnyAnswer(i) == sub[i].answer \in {"ok", "refused"}
IsExpected(i) == sub[i].answer = "ok"

Got(i, at) == Active(i) /\ sub[i].at = at /\ IsExpected(i)
GoTo(i, at) == sub' = [sub EXCEPT ![i].at = at, ![i].answer = "none"]
More(i) == sub[i].next < Len(sub[i].photos)

RequestIsCreated(i) ==
  /\ Got(i, "create")
  /\ GoTo(i, "token") /\ Say(i, "uploading")
  /\ UNCHANGED <<brief, selected, tables, media, sweep, memory>>

MayUpload(i) ==
  /\ Got(i, "token") /\ GoTo(i, "put")
  /\ UNCHANGED <<screen, tables, media, sweep, memory>>

IsUploaded(i) ==
  /\ Got(i, "put") /\ GoTo(i, "register")
  /\ UNCHANGED <<screen, tables, media, sweep, memory>>

IsRegistered(i) ==
  /\ Got(i, "register") /\ More(i)
  /\ sub' = [sub EXCEPT ![i].at = "token", ![i].answer = "none", ![i].next = @ + 1]
  /\ Say(i, "uploading")
  /\ UNCHANGED <<brief, selected, tables, media, sweep, memory>>

(* The form is emptied of whatever it holds by now.                        *)
Succeed(i) ==
  /\ Got(i, "register") /\ ~More(i)
  /\ GoTo(i, "refresh") /\ Say(i, "success")
  /\ brief' = Nothing /\ selected' = <<>>
  /\ UNCHANGED <<tables, media, sweep, memory>>

(* The list is shown: an answer that is none is shown as an empty list.      *)
RefreshRequests(i) ==
  /\ Active(i) /\ sub[i].at = "refresh" /\ sub[i].answer \in {"ok", "refused"}
  /\ GoTo(i, "done")
  /\ UNCHANGED <<screen, tables, media, sweep, memory>>

\* Plausible bug: no message in the catch.
FailQuietly(i) == GoTo(i, "failed") /\ UNCHANGED <<intake, told>>

(* Every way out but success shows an error, whatever is shown by then.      *)
Fail(i) == GoTo(i, "failed") /\ Say(i, "error") /\ told' = told \cup {i}

GiveUp(i) ==
  /\ Active(i)
  /\ \/ sub[i].answer = "thrown"
     \/ sub[i].answer = "refused" /\ sub[i].at # "refresh"
  /\ Fail(i)
  /\ UNCHANGED <<brief, selected, tables, media, sweep, left, limit>>

Reload ==
  /\ brief' = Nothing /\ selected' = <<>> /\ Say(0, "idle")
  /\ left' = left \cup {i \in Subs : Active(i)}
  /\ sub' = [i \in Subs |-> [sub[i] EXCEPT !.gone = @ \/ Active(i)]]
  /\ UNCHANGED <<tables, media, sweep, told, limit>>
-------------------------------------------------------------------------------
(* The routes and the blob store: what was sent is served though the browser  *)
(* be gone.                                                                *)

Sent(i, at) == sub[i].at = at /\ sub[i].answer = "none"
Answer(i, a) == sub' = [sub EXCEPT ![i].answer = a]

\* Plausible bug: a path made of the photograph's place alone.
SharedPath(i) == <<1, sub[i].next>>
(* A token is for one path, with a fresh id in it.                          *)
Path(i) == <<i, sub[i].next>>

CreateRequest(i) ==
  /\ Sent(i, "create") /\ Answer(i, "ok")
  /\ created' = [created EXCEPT ![i] = sub[i].brief]
  /\ UNCHANGED <<screen, assets, media, sweep, memory>>

IssueToken(i) ==
  /\ Sent(i, "token") /\ created[i] # Nothing /\ Answer(i, "ok")
  /\ UNCHANGED <<screen, tables, media, sweep, memory>>

Put(i) ==
  /\ Sent(i, "put") /\ Answer(i, "ok")
  /\ blobs' = blobs \cup {Path(i)}
  /\ UNCHANGED <<screen, tables, aged, sweep, memory>>

(* The store's own metadata decides; what it does not allow is deleted.      *)
RegisterAsset(i) ==
  /\ Sent(i, "register") /\ created[i] # Nothing /\ Path(i) \in blobs
  /\ \/ /\ Answer(i, "ok")
        /\ assets' = [assets EXCEPT ![i] = Append(@, Path(i))]
        /\ UNCHANGED media
     \/ /\ Answer(i, "refused")
        /\ blobs' = blobs \ {Path(i)} /\ aged' = aged \ {Path(i)}
        /\ UNCHANGED assets
  /\ UNCHANGED <<screen, created, sweep, memory>>

ListRequests(i) ==
  /\ Sent(i, "refresh") /\ Answer(i, "ok")
  /\ UNCHANGED <<screen, tables, media, sweep, memory>>

(* No session, too many requests, no credentials.                          *)
RouteRefuses(i) ==
  /\ \E at \in Stages \ {"put"} : Sent(i, at)
  /\ Answer(i, "refused")
  /\ UNCHANGED <<screen, tables, media, sweep, memory>>

(* The connection, the route or the store fails, before its work or after.   *)
Break(i) ==
  /\ Active(i) /\ sub[i].answer \in {"none", "ok"}
  /\ Answer(i, "thrown")
  /\ UNCHANGED <<screen, tables, media, sweep, memory>>
-------------------------------------------------------------------------------
(* The operator's report: two readings at once, in either order.             *)

InUse == UNION {Range(assets[i]) : i \in Subs}
(* Photographs between their upload and their registration.                 *)
OnTheWay ==
  {Path(i) : i \in {j \in Subs : \/ Active(j) /\ sub[j].at \in {"put", "register"}
                                 \/ Sent(j, "register")}}

(* A day passes for a blob; no registration takes that long.                *)
Age == \E b \in blobs \ (aged \cup OnTheWay) :
  /\ limit.reports
  /\ aged' = aged \cup {b}
  /\ UNCHANGED <<screen, sub, tables, blobs, sweep, memory>>

Read(s) ==
  sweep' = IF sweep.known \/ sweep.listed THEN s
           ELSE [s EXCEPT !.before = InUse, !.report = {}]
ListAllAssetBlobUrls ==
  /\ limit.reports /\ ~sweep.known
  /\ Read([sweep EXCEPT !.known = TRUE, !.registered = InUse])
  /\ UNCHANGED <<screen, sub, tables, media, memory>>
ListAssets ==
  /\ limit.reports /\ ~sweep.listed
  /\ Read([sweep EXCEPT !.listed = TRUE, !.found = {<<b, b \in aged>> : b \in blobs}])
  /\ UNCHANGED <<screen, sub, tables, media, memory>>

\* Plausible bug: no minimum age.
AnyAge(found, registered) == {f[1] : f \in found} \ registered
FindOrphanedUploads(found, registered) ==
  {f[1] : f \in {g \in found : g[2]}} \ registered

Report ==
  /\ sweep.known /\ sweep.listed
  /\ sweep' = [NoSweep EXCEPT !.before = sweep.before,
                 !.report = FindOrphanedUploads(sweep.found, sweep.registered)]
  /\ UNCHANGED <<screen, sub, tables, media, memory>>
-------------------------------------------------------------------------------
Step(i) ==
  \/ RequestIsCreated(i) \/ MayUpload(i) \/ IsUploaded(i) \/ IsRegistered(i)
  \/ Succeed(i) \/ RefreshRequests(i) \/ GiveUp(i)
Serve(i) ==
  \/ CreateRequest(i) \/ IssueToken(i) \/ Put(i) \/ RegisterAsset(i)
  \/ ListRequests(i) \/ RouteRefuses(i) \/ Break(i)
Next ==
  \/ SetBrief \/ HandleFiles \/ Refuse \/ Submit \/ Reload
  \/ \E i \in Subs : Step(i) \/ Serve(i)
  \/ Age \/ ListAllAssetBlobUrls \/ ListAssets \/ Report

Spec == Init /\ [][Next]_intakeVars
-------------------------------------------------------------------------------
(* Properties.                                                             *)

Paths == Subs \X (1 .. MaxPhotos)

(* Type invariant.                                                         *)
TypeOK ==
  /\ brief \in Texts \cup {Nothing} /\ selected \in Selections \cup {<<>>}
  /\ intake \in [kind : Busy \cup {"idle", "success", "error"}, by : 0 .. MaxSubmissions]
  /\ \A i \in Subs : sub[i].at \in Stages \cup {"none", "done", "failed"}
                     /\ sub[i].answer \in {"none", "ok", "refused", "thrown"}
  /\ created \in [Subs -> Texts \cup {Nothing}]
  /\ aged \subseteq blobs /\ blobs \subseteq Paths /\ sweep.report \subseteq Paths

(* The request is there with the brief and the photographs of the moment it  *)
(* was handed in, each once and in their order.                             *)
Owed(i) == [n \in 1 .. Len(sub[i].photos) |-> <<i, n>>]
Complete(i) == created[i] = sub[i].brief /\ assets[i] = Owed(i)

(* What is called submitted is complete, whatever was typed, chosen or       *)
(* handed in besides.                                                      *)
SuccessIsComplete ==
  \A i \in Subs : sub[i].at \in {"refresh", "done"} => Complete(i)

(* A request that lacks photographs is still being handed in, or its owner   *)
(* has seen an error or has left the page.                                  *)
NothingIsMissingUntold ==
  \A i \in Began : Complete(i) \/ Active(i) \/ i \in told \cup left

(* What is registered is in the store, and was handed in with its request.   *)
AssetsAreStored ==
  \A i \in Subs : Range(assets[i]) \subseteq blobs /\ IsPrefix(assets[i], Owed(i))

(* The button comes back, and does not come early: submissions overlap only   *)
(* after one that was complete has failed by the list alone.                 *)
Unfinished == {i \in Subs : Active(i) /\ sub[i].at # "refresh"}
ButtonComesBack ==
  /\ intake.kind \in Busy => Active(intake.by)
  /\ (\E i, j \in Unfinished : i # j) => \E k \in told : Complete(k)

(* No orphan is reported that was in use when the report was asked for, nor   *)
(* one whose registration is under way.                                     *)
SweepSparesTheLiving == sweep.report \cap (sweep.before \cup OnTheWay) = {}

IntakeIsSound ==
  /\ SuccessIsComplete /\ NothingIsMissingUntold /\ AssetsAreStored
  /\ ButtonComesBack /\ SweepSparesTheLiving
===============================================================================
