------------------------------ MODULE Workspace ------------------------------
(***************************************************************************)
(* The workspace page of a student                                         *)
(* (frontend/features/workspace/persisted-workspace.tsx): the editor, the  *)
(* autosave and its local mirror, runs and submissions and the polling of  *)
(* their jobs, against the server actions it calls.                        *)
(*                                                                         *)
(* An action is a handler of the page with the effects its render runs, or *)
(* one call at the server.  Calls are sent one at a time in the order they *)
(* were made (Next.js); one under way when the page is closed is over when *)
(* the page is opened again.                                               *)
(*                                                                         *)
(* A version is a source with its language.  Left out: results and hints,  *)
(* panels, the poll delays, deadlines; and who else uses the session: it   *)
(* is the student's only page.                                             *)
(*                                                                         *)
(* A run locks the buttons, but not the dialog that is open already nor    *)
(* "Try again" under a failed submission: a submission may be started      *)
(* while a run is under way (persisted-workspace.tsx 305, 640, 672).       *)
(***************************************************************************)
EXTENDS Naturals, SequencesExt

CONSTANTS
  Source, Language,
  Starter,       \* the starter code of a language
  Blank,         \* the sources without a visible character
  Null,
  PollFailures,  \* failed status requests after which the page gives up: 3 in the code
  MaxEdits,      \* bound: changes of the source or the language
  MaxCalls,      \* bound: calls waiting when another is made
  MaxFaults      \* bound: failed or lost calls, closed pages, lost connections, full storage

ASSUME WorkspaceAssumption ==
  /\ Starter \in [Language -> Source] /\ Blank \subseteq Source
  /\ PollFailures \in Nat \ {0}
  /\ MaxEdits \in Nat /\ MaxCalls \in Nat /\ MaxFaults \in Nat
  /\ Null \notin [version : [source : Source, language : Language], number : Nat]
  /\ Null \notin [source : Source, synced : BOOLEAN]

VARIABLES
  \* the page
  editor,      \* source and language
  persisted,   \* lastPersisted
  saveState,
  timer,       \* the autosave that waits, with its number
  latest,      \* latestSave
  template,    \* templateSwitchAllowed
  busy,        \* running, submitting: those of "run" and "submit" that are set
  dialog,      \* of a submission: "no", "offered" by Try again, "open"
  shown,       \* the kind of executionJob while it is not settled, or "none"
  polls,       \* "idle", or "armed": a status request waits for its delay
  failures,    \* statusPollFailures
  closed,      \* a submission is shown, the editor is read-only
  online,      \* "yes", "no"
  calls,       \* calls of server actions, the first under way
  mirror,      \* the local copy of the source
  storage,     \* what keeps it "works", or is "full"
  \* the server
  draft,       \* the stored version
  session,     \* "ACTIVE", "SUBMITTED"
  revised,     \* the revision of the draft is not 0
  jobs,        \* the status of the last job of a kind; QUEUED stands for RUNNING as well
  own,         \* the last submission's job has the idempotency key of this page
  dispatch,    \* execution is "queued" or "inline"
  \* history
  edits, faults,
  mishaps      \* what happened that some promise does not cover

saving == <<persisted, saveState, timer, latest, template>>
working == <<busy, dialog, shown, polls, failures, closed>>
local == <<mirror, storage>>
server == <<draft, session, revised, jobs, own, dispatch>>
history == <<edits, faults, mishaps>>
vars == <<editor, saving, working, online, calls, local, server, history>>

Version == [source : Source, language : Language]
Kinds == {"auto", "key", "sync", "run", "submit", "poll"}
CallRecord == [kind : Kinds, version : Version, number : Nat, cancelled : BOOLEAN,
               answer : {"none", "stored", "ok", "failed", "QUEUED", "COMPLETED", "FAILED"}]
Statuses == {"QUEUED", "COMPLETED", "FAILED"}

\* saveLocalDraftMirror: a write that fails leaves the copy as it is.
Mirror(v, synced) == [source |-> v.source, synced |-> synced]
Copied(v, synced) == IF storage = "works" THEN Mirror(v, synced) ELSE mirror

Init ==
  /\ dispatch \in {"queued", "inline"}
  /\ \E l \in Language : draft = [source |-> Starter[l], language |-> l]
  /\ session = "ACTIVE" /\ revised = FALSE
  /\ jobs = [kind \in {"run", "submit"} |-> "none"] /\ own = FALSE
  /\ editor = draft /\ persisted = draft
  /\ saveState = "saved" /\ timer = Null /\ latest = 0 /\ template = TRUE
  /\ busy = {} /\ dialog = "no" /\ shown = "none" /\ polls = "idle" /\ failures = 0 /\ closed = FALSE
  /\ online = "yes"
  /\ calls = <<>>
  /\ mirror = Null /\ storage = "works"
  /\ edits = 0 /\ faults = 0 /\ mishaps = {}

\* A server action is called with version v.
Call(kind, v, n) ==
  [kind |-> kind, version |-> v, number |-> n, cancelled |-> FALSE, answer |-> "none"]
Calls(kind, v, n) ==
  /\ Len(calls) <= MaxCalls
  /\ calls' = Append(calls, Call(kind, v, n))

\* The cleanup of the polling effect: whoever waits for a status does not any more.
Cancelled(cs) == [i \in DOMAIN cs |-> [cs[i] EXCEPT !.cancelled = (cs[i].kind = "poll")]]

-----------------------------------------------------------------------------
(* The editor.  A definition with a suffix is a mistake the code could have *)
(* made in place of the one it precedes.                                    *)

\* draftVersionChanged
Changed_Source(v, w) == v.source # w.source
Changed(v, w) == v.source # w.source \/ v.language # w.language

\* The autosave of a version, with the next number.
Numbered(v) == [version |-> v, number |-> latest + 1]

\* The effects of a render with another version: the autosave that waited is
\* dropped, another one waits unless the version is the persisted one; the poll
\* under way is cancelled and another one waits.
Rendered(v) ==
  /\ editor' = v
  /\ edits' = edits + 1
  /\ IF Changed(persisted, v)
     THEN /\ latest' = latest + 1
          /\ saveState' = "saving"
          /\ timer' = Numbered(v)
          /\ UNCHANGED mishaps
     ELSE /\ timer' = Null
          /\ mishaps' =
               IF v = persisted /\ (v # draft \/ \E i \in DOMAIN calls : calls[i].kind # "poll")
               THEN mishaps \cup {"undo"} ELSE mishaps
          /\ UNCHANGED <<latest, saveState>>
  /\ calls' = Cancelled(calls)
  /\ polls' = IF shown # "none" THEN "armed" ELSE "idle"
  /\ UNCHANGED <<persisted, template, busy, dialog, shown, failures, closed, online, storage, server, faults>>

\* Every keystroke is mirrored.
Edit(s) ==
  LET v == [editor EXCEPT !.source = s] IN
  /\ ~closed /\ edits < MaxEdits /\ v # editor
  /\ mirror' = Copied(v, FALSE)
  /\ Rendered(v)

\* sourceAfterLanguageChange: a starter code nobody touched is replaced.
ChangeLanguage(l) ==
  LET replaced == template /\ editor.source = Starter[editor.language]
      v == [source |-> IF replaced THEN Starter[l] ELSE editor.source, language |-> l]
  IN
  /\ ~closed /\ edits < MaxEdits /\ l # editor.language
  /\ UNCHANGED mirror
  /\ Rendered(v)

\* The autosave has waited long enough.
TimerFires ==
  /\ timer # Null
  /\ Calls("auto", timer.version, timer.number)
  /\ timer' = Null
  /\ UNCHANGED <<editor, persisted, saveState, latest, template, working, online, local, server, history>>

\* Ctrl+S
SaveKey ==
  /\ Changed(persisted, editor)
  /\ Calls("key", editor, 0)
  /\ saveState' = "saving"
  /\ UNCHANGED <<editor, persisted, timer, latest, template, working, online, local, server, history>>

\* The connection is lost, and comes back: an unsaved version is saved at once.
GoesOffline ==
  /\ online = "yes" /\ faults < MaxFaults
  /\ online' = "no" /\ faults' = faults + 1
  /\ UNCHANGED <<editor, saving, working, calls, local, server, edits, mishaps>>

GoesOnline ==
  /\ online = "no"
  /\ online' = "yes"
  /\ IF Changed(persisted, editor)
     THEN /\ Calls("sync", editor, 0)
          /\ saveState' = "saving"
          /\ mishaps' = mishaps \cup {"sync"}
     ELSE UNCHANGED <<calls, saveState, mishaps>>
  /\ UNCHANGED <<editor, persisted, timer, latest, template, working, local, server, edits, faults>>

\* Whatever fills the storage of the browser.
StorageFills ==
  /\ storage = "works" /\ faults < MaxFaults
  /\ storage' = "full" /\ faults' = faults + 1
  /\ UNCHANGED <<editor, saving, working, online, calls, mirror, server, edits, mishaps>>

\* The dialog of a submission opens, from its button or from "Try again".
Asks ==
  /\ (busy = {} /\ ~closed /\ dialog # "open") \/ dialog = "offered"
  /\ dialog' = "open"
  /\ UNCHANGED <<editor, saving, busy, shown, polls, failures, closed, online, calls, local, server, history>>

\* runCode, from its button or key, and submitCode, from the dialog, which does not
\* ask what is under way.  They drop the job shown, and with it the poll under way.
MayStart(kind) == IF kind = "run" THEN busy = {} /\ ~closed ELSE dialog = "open"

Starts(kind) ==
  /\ MayStart(kind) /\ editor.source \notin Blank
  /\ Len(calls) <= MaxCalls
  /\ calls' = Append(Cancelled(calls), Call(kind, editor, 0))
  /\ busy' = busy \cup {kind}
  /\ dialog' = IF kind = "submit" THEN "no" ELSE dialog
  /\ shown' = "none" /\ polls' = "idle"
  /\ mishaps' = IF busy = {} THEN mishaps \ {"dropped", "settled"}
                ELSE IF shown # "none" THEN mishaps \cup {"dropped"} ELSE mishaps
  /\ UNCHANGED <<editor, saving, failures, closed, online, local, server, edits, faults>>

\* A blank source is not submitted.
SubmitsNothing ==
  /\ MayStart("submit") /\ editor.source \in Blank
  /\ dialog' = "offered"
  /\ UNCHANGED <<editor, saving, busy, shown, polls, failures, closed, online, calls, local, server, history>>

\* The next status request, after its delay.
Polls ==
  /\ polls = "armed"
  /\ Calls("poll", editor, 0)
  /\ polls' = "idle"
  /\ UNCHANGED <<editor, saving, busy, dialog, shown, failures, closed, online, local, server, history>>

-----------------------------------------------------------------------------
(* The server: the effect of a call and what it answers.  A closed session   *)
(* takes nothing but a submission repeated under its key.                   *)

Stored(v) ==
  IF draft = v THEN UNCHANGED <<draft, revised>> ELSE draft' = v /\ revised' = TRUE

Active == \E kind \in DOMAIN jobs : jobs[kind] = "QUEUED"

\* enqueueStudentExecution: a submission whose key has a job gets that job, put back
\* if it failed; the index lets a session have one active job.
Repeats(kind) == kind = "submit" /\ own
Accepts(kind) ==
  IF Repeats(kind) THEN jobs["submit"] = "FAILED" => ~Active
  ELSE session = "ACTIVE" /\ ~Active

Queued(kind, v) ==
  /\ Accepts(kind)
  /\ IF Repeats(kind)
     THEN /\ jobs' = IF jobs["submit"] = "FAILED" THEN [jobs EXCEPT !["submit"] = "QUEUED"] ELSE jobs
          /\ UNCHANGED <<draft, revised, own>>
     ELSE /\ jobs' = [jobs EXCEPT ![kind] = "QUEUED"]
          /\ own' = (own \/ kind = "submit")
          /\ Stored(v)

\* The status of a poll that was cancelled is not looked at.
Effect(c, answer) ==
  /\ \/ /\ c.kind = "poll" /\ answer = IF c.cancelled THEN "QUEUED" ELSE jobs[shown]
        /\ UNCHANGED <<draft, revised, session, jobs, own>>
     \/ /\ c.kind \in {"auto", "key", "sync"} /\ session = "ACTIVE" /\ answer = "ok"
        /\ Stored(c.version)
        /\ UNCHANGED <<session, jobs, own>>
     \/ /\ c.kind \in {"run", "submit"} /\ dispatch = "queued" /\ answer = "stored"
        /\ Queued(c.kind, c.version)
        /\ UNCHANGED session
     \/ /\ c.kind \in {"run", "submit"} /\ session = "ACTIVE" /\ dispatch = "inline"
        /\ answer = "ok"
        /\ Stored(c.version)
        /\ session' = IF c.kind = "submit" THEN "SUBMITTED" ELSE session
        /\ UNCHANGED <<jobs, own>>
  /\ UNCHANGED dispatch

\* A job's status is read after the job was stored.
Handles ==
  /\ calls # <<>> /\ online = "yes"
  /\ \E answer \in Statuses \cup {"ok", "stored"} :
       /\ \/ Head(calls).answer = "none" /\ Effect(Head(calls), answer)
          \/ Head(calls).answer = "stored" /\ answer = jobs[Head(calls).kind] /\ UNCHANGED server
       /\ calls' = [calls EXCEPT ![1].answer = answer]
  /\ UNCHANGED <<editor, saving, working, online, local, history>>

\* A call is refused: by a closed session, or by a job that is not done yet; or it
\* fails, without effect or after its job was stored.
Refused(c) ==
  IF c.kind \in {"run", "submit"} /\ dispatch = "queued" THEN ~Accepts(c.kind)
  ELSE session = "SUBMITTED" /\ c.kind # "poll"

Refuses ==
  /\ calls # <<>> /\ online = "yes"
  /\ \/ Head(calls).answer = "none" /\ Refused(Head(calls)) /\ UNCHANGED faults
     \/ /\ Head(calls).answer \in {"none", "stored"}
        /\ faults < MaxFaults /\ faults' = faults + 1
  /\ calls' = [calls EXCEPT ![1].answer = "failed"]
  /\ mishaps' = mishaps \cup {"failed"}
  /\ UNCHANGED <<editor, saving, working, online, local, server, edits>>

\* A call, or its answer, is lost: its handler does not go on.
IsLost ==
  /\ calls # <<>> /\ Head(calls).answer \in {"none", "stored"}
  /\ \/ online = "no" /\ UNCHANGED <<server, faults>>
     \/ /\ faults < MaxFaults /\ faults' = faults + 1
        /\ \/ UNCHANGED server
           \/ Head(calls).answer = "none" /\ \E answer \in {"ok", "stored"} : Effect(Head(calls), answer)
  /\ calls' = Tail(calls)
  /\ mishaps' = mishaps \cup {"lost"}
  /\ UNCHANGED <<editor, saving, working, online, local, edits>>

\* The worker settles a job.
JobSettles(kind, status) ==
  /\ jobs[kind] = "QUEUED"
  /\ jobs' = [jobs EXCEPT ![kind] = status]
  /\ session' = IF kind = "submit" /\ status = "COMPLETED" THEN "SUBMITTED" ELSE session
  /\ UNCHANGED <<editor, saving, working, online, calls, local, draft, revised, own, dispatch, history>>

-----------------------------------------------------------------------------
(* The answers.                                                             *)

\* The page takes version v for the stored one.
TakenAsSaved(v) ==
  /\ persisted' = v
  /\ saveState' = "saved"

\* An autosave answers; an older one than the latest is ignored.
IsLatest_Any(c) == c.number <= latest
IsLatest(c) == c.number = latest

AutosaveAnswered(c) ==
  /\ c.kind = "auto"
  /\ IF ~IsLatest(c)
     THEN UNCHANGED <<persisted, saveState, template, mirror>>
     ELSE /\ mirror' = Copied(c.version, c.answer = "ok")
          /\ IF c.answer = "ok"
             THEN TakenAsSaved(c.version) /\ template' = FALSE
             ELSE saveState' = "failed" /\ UNCHANGED <<persisted, template>>
  /\ calls' = Tail(calls) /\ UNCHANGED <<working, mishaps>>

\* Ctrl+S, and the save after a lost connection.
SaveAnswered(c) ==
  /\ c.kind \in {"key", "sync"}
  /\ IF c.answer = "ok" THEN TakenAsSaved(c.version)
     ELSE saveState' = (IF c.kind = "key" THEN "failed" ELSE saveState) /\ UNCHANGED persisted
  /\ mirror' = IF c.kind = "sync" /\ c.answer = "ok" THEN Copied(c.version, TRUE) ELSE mirror
  /\ calls' = Tail(calls) /\ UNCHANGED <<template, working, mishaps>>

\* "Try again" is offered with what went wrong with a submission.
Offered(failed) == dialog' = IF dialog = "open" THEN dialog ELSE IF failed THEN "offered" ELSE "no"

\* A run or a submission: its job is shown and waited for; or it is done, or failed.
\* (A job that is settled already is shown as well, and nobody waits for it.)
Unsettled(kind, status) == IF status = "QUEUED" THEN kind ELSE "none"
Rearmed_Never(job) == "idle"
Rearmed(job) == IF job # "none" THEN "armed" ELSE "idle"

JobAnswered(c) ==
  /\ c.answer \in Statuses
  /\ shown' = Unsettled(c.kind, c.answer) /\ polls' = Rearmed(shown')
  /\ mishaps' = IF c.answer = "QUEUED" THEN mishaps ELSE mishaps \cup {"settled"}
  /\ calls' = Cancelled(Tail(calls))
  /\ IF c.kind = "submit"
     THEN TakenAsSaved(c.version) /\ template' = FALSE
     ELSE UNCHANGED <<persisted, saveState, template>>
  /\ UNCHANGED <<busy, dialog, failures, closed, mirror>>

DoneAnswered(c) ==
  /\ c.answer \in {"ok", "failed"}
  /\ calls' = Tail(calls)
  /\ busy' = busy \ {c.kind}
  /\ IF c.kind = "submit" /\ c.answer = "failed" THEN Offered(TRUE) ELSE UNCHANGED dialog
  /\ IF c.answer = "ok" THEN TakenAsSaved(c.version) /\ template' = FALSE
     ELSE UNCHANGED <<persisted, saveState, template>>
  /\ closed' = (closed \/ (c.kind = "submit" /\ c.answer = "ok"))
  /\ mirror' = IF c.kind = "submit" /\ c.answer = "ok" THEN Null ELSE mirror
  /\ UNCHANGED <<shown, polls, failures, mishaps>>

StartAnswered(c) ==
  /\ c.kind \in {"run", "submit"}
  /\ JobAnswered(c) \/ DoneAnswered(c)

\* A status that nobody waits for any more is ignored.  After PollFailures the
\* page gives up; a settled job ends the waiting, and what the editor holds now
\* is taken for what was saved.

\* A completed submission closes the editor.
Closes(status) == status = "COMPLETED" /\ shown = "submit"

PollFailed ==
  /\ failures' = failures + 1
  /\ IF failures' < PollFailures
     THEN polls' = Rearmed(shown) /\ UNCHANGED <<busy, dialog>>
     ELSE busy' = {} /\ Offered(shown = "submit") /\ UNCHANGED polls
  /\ UNCHANGED <<persisted, saveState, template, shown, closed, mirror>>

PollTold(status) ==
  /\ failures' = 0
  /\ shown' = Unsettled(shown, status) /\ polls' = Rearmed(shown')
  /\ busy' = IF status = "QUEUED" THEN busy ELSE {}
  /\ IF status = "FAILED" /\ shown = "submit" THEN Offered(TRUE) ELSE UNCHANGED dialog
  /\ IF status = "COMPLETED"
     THEN TakenAsSaved(editor) /\ template' = FALSE
     ELSE UNCHANGED <<persisted, saveState, template>>
  /\ closed' = (closed \/ Closes(status))
  /\ mirror' = IF Closes(status) THEN Null ELSE mirror

PollAnswered(c) ==
  /\ c.kind = "poll"
  /\ calls' = Tail(calls) /\ UNCHANGED mishaps
  /\ IF c.cancelled THEN UNCHANGED <<persisted, saveState, template, mirror, working>>
     ELSE IF c.answer = "failed" THEN PollFailed ELSE PollTold(c.answer)

Answered ==
  LET c == Head(calls) IN
  /\ calls # <<>> /\ c.answer \notin {"none", "stored"} /\ online = "yes"
  /\ AutosaveAnswered(c) \/ SaveAnswered(c) \/ StartAnswered(c) \/ PollAnswered(c)
  /\ UNCHANGED <<editor, timer, latest, online, storage, server, edits, faults>>

\* The page is closed and opened again: reconcileDraftVersions restores a local
\* copy that was not saved, in the stored language, unless it is blank.
Restores ==
  mirror # Null /\ ~mirror.synced /\ mirror.source # draft.source /\ mirror.source \notin Blank

Reopens ==
  /\ session = "ACTIVE" /\ online = "yes" /\ faults < MaxFaults
  /\ faults' = faults + 1
  /\ calls' = <<>>
  /\ persisted' = draft /\ template' = ~revised /\ own' = FALSE
  /\ latest' = (IF Restores THEN 1 ELSE 0)
  /\ IF Restores
     THEN LET v == [draft EXCEPT !.source = mirror.source] IN
          /\ editor' = v
          /\ timer' = [version |-> v, number |-> 1] /\ saveState' = "saving"
     ELSE editor' = draft /\ timer' = Null /\ saveState' = "saved"
  /\ busy' = {kind \in DOMAIN jobs : jobs[kind] = "QUEUED"}
  /\ IF Active
     THEN polls' = "armed" /\ shown' \in busy'
     ELSE polls' = "idle" /\ shown' = "none"
  /\ dialog' = "no" /\ failures' = 0 /\ mishaps' = mishaps \ {"lost", "dropped", "settled"}
  /\ UNCHANGED <<closed, online, local, draft, session, revised, jobs, dispatch, edits>>

-----------------------------------------------------------------------------
Next ==
  \/ \E s \in Source : Edit(s)
  \/ \E l \in Language : ChangeLanguage(l)
  \/ TimerFires \/ SaveKey \/ GoesOffline \/ GoesOnline \/ StorageFills
  \/ Asks \/ SubmitsNothing
  \/ \E kind \in {"run", "submit"} : Starts(kind)
  \/ Polls
  \/ Handles \/ Refuses \/ IsLost \/ Answered
  \/ \E kind \in {"run", "submit"}, status \in {"COMPLETED", "FAILED"} : JobSettles(kind, status)
  \/ Reopens

Spec == Init /\ [][Next]_vars

-----------------------------------------------------------------------------
\* A status request whose answer is waited for.
IsAwaited(c) == c.kind = "poll" /\ ~c.cancelled

\* The variables hold what their comments say; an autosave that waits is the
\* latest one.
TypeOK ==
  /\ editor \in Version /\ persisted \in Version /\ draft \in Version
  /\ saveState \in {"saving", "saved", "failed"}
  /\ latest \in Nat
  /\ timer = Null \/ timer \in [version : Version, number : {latest}]
  /\ template \in BOOLEAN /\ closed \in BOOLEAN
  /\ busy \subseteq {"run", "submit"} /\ polls \in {"idle", "armed"}
  /\ dialog \in {"no", "offered", "open"}
  /\ shown \in {"none", "run", "submit"}
  /\ calls \in Seq(CallRecord)
  /\ mirror = Null \/ mirror \in [source : Source, synced : BOOLEAN]
  /\ storage \in {"works", "full"}
  /\ failures \in Nat /\ online \in {"yes", "no"}
  /\ session \in {"ACTIVE", "SUBMITTED"} /\ dispatch \in {"queued", "inline"}
  /\ revised \in BOOLEAN /\ own \in BOOLEAN
  /\ jobs \in [{"run", "submit"} -> Statuses \cup {"none"}]
  /\ edits \in Nat /\ faults \in Nat
  /\ mishaps \subseteq {"undo", "sync", "failed", "lost", "dropped", "settled"}

\* When nothing is under way any more, the page that shows "All changes saved"
\* shows what the server has, also after runs, submissions and jobs in between; and
\* the editor is closed only by a submission there is.
Settled == timer = Null /\ calls = <<>> /\ ~closed
SettledIsSaved ==
  /\ closed => session = "SUBMITTED"
  /\ Settled /\ saveState = "saved" /\ mishaps \cap {"undo", "failed", "lost"} = {}
       => editor = draft

\* Whatever is refused or lost, what was typed into the editor outlives the page:
\* the server has it, or the local copy that the next page restores.  Not so where
\* the copy could not be written, and a blank source is not restored.
Typed(source) == source \notin Blank /\ \A l \in Language : source # Starter[l]
SourceRecoverable ==
  session = "ACTIVE" /\ Typed(editor.source) /\ storage = "works" /\ mishaps \cap {"undo", "sync"} = {}
    => IF Restores THEN mirror.source = editor.source ELSE draft.source = editor.source

\* The buttons are not locked for nothing: while the page is busy with a run or a
\* submission, its call is under way, or the status of the job shown is asked for
\* and waited for.  Two cases the code leaves open are excepted: a submission that
\* took the place of a run being waited for ("dropped"), and an answer with a job
\* that is settled already, which the page shows and does not act on ("settled").
NeverStuck ==
  mishaps \cap {"lost", "dropped", "settled"} = {} =>
    \A kind \in busy :
      \/ polls = "armed"
      \/ \E i \in DOMAIN calls : calls[i].kind = kind \/ IsAwaited(calls[i])

\* "actual edits show Saving, Saved, or Save failed"
\* (documentation/03-USER-FLOWS.md:30): without failures, a page that has nothing
\* under way and shows "All changes saved" shows what was saved.
ShownAsSaved ==
  Settled /\ saveState = "saved" /\ mishaps \subseteq {"undo", "sync", "dropped", "settled"} => editor = draft
=============================================================================
