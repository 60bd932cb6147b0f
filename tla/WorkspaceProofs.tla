---------------------------- MODULE WorkspaceProofs ----------------------------
(***************************************************************************)
(* Theorems about Workspace, for any sources, languages, starter codes and *)
(* bounds: the page that has settled shows what the server has             *)
(* (SettledIsSaved), what was typed outlives the page (SourceRecoverable)  *)
(* and the page waits for nothing in no case but the two that NeverStuck   *)
(* names.                                                                  *)
(*                                                                         *)
(* Each follows from what is under way.  A version that is neither stored  *)
(* nor in a timer is carried by a call (Carried), the local copy is the    *)
(* editor's unless every call carries the editor's source (Recoverable),   *)
(* and what a page is busy with has a call or a status request nobody      *)
(* cancelled (Waiting).                                                    *)
(***************************************************************************)
EXTENDS Workspace, TLAPS

\* What stores a version, if it is done.
Stores(c) == c.kind # "poll"
Pending(c) == Stores(c) /\ c.answer = "none"
Starting == {"run", "submit"}

\* Calls carry the versions and numbers the page had when they were made.
Sent ==
  /\ timer # Null => timer.version = editor
  /\ \A i \in DOMAIN calls :
       /\ i # 1 => calls[i].answer = "none"
       /\ calls[i].kind = "auto" => calls[i].number <= latest
       /\ calls[i].kind = "sync" => "sync" \in mishaps
       /\ calls[i].kind = "auto" /\ calls[i].number = latest /\ "undo" \notin mishaps =>
            \A j \in DOMAIN calls : j >= i /\ Stores(calls[j]) => calls[j].version = editor

\* An answer tells what is still so when it arrives.
Told ==
  /\ \A i \in DOMAIN calls :
       /\ calls[i].kind = "submit" /\ calls[i].answer = "ok" => session = "SUBMITTED"
       /\ calls[i].kind = "poll" => calls[i].answer # "ok"
       /\ calls[i].answer = "stored" => calls[i].kind \in Starting
       /\ IsAwaited(calls[i]) /\ calls[i].answer = "COMPLETED" /\ shown = "submit"
            => session = "SUBMITTED"
       /\ calls[i].kind = "auto" /\ calls[i].answer = "ok" => draft = calls[i].version
  /\ jobs["submit"] = "COMPLETED" => session = "SUBMITTED"
  /\ closed => session = "SUBMITTED"

\* Whose status is asked for is shown, and it is asked for once at a time.
Shown ==
  /\ polls = "armed" => shown # "none"
  /\ \A i \in DOMAIN calls :
       IsAwaited(calls[i]) =>
         /\ shown # "none" /\ polls = "idle"
         /\ \A j \in DOMAIN calls : IsAwaited(calls[j]) => j = i

\* What the page is busy with has a call, or a status request that is waited for.
Excused == mishaps \cap {"lost", "dropped", "settled"} # {}
Waiting ==
  \/ Excused
  \/ \A kind \in busy :
       \/ polls = "armed"
       \/ \E i \in DOMAIN calls : calls[i].kind = kind \/ IsAwaited(calls[i])

\* The editor's version is stored, or a call will store it; nothing later
\* overwrites it.  (A submission repeated under its key may store nothing.)
Carries(k) ==
  /\ IF k = 0 THEN draft = editor
     ELSE Pending(calls[k]) /\ calls[k].kind # "submit" /\ calls[k].version = editor
  /\ \A j \in DOMAIN calls : j > k /\ Pending(calls[j]) => calls[j].version = editor
Carried ==
  mishaps \cap {"undo", "failed", "lost"} = {} /\ timer = Null =>
    \E k \in 0 .. Len(calls) : Carries(k)

\* The local copy is the editor's; or the server has the editor's source, and
\* every call carries it.
Recoverable ==
  session = "ACTIVE" /\ Typed(editor.source) /\ storage = "works" /\ mishaps \cap {"undo", "sync"} = {} =>
    \/ mirror # Null /\ ~mirror.synced /\ mirror.source = editor.source
    \/ /\ ~Restores /\ draft.source = editor.source
       /\ \A i \in DOMAIN calls : Stores(calls[i]) => calls[i].version.source = editor.source

Inv == TypeOK /\ Sent /\ Told /\ Shown /\ Waiting /\ Carried /\ Recoverable

-----------------------------------------------------------------------------
(* The calls under way *)

LEMMA CallsFacts ==
  ASSUME calls \in Seq(CallRecord)
  PROVE  /\ Len(calls) \in Nat /\ DOMAIN calls = 1 .. Len(calls)
         /\ \A i \in DOMAIN calls : calls[i] \in CallRecord
         /\ calls # <<>> => Len(calls) >= 1 /\ Head(calls) = calls[1]
OBVIOUS

\* One more call.
LEMMA AppendFacts ==
  ASSUME calls \in Seq(CallRecord), NEW c \in CallRecord, calls' = Append(calls, c)
  PROVE  /\ calls' \in Seq(CallRecord)
         /\ Len(calls') = Len(calls) + 1 /\ DOMAIN calls' = 1 .. Len(calls) + 1
         /\ \A i \in DOMAIN calls : calls'[i] = calls[i]
         /\ calls'[Len(calls) + 1] = c
OBVIOUS

\* The first call is over.
LEMMA TailFacts ==
  ASSUME calls \in Seq(CallRecord), calls # <<>>, calls' = Tail(calls)
  PROVE  /\ calls' \in Seq(CallRecord)
         /\ Len(calls') = Len(calls) - 1 /\ DOMAIN calls' = 1 .. Len(calls) - 1
         /\ \A i \in DOMAIN calls' : i + 1 \in DOMAIN calls /\ calls'[i] = calls[i + 1]
OBVIOUS

\* The first call is answered.
LEMMA AnswerFacts ==
  ASSUME calls \in Seq(CallRecord), calls # <<>>,
         NEW a \in {"ok", "stored", "failed", "QUEUED", "COMPLETED", "FAILED"},
         calls' = [calls EXCEPT ![1].answer = a]
  PROVE  /\ calls' \in Seq(CallRecord)
         /\ Len(calls') = Len(calls) /\ DOMAIN calls' = DOMAIN calls /\ 1 \in DOMAIN calls
         /\ calls'[1] = [calls[1] EXCEPT !.answer = a]
         /\ \A i \in DOMAIN calls : i # 1 => calls'[i] = calls[i]
<1>1. /\ Len(calls) \in Nat /\ Len(calls) >= 1 /\ DOMAIN calls = 1 .. Len(calls)
      /\ \A i \in DOMAIN calls : calls[i] \in CallRecord
  OBVIOUS
<1>2. [calls[1] EXCEPT !.answer = a] \in CallRecord
  BY <1>1 DEF CallRecord
<1>3. /\ DOMAIN calls' = DOMAIN calls
      /\ calls'[1] = [calls[1] EXCEPT !.answer = a]
      /\ \A i \in DOMAIN calls : i # 1 => calls'[i] = calls[i]
  BY <1>1
<1>4. calls' \in [1 .. Len(calls) -> CallRecord]
  BY <1>1, <1>2
<1>5. calls' \in Seq(CallRecord) /\ Len(calls') = Len(calls)
  BY <1>1, <1>3, <1>4
<1>. QED
  BY <1>1, <1>3, <1>5

\* Nobody waits for a status any more.
LEMMA CancelledFacts ==
  ASSUME NEW cs \in Seq(CallRecord)
  PROVE  /\ Cancelled(cs) \in Seq(CallRecord)
         /\ Len(Cancelled(cs)) = Len(cs) /\ DOMAIN Cancelled(cs) = DOMAIN cs
         /\ \A i \in DOMAIN cs :
              /\ Cancelled(cs)[i].kind = cs[i].kind /\ Cancelled(cs)[i].version = cs[i].version
              /\ Cancelled(cs)[i].number = cs[i].number
              /\ Cancelled(cs)[i].answer = cs[i].answer /\ ~IsAwaited(Cancelled(cs)[i])
<1>1. /\ Len(cs) \in Nat /\ DOMAIN cs = 1 .. Len(cs)
      /\ \A i \in DOMAIN cs : cs[i] \in CallRecord
  OBVIOUS
<1>2. \A i \in DOMAIN cs :
        LET c == [cs[i] EXCEPT !.cancelled = (cs[i].kind = "poll")] IN
        /\ c \in CallRecord /\ ~IsAwaited(c)
        /\ c.kind = cs[i].kind /\ c.version = cs[i].version
        /\ c.number = cs[i].number /\ c.answer = cs[i].answer
  BY <1>1 DEF CallRecord, IsAwaited
<1>3. Cancelled(cs) \in [1 .. Len(cs) -> CallRecord]
  BY <1>1, <1>2 DEF Cancelled
<1>4. Cancelled(cs) \in Seq(CallRecord) /\ Len(Cancelled(cs)) = Len(cs)
  BY <1>1, <1>3
<1>. QED
  BY <1>1, <1>2, <1>4 DEF Cancelled

LEMMA NewCall ==
  ASSUME NEW kind \in Kinds, NEW v \in Version, NEW n \in Nat
  PROVE  /\ Call(kind, v, n) \in CallRecord
         /\ Call(kind, v, n).kind = kind /\ Call(kind, v, n).version = v
         /\ Call(kind, v, n).number = n /\ Call(kind, v, n).answer = "none"
         /\ ~Call(kind, v, n).cancelled
BY DEF Call, CallRecord

-----------------------------------------------------------------------------
(* Types *)

LEMMA EditorFacts ==
  ASSUME TypeOK
  PROVE  /\ editor.source \in Source /\ editor.language \in Language
         /\ draft.source \in Source /\ draft.language \in Language
         /\ \A s \in Source : [editor EXCEPT !.source = s] \in Version
         /\ \A s \in Source : [draft EXCEPT !.source = s] \in Version
         /\ \A l \in Language : Starter[l] \in Source
BY WorkspaceAssumption DEF TypeOK, Version

LEMMA RenderedTypes ==
  ASSUME TypeOK, NEW v \in Version, Rendered(v),
         mirror' = Null \/ mirror' \in [source : Source, synced : BOOLEAN]
  PROVE  TypeOK'
<1>1. calls' \in Seq(CallRecord)
  BY CancelledFacts DEF TypeOK, Rendered
<1>2. /\ timer' = Null \/ timer' \in [version : Version, number : {latest'}]
      /\ latest' \in Nat /\ saveState' \in {"saving", "saved", "failed"}
  BY DEF TypeOK, Rendered, Numbered
<1>4. mishaps' \subseteq {"undo", "sync", "failed", "lost", "dropped", "settled"}
  <2>1. mishaps' \in {mishaps, mishaps \cup {"undo"}}
    BY DEF Rendered
  <2>. QED
    BY <2>1 DEF TypeOK
<1>3. edits' \in Nat /\ polls' \in {"idle", "armed"} /\ editor' \in Version
  BY DEF TypeOK, Rendered
<1>. QED
  BY <1>1, <1>2, <1>3, <1>4 DEF TypeOK, Rendered, server

LEMMA CallTypes ==
  ASSUME TypeOK, NEW kind \in Kinds, NEW v \in Version, NEW n \in Nat, Calls(kind, v, n)
  PROVE  calls' \in Seq(CallRecord)
BY NewCall, AppendFacts DEF TypeOK, Calls

LEMMA EffectTypes ==
  ASSUME TypeOK, NEW c \in CallRecord, NEW answer, Effect(c, answer)
  PROVE  /\ draft' \in Version /\ revised' \in BOOLEAN /\ own' \in BOOLEAN
         /\ session' \in {"ACTIVE", "SUBMITTED"} /\ dispatch' \in {"queued", "inline"}
         /\ jobs' \in [{"run", "submit"} -> Statuses \cup {"none"}]
<1>1. c.version \in Version
  BY DEF CallRecord
<1>2. ASSUME NEW v \in Version, Stored(v) PROVE draft' \in Version /\ revised' \in BOOLEAN
  BY <1>2 DEF Stored, TypeOK
<1>3. ASSUME NEW kind \in {"run", "submit"}, Queued(kind, c.version)
      PROVE  /\ draft' \in Version /\ revised' \in BOOLEAN /\ own' \in BOOLEAN
             /\ jobs' \in [{"run", "submit"} -> Statuses \cup {"none"}]
  <2>1. draft' \in Version /\ revised' \in BOOLEAN
    BY <1>1, <1>2, <1>3 DEF Queued, TypeOK
  <2>2. own' \in BOOLEAN
    BY <1>3 DEF Queued, TypeOK
  <2>3. \A k \in {"run", "submit"} : [jobs EXCEPT ![k] = "QUEUED"] \in [{"run", "submit"} -> Statuses \cup {"none"}]
    BY DEF TypeOK, Statuses
  <2>4. jobs' \in [{"run", "submit"} -> Statuses \cup {"none"}]
    BY <1>3, <2>3 DEF Queued, TypeOK
  <2>. QED
    BY <2>1, <2>2, <2>4
<1>4. CASE c.kind = "poll"
  BY <1>4 DEF Effect, TypeOK
<1>5. CASE c.kind \in {"auto", "key", "sync"}
  BY <1>1, <1>2, <1>5 DEF Effect, TypeOK
<1>6. CASE c.kind \in {"run", "submit"} /\ dispatch = "queued"
  BY <1>3, <1>6 DEF Effect, TypeOK
<1>7. CASE c.kind \in {"run", "submit"} /\ dispatch = "inline"
  BY <1>1, <1>2, <1>7 DEF Effect, TypeOK
<1>. QED
  BY <1>4, <1>5, <1>6, <1>7 DEF Effect, TypeOK

\* The answered call.
LEMMA HeadTypes ==
  ASSUME TypeOK, calls # <<>>
  PROVE  /\ Head(calls) \in CallRecord /\ Head(calls) = calls[1] /\ 1 \in DOMAIN calls
         /\ Head(calls).version \in Version /\ Head(calls).version.source \in Source
BY CallsFacts DEF TypeOK, CallRecord, Version

\* What the calls are when the first one is answered.
LEMMA AnsweredCalls ==
  ASSUME TypeOK, Answered
  PROVE  /\ calls # <<>> /\ Tail(calls) \in Seq(CallRecord)
         /\ calls' \in {Tail(calls), Cancelled(Tail(calls))}
         /\ calls' # Tail(calls) => JobAnswered(Head(calls))
<1>1. calls # <<>> /\ Tail(calls) \in Seq(CallRecord)
  BY DEF Answered, TypeOK
<1>2. ASSUME NEW c, c = Head(calls)
      PROVE  AutosaveAnswered(c) \/ SaveAnswered(c) \/ StartAnswered(c) \/ PollAnswered(c) =>
               calls' = Tail(calls) \/ (calls' = Cancelled(Tail(calls)) /\ JobAnswered(c))
  BY DEF AutosaveAnswered, SaveAnswered, StartAnswered, JobAnswered, DoneAnswered, PollAnswered
<1>. QED
  BY <1>1, <1>2 DEF Answered

LEMMA AnsweredTypes ==
  ASSUME TypeOK, Told, Answered
  PROVE  TypeOK'
<1>. DEFINE c == Head(calls)
<1>1. /\ c \in CallRecord /\ c.version \in Version /\ c.version.source \in Source
      /\ c = calls[1] /\ 1 \in DOMAIN calls
  BY HeadTypes DEF Answered
<1>2. calls' \in Seq(CallRecord)
  BY AnsweredCalls, CancelledFacts
<1>3. c.kind = "poll" /\ c.answer # "failed" => c.answer \in Statuses
  BY <1>1 DEF Told, Answered, CallRecord, Statuses
<1>. HIDE DEF c
<1>4. \A b \in BOOLEAN : Copied(c.version, b) = Null \/ Copied(c.version, b) \in [source : Source, synced : BOOLEAN]
  BY <1>1 DEF Copied, Mirror, TypeOK
<1>5. /\ persisted' \in Version /\ saveState' \in {"saving", "saved", "failed"}
      /\ template' \in BOOLEAN /\ closed' \in BOOLEAN
      /\ busy' \subseteq {"run", "submit"} /\ polls' \in {"idle", "armed"}
      /\ dialog' \in {"no", "offered", "open"}
      /\ shown' \in {"none", "run", "submit"} /\ failures' \in Nat
      /\ mirror' = Null \/ mirror' \in [source : Source, synced : BOOLEAN]
      /\ mishaps' \in {mishaps, mishaps \cup {"settled"}}
  <2>1. CASE AutosaveAnswered(c)
    BY <1>1, <1>4, <2>1 DEF AutosaveAnswered, TakenAsSaved, TypeOK, working
  <2>2. CASE SaveAnswered(c)
    BY <1>1, <1>4, <2>2 DEF SaveAnswered, TakenAsSaved, TypeOK, working
  <2>3. CASE StartAnswered(c)
    <3>1. CASE JobAnswered(c)
      BY <1>1, <2>3, <3>1 DEF StartAnswered, JobAnswered, Unsettled, Rearmed, TakenAsSaved, TypeOK
    <3>2. CASE DoneAnswered(c)
      BY <1>1, <2>3, <3>2 DEF StartAnswered, DoneAnswered, Offered, TakenAsSaved, TypeOK
    <3>. QED
      BY <2>3, <3>1, <3>2 DEF StartAnswered
  <2>4. CASE PollAnswered(c)
    <3>1. CASE c.cancelled
      BY <2>4, <3>1 DEF PollAnswered, TypeOK, working
    <3>2. CASE PollFailed
      <4>1. dialog' \in {"no", "offered", "open"}
        <5>1. dialog' \in {dialog, "no", "offered"}
          <6>1. UNCHANGED dialog \/ Offered(shown = "submit")
            BY <3>2 DEF PollFailed
          <6>2. ASSUME NEW b, Offered(b) PROVE dialog' \in {dialog, "no", "offered"}
            BY <6>2 DEF Offered
          <6>. QED
            BY <6>1, <6>2
        <5>. QED
          BY <5>1 DEF TypeOK
      <4>2. busy' \in {busy, {}} /\ polls' \in {polls, "armed", "idle"} /\ failures' = failures + 1
        BY <3>2 DEF PollFailed, Rearmed
      <4>3. UNCHANGED <<persisted, saveState, template, shown, closed, mirror, mishaps>>
        BY <2>4, <3>2 DEF PollAnswered, PollFailed
      <4>4. /\ persisted' \in Version /\ saveState' \in {"saving", "saved", "failed"}
            /\ template' \in BOOLEAN /\ closed' \in BOOLEAN
            /\ shown' \in {"none", "run", "submit"} /\ mishaps' = mishaps
            /\ mirror' = Null \/ mirror' \in [source : Source, synced : BOOLEAN]
        BY <4>3 DEF TypeOK
      <4>5. /\ busy' \subseteq {"run", "submit"} /\ polls' \in {"idle", "armed"}
            /\ failures' \in Nat
        BY <4>2 DEF TypeOK
      <4>. QED
        BY <4>1, <4>4, <4>5
    <3>3. CASE c.answer \in Statuses /\ PollTold(c.answer)
      BY <2>4, <3>3 DEF PollAnswered, PollTold, Rearmed, Unsettled, Offered, TakenAsSaved, TypeOK
    <3>. QED
      BY <1>3, <2>4, <3>1, <3>2, <3>3 DEF PollAnswered
  <2>. QED
    BY <2>1, <2>2, <2>3, <2>4 DEF Answered, c
<1>6. mishaps' \subseteq {"undo", "sync", "failed", "lost", "dropped", "settled"}
  BY <1>5 DEF TypeOK
<1>. QED
  BY <1>2, <1>5, <1>6 DEF Answered, TypeOK, server

LEMMA ReopensTypes ==
  ASSUME TypeOK, Reopens
  PROVE  TypeOK'
<1>1. /\ calls' \in Seq(CallRecord) /\ faults' \in Nat
      /\ mishaps' \subseteq {"undo", "sync", "failed", "lost", "dropped", "settled"}
  BY DEF Reopens, TypeOK
<1>2. /\ editor' \in Version /\ latest' \in Nat /\ saveState' \in {"saving", "saved"}
      /\ timer' = Null \/ timer' \in [version : Version, number : {latest'}]
  <2>1. CASE Restores
    <3>1. [draft EXCEPT !.source = mirror.source] \in Version
      BY <2>1, EditorFacts DEF Restores, TypeOK
    <3>. QED
      BY <2>1, <3>1 DEF Reopens
  <2>2. CASE ~Restores
    BY <2>2 DEF Reopens, TypeOK
  <2>. QED
    BY <2>1, <2>2
<1>3. /\ busy' \subseteq {"run", "submit"} /\ polls' \in {"idle", "armed"}
      /\ shown' \in {"none", "run", "submit"}
  <2>1. busy' \subseteq {"run", "submit"}
    BY DEF Reopens, TypeOK
  <2>. QED
    BY <2>1 DEF Reopens
<1>4. /\ template' \in BOOLEAN /\ own' \in BOOLEAN /\ failures' \in Nat /\ persisted' \in Version
      /\ dialog' = "no"
  BY DEF Reopens, TypeOK
<1>. QED
  BY <1>1, <1>2, <1>3, <1>4 DEF Reopens, TypeOK, local

LEMMA NextTypes ==
  ASSUME TypeOK, Told, Shown, Next
  PROVE  TypeOK'
<1>1. ASSUME NEW s \in Source, Edit(s) PROVE TypeOK'
  <2>1. [editor EXCEPT !.source = s] \in Version
    BY EditorFacts
  <2>2. mirror' = Null \/ mirror' \in [source : Source, synced : BOOLEAN]
    BY <1>1, <2>1 DEF Edit, Copied, Mirror, Version, TypeOK
  <2>. QED
    BY <1>1, <2>1, <2>2, RenderedTypes DEF Edit
<1>2. ASSUME NEW l \in Language, ChangeLanguage(l) PROVE TypeOK'
  <2>1. PICK v \in Version : Rendered(v)
    BY <1>2, EditorFacts DEF ChangeLanguage, Version
  <2>. QED
    BY <1>2, <2>1, RenderedTypes DEF ChangeLanguage, TypeOK
<1>3. CASE TimerFires
  <2>1. timer.version \in Version /\ timer.number \in Nat
    BY <1>3 DEF TimerFires, TypeOK
  <2>2. calls' \in Seq(CallRecord)
    BY <1>3, <2>1, CallTypes DEF TimerFires, Kinds
  <2>. QED
    BY <1>3, <2>2 DEF TimerFires, TypeOK, local, working, server, history
<1>4. CASE SaveKey
  <2>1. calls' \in Seq(CallRecord)
    BY <1>4, CallTypes DEF SaveKey, Kinds, TypeOK
  <2>. QED
    BY <1>4, <2>1 DEF SaveKey, TypeOK, local, working, server, history
<1>5. CASE GoesOffline
  BY <1>5 DEF GoesOffline, TypeOK, local, saving, working, server
<1>6. CASE GoesOnline
  <2>1. calls' \in Seq(CallRecord)
    BY <1>6, CallTypes DEF GoesOnline, Kinds, TypeOK
  <2>2. mishaps' \in {mishaps, mishaps \cup {"sync"}} /\ saveState' \in {saveState, "saving"}
    BY <1>6 DEF GoesOnline
  <2>3. mishaps' \subseteq {"undo", "sync", "failed", "lost", "dropped", "settled"}
    BY <2>2 DEF TypeOK
  <2>. QED
    BY <1>6, <2>1, <2>2, <2>3 DEF GoesOnline, TypeOK, local, working, server
<1>7. ASSUME NEW kind \in {"run", "submit"}, Starts(kind) PROVE TypeOK'
  <2>1. Call(kind, editor, 0) \in CallRecord /\ Cancelled(calls) \in Seq(CallRecord)
    BY NewCall, CancelledFacts DEF Kinds, TypeOK
  <2>2. calls' \in Seq(CallRecord)
    BY <1>7, <2>1 DEF Starts
  <2>3. mishaps' \subseteq {"undo", "sync", "failed", "lost", "dropped", "settled"}
    <3>1. mishaps' \subseteq mishaps \cup {"dropped"}
      BY <1>7 DEF Starts
    <3>. QED
      BY <3>1 DEF TypeOK
  <2>4. busy' \subseteq {"run", "submit"} /\ dialog' \in {"no", "offered", "open"}
    BY <1>7 DEF Starts, TypeOK
  <2>. QED
    BY <1>7, <2>2, <2>3, <2>4 DEF Starts, TypeOK, saving, local, server
<1>8. CASE Polls
  <2>1. calls' \in Seq(CallRecord)
    BY <1>8, CallTypes DEF Polls, Kinds, TypeOK
  <2>. QED
    BY <1>8, <2>1 DEF Polls, TypeOK, saving, local, server, history
<1>9. CASE Handles
  <2>1. PICK answer \in Statuses \cup {"ok", "stored"} :
          /\ Effect(Head(calls), answer) \/ UNCHANGED server
          /\ calls' = [calls EXCEPT ![1].answer = answer]
    BY <1>9 DEF Handles
  <2>2. Head(calls) \in CallRecord /\ calls' \in Seq(CallRecord)
    BY <1>9, <2>1, HeadTypes, AnswerFacts DEF Handles, TypeOK, Statuses
  <2>3. CASE Effect(Head(calls), answer)
    BY <1>9, <2>2, <2>3, EffectTypes DEF Handles, TypeOK, saving, working, local, history
  <2>4. CASE UNCHANGED server
    BY <1>9, <2>2, <2>4 DEF Handles, TypeOK, saving, working, local, server, history
  <2>. QED
    BY <2>1, <2>3, <2>4
<1>10. CASE Refuses
  <2>1. calls' \in Seq(CallRecord)
    BY <1>10, AnswerFacts DEF Refuses, TypeOK
  <2>. QED
    BY <1>10, <2>1 DEF Refuses, TypeOK, saving, working, local, server
<1>11. CASE IsLost
  <2>1. Head(calls) \in CallRecord /\ calls' \in Seq(CallRecord)
    BY <1>11, HeadTypes, TailFacts DEF IsLost, TypeOK
  <2>2. /\ draft' \in Version /\ revised' \in BOOLEAN /\ own' \in BOOLEAN
        /\ session' \in {"ACTIVE", "SUBMITTED"} /\ dispatch' \in {"queued", "inline"}
        /\ jobs' \in [{"run", "submit"} -> Statuses \cup {"none"}]
    <3>1. CASE UNCHANGED server
      BY <3>1 DEF TypeOK, server
    <3>2. CASE \E answer \in {"ok", "stored"} : Effect(Head(calls), answer)
      BY <2>1, <3>2, EffectTypes
    <3>. QED
      BY <1>11, <3>1, <3>2 DEF IsLost
  <2>. QED
    BY <1>11, <2>1, <2>2 DEF IsLost, TypeOK, saving, working, local
<1>12. CASE Answered
  BY <1>12, AnsweredTypes
<1>13. ASSUME NEW kind \in {"run", "submit"}, NEW status \in {"COMPLETED", "FAILED"},
              JobSettles(kind, status)
       PROVE  TypeOK'
  <2>1. jobs' \in [{"run", "submit"} -> Statuses \cup {"none"}]
    BY <1>13 DEF JobSettles, TypeOK, Statuses
  <2>2. session' \in {"ACTIVE", "SUBMITTED"}
    BY <1>13 DEF JobSettles, TypeOK
  <2>. QED
    BY <1>13, <2>1, <2>2 DEF JobSettles, TypeOK, saving, working, local, history
<1>14. CASE Reopens
  BY <1>14, ReopensTypes
<1>15. CASE StorageFills
  BY <1>15 DEF StorageFills, TypeOK, saving, working, server
<1>16. CASE Asks
  BY <1>16 DEF Asks, TypeOK, saving, local, server, history
<1>17. CASE SubmitsNothing
  BY <1>17 DEF SubmitsNothing, TypeOK, saving, local, server, history
<1>. QED
  BY <1>1, <1>2, <1>3, <1>4, <1>5, <1>6, <1>7, <1>8, <1>9, <1>10, <1>11, <1>12, <1>13, <1>14,
     <1>15, <1>16, <1>17 DEF Next

-----------------------------------------------------------------------------
(* What the calls carry *)

\* The same call, cancelled or not.
Same(d, c) ==
  /\ d.kind = c.kind /\ d.version = c.version /\ d.number = c.number /\ d.answer = c.answer
  /\ IsAwaited(d) => IsAwaited(c)
AllSame == \A i \in DOMAIN calls : Same(calls'[i], calls[i])

\* The calls are the same, or there is another one.
Kept == calls' \in Seq(CallRecord) /\ DOMAIN calls' = DOMAIN calls /\ AllSame
Added(c) ==
  /\ calls' \in Seq(CallRecord)
  /\ DOMAIN calls' = 1 .. Len(calls) + 1 /\ AllSame /\ calls'[Len(calls) + 1] = c

LEMMA CancelledKept ==
  ASSUME TypeOK, calls' = Cancelled(calls)
  PROVE  Kept /\ \A i \in DOMAIN calls : ~IsAwaited(calls'[i])
BY CancelledFacts DEF TypeOK, Kept, AllSame, Same

LEMMA CallsAdded ==
  ASSUME TypeOK, NEW kind \in Kinds, NEW v \in Version, NEW n \in Nat, Calls(kind, v, n)
  PROVE  Added(Call(kind, v, n))
BY NewCall, AppendFacts DEF TypeOK, Calls, Added, AllSame, Same

LEMMA StartsAdded ==
  ASSUME TypeOK, NEW kind \in Starting, Starts(kind)
  PROVE  /\ Added(Call(kind, editor, 0))
         /\ \A i \in DOMAIN calls : ~IsAwaited(calls'[i])
<1>. DEFINE w == Cancelled(calls)
            c == Call(kind, editor, 0)
<1>1. /\ w \in Seq(CallRecord) /\ Len(w) = Len(calls) /\ DOMAIN w = DOMAIN calls
      /\ \A i \in DOMAIN calls : Same(w[i], calls[i]) /\ ~IsAwaited(w[i])
  BY CancelledFacts DEF TypeOK, Same
<1>2. c \in CallRecord
  BY NewCall DEF Starting, Kinds, TypeOK
<1>3. calls' = Append(w, c)
  BY DEF Starts
<1>. HIDE DEF w, c
<1>4. /\ calls' \in Seq(CallRecord) /\ DOMAIN calls' = 1 .. Len(w) + 1
      /\ \A i \in DOMAIN w : calls'[i] = w[i]
      /\ calls'[Len(w) + 1] = c
  BY <1>1, <1>2, <1>3
<1>5. Added(c) /\ \A i \in DOMAIN calls : ~IsAwaited(calls'[i])
  BY <1>1, <1>4 DEF Added, AllSame
<1>. QED
  BY <1>5 DEF c

\* What follows the first call stays, cancelled or not.
LEMMA RestFacts ==
  ASSUME TypeOK, calls # <<>>, calls' \in {Tail(calls), Cancelled(Tail(calls))}
  PROVE  /\ calls' \in Seq(CallRecord)
         /\ Len(calls') = Len(calls) - 1 /\ DOMAIN calls' = 1 .. Len(calls) - 1
         /\ \A i \in DOMAIN calls' :
              /\ i \in Nat /\ i >= 1 /\ i + 1 \in DOMAIN calls
              /\ Same(calls'[i], calls[i + 1])
<1>. DEFINE w == Tail(calls)
<1>1. /\ w \in Seq(CallRecord) /\ Len(w) = Len(calls) - 1 /\ DOMAIN w = 1 .. Len(calls) - 1
      /\ Len(calls) \in Nat /\ DOMAIN calls = 1 .. Len(calls)
      /\ \A i \in DOMAIN w : i + 1 \in DOMAIN calls /\ w[i] = calls[i + 1]
  BY DEF TypeOK
<1>. HIDE DEF w
<1>2. /\ Cancelled(w) \in Seq(CallRecord) /\ Len(Cancelled(w)) = Len(w)
      /\ DOMAIN Cancelled(w) = DOMAIN w
      /\ \A i \in DOMAIN w : Same(Cancelled(w)[i], w[i])
  BY <1>1, CancelledFacts DEF Same
<1>3. calls' \in {w, Cancelled(w)}
  BY DEF w
<1>. QED
  BY <1>1, <1>2, <1>3 DEF Same

LEMMA AnsweredMishaps ==
  ASSUME Answered
  PROVE  mishaps' \in {mishaps, mishaps \cup {"settled"}}
BY DEF Answered, AutosaveAnswered, SaveAnswered, StartAnswered, JobAnswered, DoneAnswered, PollAnswered

LEMMA RenderedSent ==
  ASSUME TypeOK, Sent, NEW v \in Version, Rendered(v)
  PROVE  Sent'
<1>1. Kept /\ editor' = v /\ latest \in Nat /\ \A i \in DOMAIN calls : calls[i] \in CallRecord
  BY CancelledKept, CallsFacts DEF Rendered, TypeOK
<1>2. \A i \in DOMAIN calls' : i # 1 => calls'[i].answer = "none"
  BY <1>1 DEF Kept, AllSame, Same, Sent
<1>3. CASE Changed(persisted, v)
  <2>1. latest' = latest + 1 /\ timer'.version = v /\ mishaps' = mishaps
    BY <1>3 DEF Rendered, Numbered
  <2>2. \A i \in DOMAIN calls' :
          /\ calls'[i].kind = "auto" => calls'[i].number <= latest /\ calls'[i].number \in Nat
          /\ calls'[i].kind = "sync" => "sync" \in mishaps
    BY <1>1 DEF Kept, AllSame, Same, Sent, CallRecord
  <2>. QED
    BY <1>1, <1>2, <2>1, <2>2 DEF Sent
<1>4. CASE ~Changed(persisted, v)
  <2>1. v = persisted /\ timer' = Null /\ latest' = latest
    BY <1>4 DEF Changed, Rendered, TypeOK, Version
  <2>2. mishaps' \in {mishaps, mishaps \cup {"undo"}}
    BY DEF Rendered
  <2>3. \A i \in DOMAIN calls' : calls'[i].kind # "poll" => "undo" \in mishaps'
    BY <1>1, <1>4, <2>1 DEF Kept, AllSame, Same, Rendered
  <2>4. \A i \in DOMAIN calls' :
          /\ calls'[i].kind = "auto" => calls'[i].number <= latest'
          /\ calls'[i].kind = "sync" => "sync" \in mishaps'
    BY <1>1, <2>1, <2>2 DEF Kept, AllSame, Same, Sent
  <2>. QED
    BY <1>2, <2>1, <2>3, <2>4 DEF Sent
<1>. QED
  BY <1>3, <1>4

\* A call that carries the editor's version is made.
LEMMA AddedSent ==
  ASSUME TypeOK, Sent, NEW c \in CallRecord, Added(c),
         c.answer = "none", c.version = editor,
         c.kind = "auto" => c.number <= latest,
         c.kind = "sync" => "sync" \in mishaps',
         editor' = editor, latest' = latest, timer' = timer \/ timer' = Null,
         mishaps \cap {"undo", "sync"} \subseteq mishaps'
  PROVE  Sent'
<1>1. Len(calls) \in Nat /\ DOMAIN calls = 1 .. Len(calls)
  BY CallsFacts DEF TypeOK
<1>. DEFINE n == Len(calls) + 1
<1>2. /\ DOMAIN calls' = DOMAIN calls \cup {n} /\ n \in Nat /\ n \notin DOMAIN calls
      /\ \A i \in DOMAIN calls : Same(calls'[i], calls[i]) /\ i < n
      /\ calls'[n] = c
  BY <1>1 DEF Added, AllSame
<1>. HIDE DEF n
<1>3. \A i \in DOMAIN calls' :
        /\ i # 1 => calls'[i].answer = "none"
        /\ calls'[i].kind = "auto" => calls'[i].number <= latest'
        /\ calls'[i].kind = "sync" => "sync" \in mishaps'
  BY <1>2 DEF Sent, Same
<1>4. ASSUME NEW i \in DOMAIN calls', calls'[i].kind = "auto", calls'[i].number = latest',
             "undo" \notin mishaps',
             NEW j \in DOMAIN calls', j >= i, Stores(calls'[j])
      PROVE  calls'[j].version = editor'
  <2>1. CASE j = n
    BY <1>2, <2>1
  <2>2. CASE j # n
    <3>1. j \in DOMAIN calls /\ i \in DOMAIN calls
      BY <1>1, <1>2, <1>4, <2>2
    <3>. QED
      BY <1>2, <1>4, <3>1 DEF Sent, Same, Stores
  <2>. QED
    BY <2>1, <2>2
<1>5. timer' # Null => timer'.version = editor'
  BY DEF Sent
<1>. QED
  BY <1>3, <1>4, <1>5 DEF Sent

\* The first call is over.
LEMMA TailSent ==
  ASSUME TypeOK, Sent, calls # <<>>, calls' \in {Tail(calls), Cancelled(Tail(calls))},
         editor' = editor, latest' = latest, timer' = timer,
         mishaps \cap {"undo", "sync"} \subseteq mishaps'
  PROVE  Sent'
<1>1. \A i \in DOMAIN calls' :
        i \in Nat /\ i >= 1 /\ i + 1 \in DOMAIN calls /\ Same(calls'[i], calls[i + 1])
  BY RestFacts
<1>2. \A i \in DOMAIN calls' :
        /\ calls'[i].answer = "none"
        /\ calls'[i].kind = "auto" => calls'[i].number <= latest'
        /\ calls'[i].kind = "sync" => "sync" \in mishaps'
  BY <1>1 DEF Sent, Same
<1>3. ASSUME NEW i \in DOMAIN calls', calls'[i].kind = "auto", calls'[i].number = latest',
             "undo" \notin mishaps',
             NEW j \in DOMAIN calls', j >= i, Stores(calls'[j])
      PROVE  calls'[j].version = editor'
  <2>1. i + 1 \in DOMAIN calls /\ j + 1 \in DOMAIN calls /\ j + 1 >= i + 1
    BY <1>1, <1>3
  <2>2. Same(calls'[i], calls[i + 1]) /\ Same(calls'[j], calls[j + 1])
    BY <1>1
  <2>. QED
    BY <1>3, <2>1, <2>2 DEF Sent, Stores, Same
<1>. QED
  BY <1>2, <1>3 DEF Sent

\* The first call is answered.
LEMMA AnswerSent ==
  ASSUME TypeOK, Sent, calls # <<>>,
         NEW a \in {"ok", "stored", "failed", "QUEUED", "COMPLETED", "FAILED"},
         calls' = [calls EXCEPT ![1].answer = a],
         editor' = editor, latest' = latest, timer' = timer,
         mishaps \cap {"undo", "sync"} \subseteq mishaps'
  PROVE  Sent'
<1>1. DOMAIN calls' = DOMAIN calls /\ calls[1] \in CallRecord
  BY AnswerFacts, CallsFacts DEF TypeOK
<1>2. \A i \in DOMAIN calls' :
        /\ i # 1 => calls'[i].answer = calls[i].answer
        /\ calls'[i].kind = calls[i].kind /\ calls'[i].version = calls[i].version
        /\ calls'[i].number = calls[i].number
  BY AnswerFacts, <1>1 DEF TypeOK, CallRecord
<1>. QED
  BY <1>1, <1>2 DEF Sent, Stores

LEMMA NextSent ==
  ASSUME TypeOK, Sent, Next
  PROVE  Sent'
<1>1. ASSUME NEW s \in Source, Edit(s) PROVE Sent'
  BY <1>1, EditorFacts, RenderedSent DEF Edit
<1>2. ASSUME NEW l \in Language, ChangeLanguage(l) PROVE Sent'
  <2>1. PICK v \in Version : Rendered(v)
    BY <1>2, EditorFacts DEF ChangeLanguage, Version
  <2>. QED
    BY <2>1, RenderedSent
<1>3. CASE TimerFires
  <2>1. timer.version = editor /\ timer.number = latest /\ latest \in Nat /\ editor \in Version
    BY <1>3 DEF TimerFires, TypeOK, Sent
  <2>2. Added(Call("auto", editor, latest))
    BY <1>3, <2>1, CallsAdded DEF TimerFires, Kinds
  <2>3. /\ Call("auto", editor, latest) \in CallRecord
        /\ Call("auto", editor, latest).answer = "none"
        /\ Call("auto", editor, latest).version = editor
        /\ Call("auto", editor, latest).kind = "auto"
        /\ Call("auto", editor, latest).number = latest
    BY <2>1, NewCall DEF Kinds
  <2>. QED
    BY <1>3, <2>1, <2>2, <2>3, AddedSent DEF TimerFires, history
<1>4. ASSUME NEW kind \in {"key", "sync", "run", "submit", "poll"}, Added(Call(kind, editor, 0)),
             kind = "sync" => "sync" \in mishaps',
             editor' = editor, latest' = latest, timer' = timer,
             mishaps \cap {"undo", "sync"} \subseteq mishaps'
      PROVE  Sent'
  <2>1. editor \in Version /\ kind \in Kinds /\ kind # "auto"
    BY DEF TypeOK, Kinds
  <2>2. /\ Call(kind, editor, 0) \in CallRecord /\ Call(kind, editor, 0).answer = "none"
        /\ Call(kind, editor, 0).version = editor /\ Call(kind, editor, 0).kind = kind
    BY <2>1, NewCall
  <2>. QED
    BY <1>4, <2>1, <2>2, AddedSent
<1>5. CASE SaveKey
  BY <1>4, <1>5, CallsAdded DEF SaveKey, Kinds, TypeOK, history
<1>6. CASE GoesOffline
  BY <1>6 DEF GoesOffline, saving, Sent, Stores
<1>7. CASE GoesOnline
  <2>1. CASE Changed(persisted, editor)
    BY <1>4, <1>7, <2>1, CallsAdded DEF GoesOnline, Kinds, TypeOK
  <2>2. CASE ~Changed(persisted, editor)
    BY <1>7, <2>2 DEF GoesOnline, Sent, Stores
  <2>. QED
    BY <2>1, <2>2
<1>8. ASSUME NEW kind \in Starting, Starts(kind) PROVE Sent'
  <2>1. mishaps \cap {"undo", "sync"} \subseteq mishaps'
    BY <1>8 DEF Starts
  <2>. QED
    BY <1>4, <1>8, <2>1, StartsAdded DEF Starts, saving, Starting
<1>9. CASE Polls
  BY <1>4, <1>9, CallsAdded DEF Polls, Kinds, TypeOK, saving, history
<1>10. CASE Handles
  BY <1>10, AnswerSent DEF Handles, saving, history, Statuses
<1>11. CASE Refuses
  <2>1. mishaps \cap {"undo", "sync"} \subseteq mishaps'
    BY <1>11 DEF Refuses
  <2>. QED
    BY <1>11, <2>1, AnswerSent DEF Refuses, saving
<1>12. CASE IsLost
  <2>1. mishaps \cap {"undo", "sync"} \subseteq mishaps'
    BY <1>12 DEF IsLost
  <2>. QED
    BY <1>12, <2>1, TailSent DEF IsLost, saving
<1>13. CASE Answered
  <2>1. mishaps \subseteq mishaps'
    BY <1>13, AnsweredMishaps
  <2>. QED
    BY <1>13, <2>1, AnsweredCalls, TailSent DEF Answered
<1>14. ASSUME NEW kind, NEW status, JobSettles(kind, status) PROVE Sent'
  BY <1>14 DEF JobSettles, Sent, saving, history, Stores
<1>15. CASE Reopens
  <2>1. DOMAIN calls' = {} /\ (timer' # Null => timer'.version = editor')
    BY <1>15 DEF Reopens
  <2>. QED
    BY <2>1 DEF Sent
<1>16. CASE StorageFills \/ Asks \/ SubmitsNothing
  BY <1>16 DEF StorageFills, Asks, SubmitsNothing, Sent, saving, history, Stores
<1>. QED
  BY <1>1, <1>2, <1>3, <1>5, <1>6, <1>7, <1>8, <1>9, <1>10, <1>11, <1>12, <1>13, <1>14, <1>15, <1>16
     DEF Next, Starting

-----------------------------------------------------------------------------
(* What the answers tell *)

\* No other answers, and the server did nothing.
LEMMA KeptTold ==
  ASSUME Told,
         \A i \in DOMAIN calls' :
           \/ calls'[i].answer \in {"none", "failed"}
           \/ \E j \in DOMAIN calls : Same(calls'[i], calls[j]),
         \/ shown' = shown
         \/ \A i \in DOMAIN calls' : ~IsAwaited(calls'[i]) \/ calls'[i].answer \in {"none", "failed"},
         UNCHANGED server, closed' => closed \/ session = "SUBMITTED"
  PROVE  Told'
<1>1. \A i \in DOMAIN calls' :
        /\ calls'[i].kind = "submit" /\ calls'[i].answer = "ok" => session = "SUBMITTED"
        /\ calls'[i].kind = "poll" => calls'[i].answer # "ok"
        /\ calls'[i].answer = "stored" => calls'[i].kind \in Starting
        /\ calls'[i].kind = "auto" /\ calls'[i].answer = "ok" => draft = calls'[i].version
  BY DEF Told, Same
<1>2. ASSUME NEW i \in DOMAIN calls', IsAwaited(calls'[i]), calls'[i].answer = "COMPLETED", shown' = "submit"
      PROVE  session = "SUBMITTED"
  <2>1. PICK j \in DOMAIN calls : Same(calls'[i], calls[j])
    BY <1>2
  <2>2. shown' = shown
    BY <1>2
  <2>. QED
    BY <1>2, <2>1, <2>2 DEF Told, Same
<1>3. session' = session /\ draft' = draft /\ jobs' = jobs
  BY DEF server
<1>. QED
  BY <1>1, <1>2, <1>3 DEF Told

LEMMA AddedTold ==
  ASSUME TypeOK, Told, NEW c, Added(c), c.answer = "none",
         shown' = shown \/ \A i \in DOMAIN calls : ~IsAwaited(calls'[i]),
         UNCHANGED server, closed' = closed
  PROVE  Told'
<1>1. \A i \in DOMAIN calls' :
        \/ calls'[i].answer = "none"
        \/ i \in DOMAIN calls /\ Same(calls'[i], calls[i])
  BY CallsFacts DEF TypeOK, Added, AllSame
<1>. QED
  BY <1>1, KeptTold

LEMMA EffectTold ==
  ASSUME TypeOK, Told, NEW c \in CallRecord, NEW answer, Effect(c, answer),
         IsAwaited(c) => shown # "none"
  PROVE  /\ c.kind = "submit" /\ answer = "ok" => session' = "SUBMITTED"
         /\ c.kind = "poll" => answer # "ok"
         /\ answer = "stored" => c.kind \in Starting
         /\ IsAwaited(c) /\ answer = "COMPLETED" /\ shown = "submit" => session' = "SUBMITTED"
         /\ c.kind = "auto" /\ answer = "ok" => draft' = c.version
         /\ jobs'["submit"] = "COMPLETED" => session' = "SUBMITTED"
         /\ session = "SUBMITTED" => session' = "SUBMITTED"
<1>1. shown # "none" => jobs[shown] \in Statuses \cup {"none"}
  BY DEF TypeOK
<1>2. CASE c.kind = "poll"
  <2>1. ~c.cancelled => answer \in Statuses \cup {"none"}
    BY <1>1, <1>2 DEF Effect, IsAwaited
  <2>. QED
    BY <1>2, <2>1 DEF Effect, Told, IsAwaited, Statuses
<1>3. CASE c.kind \in {"auto", "key", "sync"}
  BY <1>3 DEF Effect, Told, Stored, IsAwaited
<1>4. CASE c.kind \in {"run", "submit"} /\ dispatch = "queued"
  <2>1. session' = session /\ answer = "stored" /\ Queued(c.kind, c.version)
    BY <1>4 DEF Effect
  <2>2. jobs'["submit"] = "COMPLETED" => jobs["submit"] = "COMPLETED"
    BY <1>4, <2>1 DEF Queued, TypeOK
  <2>. QED
    BY <1>4, <2>1, <2>2 DEF Told, IsAwaited, Starting
<1>5. CASE c.kind \in {"run", "submit"} /\ dispatch = "inline"
  BY <1>5 DEF Effect, Told, IsAwaited, Starting
<1>. QED
  BY <1>2, <1>3, <1>4, <1>5 DEF Effect, TypeOK

LEMMA HandlesTold ==
  ASSUME TypeOK, Sent, Told, Shown, Handles
  PROVE  Told'
<1>1. PICK a \in Statuses \cup {"ok", "stored"} :
        /\ \/ Head(calls).answer = "none" /\ Effect(Head(calls), a)
           \/ Head(calls).answer = "stored" /\ a = jobs[Head(calls).kind] /\ UNCHANGED server
        /\ calls' = [calls EXCEPT ![1].answer = a]
  BY DEF Handles
<1>2. calls # <<>> /\ Head(calls) = calls[1] /\ calls[1] \in CallRecord /\ 1 \in DOMAIN calls
  BY HeadTypes DEF Handles
<1>3. /\ DOMAIN calls' = DOMAIN calls
      /\ calls'[1].answer = a /\ calls'[1].kind = calls[1].kind
      /\ calls'[1].version = calls[1].version /\ calls'[1].cancelled = calls[1].cancelled
      /\ \A i \in DOMAIN calls : i # 1 => calls'[i].answer = "none"
  BY <1>1, <1>2, AnswerFacts DEF TypeOK, CallRecord, Statuses, Sent
<1>4. closed' = closed /\ shown' = shown
  BY DEF Handles, working
<1>5. CASE Effect(Head(calls), a)
  <2>1. IsAwaited(calls[1]) => shown # "none"
    BY <1>2 DEF Shown
  <2>. QED
    BY <1>2, <1>3, <1>4, <1>5, <2>1, EffectTold DEF Told, IsAwaited
<1>6. CASE Head(calls).answer = "stored" /\ a = jobs[Head(calls).kind] /\ UNCHANGED server
  <2>1. calls[1].kind \in {"run", "submit"}
    BY <1>2, <1>6 DEF Told, Starting
  <2>2. a \notin {"ok", "stored"}
    BY <1>2, <1>6, <2>1 DEF TypeOK, Statuses
  <2>. QED
    BY <1>3, <1>4, <1>6, <2>1, <2>2 DEF Told, IsAwaited, server
<1>. QED
  BY <1>1, <1>5, <1>6

LEMMA AnsweredTold ==
  ASSUME TypeOK, Sent, Told, Answered
  PROVE  Told'
<1>1. Head(calls) = calls[1] /\ 1 \in DOMAIN calls /\ calls # <<>>
  BY HeadTypes DEF Answered
<1>2. \A i \in DOMAIN calls' :
        i >= 1 /\ i \in Nat /\ i + 1 \in DOMAIN calls /\ Same(calls'[i], calls[i + 1])
  BY AnsweredCalls, RestFacts
<1>3. \A i \in DOMAIN calls' : calls'[i].answer = "none"
  BY <1>2 DEF Sent, Same
<1>4. closed' => session = "SUBMITTED"
  <2>1. CASE AutosaveAnswered(Head(calls))
    BY <2>1 DEF AutosaveAnswered, working, Told
  <2>2. CASE SaveAnswered(Head(calls))
    BY <2>2 DEF SaveAnswered, working, Told
  <2>3. CASE StartAnswered(Head(calls))
    BY <1>1, <2>3 DEF StartAnswered, JobAnswered, DoneAnswered, Told
  <2>4. CASE PollAnswered(Head(calls))
    BY <1>1, <2>4 DEF PollAnswered, PollFailed, PollTold, Closes, working, Told, IsAwaited
  <2>. QED
    BY <2>1, <2>2, <2>3, <2>4 DEF Answered
<1>5. UNCHANGED server
  BY DEF Answered
<1>. QED
  BY <1>3, <1>4, <1>5, KeptTold

LEMMA NextTold ==
  ASSUME TypeOK, Sent, Told, Shown, Next
  PROVE  Told'
<1>1. ASSUME NEW v, Rendered(v) PROVE Told'
  <2>1. Kept
    BY <1>1, CancelledKept DEF Rendered
  <2>. QED
    BY <1>1, <2>1, KeptTold DEF Rendered, Kept, AllSame
<1>2. ASSUME NEW s \in Source, Edit(s) PROVE Told'
  BY <1>1, <1>2 DEF Edit
<1>3. ASSUME NEW l \in Language, ChangeLanguage(l) PROVE Told'
  BY <1>1, <1>3 DEF ChangeLanguage
<1>4. ASSUME NEW kind \in Kinds, NEW v \in Version, NEW n \in Nat, Added(Call(kind, v, n)),
             shown' = shown \/ \A i \in DOMAIN calls : ~IsAwaited(calls'[i]),
             UNCHANGED server, closed' = closed
      PROVE  Told'
  <2>1. Call(kind, v, n).answer = "none"
    BY NewCall
  <2>. QED
    BY <1>4, <2>1, AddedTold
<1>5. CASE TimerFires
  <2>1. timer.version \in Version /\ timer.number \in Nat
    BY <1>5 DEF TimerFires, TypeOK
  <2>. QED
    BY <1>4, <1>5, <2>1, CallsAdded DEF TimerFires, Kinds, working
<1>6. CASE SaveKey
  BY <1>4, <1>6, CallsAdded DEF SaveKey, Kinds, TypeOK, working
<1>7. ASSUME UNCHANGED <<calls, shown, closed, server>> PROVE Told'
  BY <1>7 DEF Told, server, IsAwaited
<1>8. CASE GoesOffline \/ StorageFills \/ Asks \/ SubmitsNothing
  BY <1>7, <1>8 DEF GoesOffline, StorageFills, Asks, SubmitsNothing, working
<1>9. CASE GoesOnline
  <2>1. CASE Changed(persisted, editor)
    BY <1>4, <1>9, <2>1, CallsAdded DEF GoesOnline, Kinds, TypeOK, working
  <2>2. CASE ~Changed(persisted, editor)
    BY <1>7, <1>9, <2>2 DEF GoesOnline, working
  <2>. QED
    BY <2>1, <2>2
<1>10. ASSUME NEW kind \in Starting, Starts(kind) PROVE Told'
  BY <1>4, <1>10, StartsAdded DEF Starts, Starting, Kinds, TypeOK
<1>11. CASE Polls
  BY <1>4, <1>11, CallsAdded DEF Polls, Kinds, TypeOK
<1>12. CASE Handles
  BY <1>12, HandlesTold
<1>13. CASE Refuses
  <2>1. /\ calls[1] \in CallRecord /\ DOMAIN calls' = DOMAIN calls
        /\ calls'[1] = [calls[1] EXCEPT !.answer = "failed"]
        /\ \A i \in DOMAIN calls : i # 1 => calls'[i].answer = "none"
    BY <1>13, HeadTypes, AnswerFacts DEF Refuses, TypeOK, Sent
  <2>2. \A i \in DOMAIN calls' : calls'[i].answer \in {"none", "failed"}
    BY <2>1 DEF CallRecord
  <2>. QED
    BY <1>13, <2>2, KeptTold DEF Refuses, working
<1>14. CASE IsLost
  <2>1. \A i \in DOMAIN calls' : calls'[i].answer = "none"
    BY <1>14, RestFacts DEF IsLost, Sent, Same
  <2>2. Head(calls) \in CallRecord /\ closed' = closed /\ shown' = shown
    BY <1>14, HeadTypes DEF IsLost, working
  <2>3. CASE UNCHANGED server
    BY <2>1, <2>2, <2>3, KeptTold
  <2>4. CASE \E a \in {"ok", "stored"} : Effect(Head(calls), a)
    <3>1. IsAwaited(Head(calls)) => shown # "none"
      BY <1>14, HeadTypes DEF Shown, IsLost
    <3>. QED
      BY <2>1, <2>2, <2>4, <3>1, EffectTold DEF Told
  <2>. QED
    BY <1>14, <2>3, <2>4 DEF IsLost
<1>15. CASE Answered
  BY <1>15, AnsweredTold
<1>16. ASSUME NEW kind \in Starting, NEW status \in {"COMPLETED", "FAILED"}, JobSettles(kind, status)
       PROVE  Told'
  <2>1. /\ session = "SUBMITTED" => session' = "SUBMITTED"
        /\ jobs'["submit"] = "COMPLETED" => session' = "SUBMITTED"
    BY <1>16 DEF JobSettles, TypeOK, Told, Starting
  <2>. QED
    BY <1>16, <2>1 DEF JobSettles, Told, working, IsAwaited
<1>17. CASE Reopens
  <2>1. DOMAIN calls' = {}
    BY <1>17 DEF Reopens
  <2>. QED
    BY <1>17, <2>1 DEF Reopens, Told
<1>. QED
  BY <1>2, <1>3, <1>5, <1>6, <1>8, <1>9, <1>10, <1>11, <1>12, <1>13, <1>14, <1>15, <1>16, <1>17
     DEF Next, Starting

-----------------------------------------------------------------------------
(* What the page waits for *)

\* The same requests and calls as far as somebody waits for them.
Awaits(kind) ==
  \/ polls = "armed"
  \/ \E i \in DOMAIN calls : calls[i].kind = kind \/ IsAwaited(calls[i])

LEMMA WaitingParts == Waiting <=> Excused \/ \A kind \in busy : Awaits(kind)
BY DEF Waiting, Awaits

LEMMA WaitingPartsLater == Waiting' <=> Excused' \/ \A kind \in busy' : Awaits(kind)'
BY DEF Waiting, Awaits

\* The same calls, of which the same are awaited.
LEMMA SameWaiting ==
  ASSUME Shown, Waiting, DOMAIN calls' = DOMAIN calls,
         \A i \in DOMAIN calls :
           /\ calls'[i].kind = calls[i].kind
           /\ calls'[i].cancelled = calls[i].cancelled,
         busy' = busy, shown' = shown, polls' = polls, Excused => Excused'
  PROVE  Shown' /\ Waiting'
<1>1. \A i \in DOMAIN calls : IsAwaited(calls'[i]) <=> IsAwaited(calls[i])
  BY DEF IsAwaited
<1>2. Shown'
  BY <1>1 DEF Shown
<1>3. \A kind : Awaits(kind) => Awaits(kind)'
  BY <1>1 DEF Awaits
<1>. QED
  BY <1>2, <1>3, WaitingParts, WaitingPartsLater

\* Another call, which starts nothing.
LEMMA AddedWaiting ==
  ASSUME TypeOK, Shown, Waiting, NEW c \in CallRecord, calls' = Append(calls, c),
         busy' = busy, shown' = shown,
         IF c.kind = "poll" THEN polls = "armed" /\ polls' = "idle" /\ ~c.cancelled
         ELSE polls' = polls,
         Excused => Excused'
  PROVE  Shown' /\ Waiting'
<1>. DEFINE n == Len(calls) + 1
<1>1. Len(calls) \in Nat /\ DOMAIN calls = 1 .. Len(calls)
  BY CallsFacts DEF TypeOK
<1>2. /\ DOMAIN calls' = DOMAIN calls \cup {n}
      /\ \A i \in DOMAIN calls : calls'[i] = calls[i]
      /\ calls'[n] = c
  BY <1>1, AppendFacts DEF TypeOK
<1>. HIDE DEF n
<1>3. IF IsAwaited(c) THEN polls = "armed" /\ polls' = "idle" ELSE polls' = polls
  BY DEF IsAwaited
<1>4. Shown'
  <2>1. CASE IsAwaited(c)
    <3>1. \A i \in DOMAIN calls : ~IsAwaited(calls'[i])
      BY <1>2, <1>3, <2>1 DEF Shown
    <3>. QED
      BY <1>2, <1>3, <2>1, <3>1 DEF Shown
  <2>2. CASE ~IsAwaited(c)
    <3>1. ASSUME NEW i \in DOMAIN calls', IsAwaited(calls'[i])
          PROVE  i \in DOMAIN calls /\ IsAwaited(calls[i])
      BY <1>2, <2>2, <3>1
    <3>. QED
      BY <1>3, <2>2, <3>1 DEF Shown
  <2>. QED
    BY <2>1, <2>2
<1>5. polls = "armed" => polls' = "armed" \/ IsAwaited(c)
  BY DEF IsAwaited
<1>6. \A kind : Awaits(kind) => Awaits(kind)'
  BY <1>2, <1>5 DEF Awaits
<1>. QED
  BY <1>4, <1>6, WaitingParts, WaitingPartsLater

LEMMA AnsweredWaiting ==
  ASSUME TypeOK, Shown, Waiting, Answered
  PROVE  Shown' /\ Waiting'
<1>. DEFINE c == Head(calls)
<1>1. c = calls[1] /\ c \in CallRecord /\ 1 \in DOMAIN calls /\ calls # <<>>
  BY HeadTypes DEF Answered
<1>2. \A i \in DOMAIN calls' :
        i \in Nat /\ i >= 1 /\ i + 1 \in DOMAIN calls /\ Same(calls'[i], calls[i + 1])
  BY AnsweredCalls, RestFacts
<1>3. Excused => Excused'
  BY AnsweredMishaps DEF Excused
<1>4. calls' = Tail(calls) =>
        \A i \in DOMAIN calls : i # 1 => i - 1 \in DOMAIN calls' /\ calls'[i - 1] = calls[i]
  <2>1. Len(calls) \in Nat /\ DOMAIN calls = 1 .. Len(calls)
    BY CallsFacts DEF TypeOK
  <2>. QED
    BY <1>1, <2>1, TailFacts DEF TypeOK
<1>. HIDE DEF c
<1>5. \A i \in DOMAIN calls' : IsAwaited(calls'[i]) => \E j \in DOMAIN calls : IsAwaited(calls[j])
  BY <1>2 DEF Same
<1>6. ASSUME calls' = Tail(calls), ~IsAwaited(c), busy' \subseteq busy, c.kind \notin busy',
             shown' = shown, polls' = polls
      PROVE  Shown' /\ Waiting'
  <2>1. Shown'
    BY <1>5, <1>6 DEF Shown
  <2>2. ASSUME NEW kind \in busy', Awaits(kind) PROVE Awaits(kind)'
    <3>1. CASE polls = "armed"
      BY <1>6, <3>1 DEF Awaits
    <3>2. ASSUME NEW i \in DOMAIN calls, calls[i].kind = kind \/ IsAwaited(calls[i]) PROVE Awaits(kind)'
      <4>1. i # 1
        BY <1>1, <1>6, <2>2, <3>2
      <4>. QED
        BY <1>4, <1>6, <3>2, <4>1 DEF Awaits
    <3>. QED
      BY <2>2, <3>1, <3>2 DEF Awaits
  <2>. QED
    BY <1>3, <1>6, <2>1, <2>2, WaitingParts, WaitingPartsLater
<1>7. ASSUME shown' # "none", polls' = "armed", \A i \in DOMAIN calls' : ~IsAwaited(calls'[i])
      PROVE  Shown' /\ Waiting'
  BY <1>7 DEF Shown, Waiting
<1>8. CASE AutosaveAnswered(c)
  <2>1. c.kind \notin busy' /\ ~IsAwaited(c)
    BY <1>8 DEF AutosaveAnswered, IsAwaited, working, TypeOK
  <2>. QED
    BY <1>6, <1>8, <2>1 DEF AutosaveAnswered, working
<1>9. CASE SaveAnswered(c)
  <2>1. c.kind \notin busy' /\ ~IsAwaited(c)
    BY <1>9 DEF SaveAnswered, IsAwaited, working, TypeOK
  <2>. QED
    BY <1>6, <1>9, <2>1 DEF SaveAnswered, working
<1>10. CASE StartAnswered(c)
  <2>1. CASE JobAnswered(c)
    <3>1. Tail(calls) \in Seq(CallRecord) /\ calls' = Cancelled(Tail(calls))
      BY <2>1, AnsweredCalls DEF JobAnswered, c
    <3>2. \A i \in DOMAIN calls' : ~IsAwaited(calls'[i])
      BY <3>1, CancelledFacts
    <3>3. CASE c.answer = "QUEUED"
      BY <1>7, <1>10, <2>1, <3>2, <3>3 DEF StartAnswered, JobAnswered, Unsettled, Rearmed
    <3>4. CASE c.answer # "QUEUED"
      <4>1. Excused'
        BY <2>1, <3>4 DEF JobAnswered, Excused
      <4>2. polls' = "idle"
        BY <2>1, <3>4 DEF JobAnswered, Unsettled, Rearmed
      <4>. QED
        BY <3>2, <4>1, <4>2 DEF Shown, Waiting
    <3>. QED
      BY <3>3, <3>4
  <2>2. CASE DoneAnswered(c)
    BY <1>6, <1>10, <2>2 DEF StartAnswered, DoneAnswered, IsAwaited
  <2>. QED
    BY <1>10, <2>1, <2>2 DEF StartAnswered
<1>11. CASE PollAnswered(c)
  <2>1. c.kind = "poll" /\ "poll" \notin busy
    BY <1>11 DEF PollAnswered, TypeOK
  <2>2. CASE c.cancelled
    BY <1>6, <1>11, <2>1, <2>2 DEF PollAnswered, IsAwaited, working
  <2>3. CASE ~c.cancelled
    <3>1. IsAwaited(calls[1]) /\ shown # "none"
      BY <1>1, <2>1, <2>3 DEF Shown, IsAwaited
    <3>6. \A i \in DOMAIN calls' : ~IsAwaited(calls'[i])
      <4>1. ASSUME NEW i \in DOMAIN calls', IsAwaited(calls'[i]) PROVE FALSE
        <5>1. IsAwaited(calls[i + 1]) /\ i + 1 \in DOMAIN calls /\ i + 1 # 1
          BY <1>2, <4>1 DEF Same
        <5>. QED
          BY <1>1, <3>1, <5>1 DEF Shown
      <4>. QED
        BY <4>1
    <3>2. CASE PollFailed /\ polls' = "armed"
      BY <1>7, <3>1, <3>2, <3>6 DEF PollFailed
    <3>3. CASE PollFailed /\ polls' # "armed"
      <4>1. busy' = {}
        BY <3>1, <3>3 DEF PollFailed, Rearmed
      <4>. QED
        BY <3>3, <3>6, <4>1 DEF Shown, Waiting
    <3>4. CASE PollTold(c.answer) /\ c.answer = "QUEUED"
      BY <1>7, <3>1, <3>4, <3>6 DEF PollTold, Unsettled, Rearmed
    <3>5. CASE PollTold(c.answer) /\ c.answer # "QUEUED"
      <4>1. busy' = {} /\ polls' = "idle"
        BY <3>5 DEF PollTold, Unsettled, Rearmed
      <4>. QED
        BY <3>6, <4>1 DEF Shown, Waiting
    <3>. QED
      BY <1>11, <2>3, <3>2, <3>3, <3>4, <3>5 DEF PollAnswered
  <2>. QED
    BY <2>2, <2>3
<1>. QED
  BY <1>8, <1>9, <1>10, <1>11 DEF Answered, c

LEMMA NextWaiting ==
  ASSUME TypeOK, Shown, Waiting, Next
  PROVE  Shown' /\ Waiting'
<1>1. ASSUME NEW v, Rendered(v) PROVE Shown' /\ Waiting'
  <2>1. DOMAIN calls' = DOMAIN calls /\ \A i \in DOMAIN calls : calls'[i].kind = calls[i].kind /\ ~IsAwaited(calls'[i])
    BY <1>1, CancelledFacts DEF Rendered, TypeOK
  <2>2. /\ shown' = shown /\ busy' = busy /\ polls' = IF shown # "none" THEN "armed" ELSE "idle"
        /\ Excused => Excused'
    <3>1. mishaps \subseteq mishaps'
      BY <1>1 DEF Rendered
    <3>. QED
      BY <1>1, <3>1 DEF Rendered, Excused
  <2>3. Shown'
    BY <2>1, <2>2 DEF Shown
  <2>4. ASSUME NEW kind, Awaits(kind) PROVE Awaits(kind)'
    <3>1. CASE shown # "none"
      BY <2>2, <3>1 DEF Awaits
    <3>2. CASE shown = "none"
      BY <2>1, <2>4, <3>2 DEF Awaits, Shown
    <3>. QED
      BY <3>1, <3>2
  <2>. QED
    BY <2>2, <2>3, <2>4, WaitingParts, WaitingPartsLater
<1>2. ASSUME NEW s \in Source, Edit(s) PROVE Shown' /\ Waiting'
  BY <1>1, <1>2 DEF Edit
<1>3. ASSUME NEW l \in Language, ChangeLanguage(l) PROVE Shown' /\ Waiting'
  BY <1>1, <1>3 DEF ChangeLanguage
<1>4. ASSUME NEW kind \in Kinds \ {"poll"}, NEW v \in Version, NEW n \in Nat, Calls(kind, v, n),
             busy' = busy, shown' = shown, polls' = polls, Excused => Excused'
      PROVE  Shown' /\ Waiting'
  <2>1. Call(kind, v, n) \in CallRecord /\ Call(kind, v, n).kind = kind
    BY NewCall
  <2>. QED
    BY <1>4, <2>1, AddedWaiting DEF Calls
<1>5. CASE TimerFires
  <2>1. timer.version \in Version /\ timer.number \in Nat
    BY <1>5 DEF TimerFires, TypeOK
  <2>. QED
    BY <1>4, <1>5, <2>1 DEF TimerFires, Kinds, working, history, Excused
<1>6. CASE SaveKey
  BY <1>4, <1>6 DEF SaveKey, Kinds, working, history, TypeOK, Excused
<1>7. ASSUME UNCHANGED <<calls, busy, shown, polls, mishaps>> PROVE Shown' /\ Waiting'
  BY <1>7 DEF Shown, Waiting, Excused
<1>8. CASE GoesOffline \/ StorageFills \/ Asks \/ SubmitsNothing
  BY <1>7, <1>8 DEF GoesOffline, StorageFills, Asks, SubmitsNothing, working, history
<1>9. CASE GoesOnline
  <2>1. CASE Changed(persisted, editor)
    BY <1>4, <1>9, <2>1 DEF GoesOnline, Kinds, TypeOK, working, Excused
  <2>2. CASE ~Changed(persisted, editor)
    BY <1>7, <1>9, <2>2 DEF GoesOnline, working
  <2>. QED
    BY <2>1, <2>2
<1>10. ASSUME NEW kind \in Starting, Starts(kind) PROVE Shown' /\ Waiting'
  <2>. DEFINE d == Call(kind, editor, 0)
              n == Len(calls) + 1
  <2>1. d \in CallRecord /\ d.kind = kind
    BY NewCall DEF Starting, Kinds, TypeOK
  <2>2. ~IsAwaited(d)
    BY <2>1 DEF IsAwaited, Starting
  <2>3. /\ DOMAIN calls' = DOMAIN calls \cup {n} /\ calls'[n] = d
        /\ \A i \in DOMAIN calls : calls'[i].kind = calls[i].kind /\ ~IsAwaited(calls'[i])
    <3>. DEFINE w == Cancelled(calls)
    <3>1. /\ w \in Seq(CallRecord) /\ Len(w) = Len(calls) /\ DOMAIN w = DOMAIN calls
          /\ Len(calls) \in Nat /\ DOMAIN calls = 1 .. Len(calls)
          /\ \A i \in DOMAIN calls : w[i].kind = calls[i].kind /\ ~IsAwaited(w[i])
      BY CancelledFacts, CallsFacts DEF TypeOK
    <3>2. calls' = Append(w, d)
      BY <1>10 DEF Starts
    <3>. HIDE DEF w, d
    <3>. QED
      BY <2>1, <3>1, <3>2
  <2>. HIDE DEF d, n
  <2>4. \A i \in DOMAIN calls' : ~IsAwaited(calls'[i])
    BY <2>2, <2>3
  <2>5. /\ polls' = "idle" /\ busy' = busy \cup {kind}
        /\ busy = {} \/ (Excused => Excused')
        /\ busy # {} /\ shown # "none" => Excused'
    BY <1>10 DEF Starts, Excused
  <2>6. Shown'
    BY <2>4, <2>5 DEF Shown
  <2>7. Awaits(kind)'
    BY <2>1, <2>3 DEF Awaits
  <2>8. ASSUME NEW k \in busy, shown = "none", Awaits(k) PROVE Awaits(k)'
    BY <2>3, <2>8 DEF Awaits, Shown
  <2>. QED
    BY <2>5, <2>6, <2>7, <2>8, WaitingParts, WaitingPartsLater
<1>11. CASE Polls
  <2>1. /\ Call("poll", editor, 0) \in CallRecord /\ Call("poll", editor, 0).kind = "poll"
        /\ ~Call("poll", editor, 0).cancelled
    BY NewCall DEF Kinds, TypeOK
  <2>. QED
    BY <1>11, <2>1, AddedWaiting DEF Polls, Calls, history, Excused
<1>12. CASE Handles \/ Refuses
  <2>1. PICK a \in {"ok", "stored", "failed", "QUEUED", "COMPLETED", "FAILED"} :
          calls' = [calls EXCEPT ![1].answer = a]
    BY <1>12 DEF Handles, Refuses, Statuses
  <2>2. /\ DOMAIN calls' = DOMAIN calls
        /\ \A i \in DOMAIN calls :
             calls'[i].kind = calls[i].kind /\ calls'[i].cancelled = calls[i].cancelled
    BY <1>12, <2>1, AnswerFacts DEF Handles, Refuses, TypeOK, CallRecord
  <2>3. busy' = busy /\ shown' = shown /\ polls' = polls /\ (Excused => Excused')
    BY <1>12 DEF Handles, Refuses, working, history, Excused
  <2>. QED
    BY <2>2, <2>3, SameWaiting
<1>13. CASE IsLost
  <2>1. \A i \in DOMAIN calls' :
          i \in Nat /\ i >= 1 /\ i + 1 \in DOMAIN calls /\ Same(calls'[i], calls[i + 1])
    BY <1>13, RestFacts DEF IsLost
  <2>2. Excused' /\ shown' = shown /\ polls' = polls
    BY <1>13 DEF IsLost, Excused, working
  <2>3. ASSUME NEW i \in DOMAIN calls', IsAwaited(calls'[i]), NEW j \in DOMAIN calls', IsAwaited(calls'[j])
        PROVE  shown # "none" /\ polls = "idle" /\ j = i
    <3>1. /\ i + 1 \in DOMAIN calls /\ IsAwaited(calls[i + 1])
          /\ j + 1 \in DOMAIN calls /\ IsAwaited(calls[j + 1])
      BY <2>1, <2>3 DEF Same
    <3>. QED
      BY <2>1, <3>1 DEF Shown
  <2>4. Shown'
    BY <2>2, <2>3 DEF Shown
  <2>. QED
    BY <2>2, <2>4 DEF Waiting
<1>14. CASE Answered
  BY <1>14, AnsweredWaiting
<1>15. ASSUME NEW kind, NEW status, JobSettles(kind, status) PROVE Shown' /\ Waiting'
  BY <1>7, <1>15 DEF JobSettles, working, history
<1>16. CASE Reopens
  <2>1. DOMAIN calls' = {}
    BY <1>16 DEF Reopens
  <2>2. \A kind \in busy' : polls' = "armed"
    BY <1>16 DEF Reopens, Active
  <2>3. polls' = "armed" => shown' # "none"
    BY <1>16 DEF Reopens, TypeOK
  <2>. QED
    BY <2>1, <2>2, <2>3 DEF Shown, Waiting
<1>. QED
  BY <1>2, <1>3, <1>5, <1>6, <1>8, <1>9, <1>10, <1>11, <1>12, <1>13, <1>14, <1>15, <1>16
     DEF Next, Starting

-----------------------------------------------------------------------------
(* Who carries the editor's version *)

Smooth == mishaps \cap {"undo", "failed", "lost"} = {}

\* Another call, of the same version or one that stores nothing.
LEMMA AddedCarried ==
  ASSUME TypeOK, Carried, NEW c, Added(c), c.kind = "poll" \/ c.version = editor,
         editor' = editor, draft' = draft, timer' = timer, Smooth' => Smooth
  PROVE  Carried'
<1>. DEFINE n == Len(calls) + 1
<1>1. /\ Len(calls) \in Nat /\ DOMAIN calls = 1 .. Len(calls)
      /\ Len(calls') = n /\ DOMAIN calls' = 1 .. n
  BY CallsFacts DEF TypeOK, Added
<1>2. /\ \A i \in DOMAIN calls : Same(calls'[i], calls[i])
      /\ calls'[n] = c
  BY DEF Added, AllSame
<1>. SUFFICES ASSUME Smooth', timer' = Null PROVE \E k \in 0 .. Len(calls') : Carries(k)'
  BY DEF Carried, Smooth
<1>3. PICK k \in 0 .. Len(calls) : Carries(k)
  BY DEF Carried, Smooth
<1>4. k \in 0 .. n /\ (k # 0 => k \in DOMAIN calls)
  BY <1>1
<1>5. ASSUME NEW j \in DOMAIN calls', j > k, Pending(calls'[j]) PROVE calls'[j].version = editor'
  <2>1. CASE j = n
    BY <1>2, <1>5, <2>1 DEF Pending, Stores
  <2>2. CASE j # n
    <3>1. j \in DOMAIN calls
      BY <1>1, <2>2
    <3>. QED
      BY <1>2, <1>3, <1>5, <3>1 DEF Carries, Pending, Stores, Same
  <2>. QED
    BY <2>1, <2>2
<1>6. Carries(k)'
  <2>1. CASE k = 0
    BY <1>3, <1>5, <2>1 DEF Carries
  <2>2. CASE k # 0
    BY <1>2, <1>3, <1>4, <1>5, <2>2 DEF Carries, Pending, Stores, Same
  <2>. QED
    BY <2>1, <2>2
<1>. QED
  BY <1>1, <1>4, <1>6

LEMMA TimerCarried ==
  ASSUME TypeOK, Sent, TimerFires
  PROVE  Carried'
<1>. DEFINE c == Call("auto", editor, latest)
<1>. PICK n \in Nat : n = Len(calls) + 1
  BY CallsFacts DEF TypeOK
<1>1. timer.version = editor /\ timer.number = latest /\ latest \in Nat /\ editor \in Version
  BY DEF TimerFires, TypeOK, Sent
<1>2. Added(c) /\ c.kind = "auto" /\ c.version = editor /\ c.answer = "none"
  BY <1>1, CallsAdded, NewCall DEF TimerFires, Kinds
<1>. HIDE DEF c
<1>3. /\ Len(calls) \in Nat /\ Len(calls') = n /\ DOMAIN calls' = 1 .. n
      /\ calls'[n] = c
  BY <1>2, CallsFacts DEF TypeOK, Added
<1>4. n \in 0 .. Len(calls') /\ n # 0 /\ \A j \in DOMAIN calls' : ~(j > n)
  BY <1>3
<1>5. editor' = editor
  BY DEF TimerFires
<1>6. Carries(n)'
  BY <1>2, <1>3, <1>4, <1>5 DEF Carries, Pending, Stores
<1>. QED
  BY <1>4, <1>6 DEF Carried

LEMMA RenderedCarried ==
  ASSUME TypeOK, NEW v \in Version, Rendered(v)
  PROVE  Carried'
<1>1. CASE Changed(persisted, v)
  <2>1. timer' = Numbered(v)
    BY <1>1 DEF Rendered
  <2>2. timer' # Null
    <3>1. Numbered(v) \in [version : Version, number : Nat]
      BY DEF Numbered, TypeOK
    <3>. QED
      BY <2>1, <3>1, WorkspaceAssumption DEF Version
  <2>. QED
    BY <2>1, <2>2 DEF Carried
<1>2. CASE ~Changed(persisted, v)
  <2>1. v = persisted /\ editor' = v /\ draft' = draft
    BY <1>2 DEF Changed, Rendered, TypeOK, Version, server
  <2>2. /\ DOMAIN calls' = DOMAIN calls
        /\ \A i \in DOMAIN calls : calls'[i].kind = calls[i].kind
    BY CancelledKept DEF Rendered, Kept, AllSame, Same
  <2>3. ASSUME "undo" \notin mishaps'
        PROVE  Carries(0)' /\ 0 \in 0 .. Len(calls')
    <3>1. v = draft /\ \A i \in DOMAIN calls : calls[i].kind = "poll"
      BY <1>2, <2>1, <2>3 DEF Rendered
    <3>2. \A i \in DOMAIN calls' : ~Pending(calls'[i])
      BY <2>2, <3>1 DEF Pending, Stores
    <3>3. Len(calls') \in Nat
      BY CancelledKept DEF Rendered, Kept
    <3>. QED
      BY <2>1, <3>1, <3>2, <3>3 DEF Carries, Pending, Stores
  <2>. QED
    BY <2>3 DEF Carried
<1>. QED
  BY <1>1, <1>2

\* What a call stores when it is done, or leaves as it is.
LEMMA EffectStores ==
  ASSUME TypeOK, NEW c \in CallRecord, NEW answer, Effect(c, answer)
  PROVE  /\ c.kind \in {"auto", "key", "sync", "run"} => draft' = c.version
         /\ c.kind = "submit" => draft' = draft \/ draft' = c.version
         /\ c.kind = "poll" => draft' = draft
<1>2. ASSUME NEW v, Stored(v) PROVE draft' = v
  BY <1>2 DEF Stored
<1>3. CASE c.kind = "poll"
  BY <1>3 DEF Effect
<1>4. CASE c.kind \in {"auto", "key", "sync"}
  BY <1>2, <1>4 DEF Effect
<1>5. CASE c.kind \in {"run", "submit"} /\ dispatch = "queued"
  BY <1>2, <1>5 DEF Effect, Queued, Repeats
<1>6. CASE c.kind \in {"run", "submit"} /\ dispatch = "inline"
  BY <1>2, <1>6 DEF Effect
<1>. QED
  BY <1>3, <1>4, <1>5, <1>6 DEF Effect, TypeOK

\* The first call is answered with its effect.
LEMMA EffectCarried ==
  ASSUME TypeOK, Carried, Handles, Head(calls).answer = "none",
         NEW a \in {"ok", "stored", "QUEUED", "COMPLETED", "FAILED"}, Effect(Head(calls), a),
         calls' = [calls EXCEPT ![1].answer = a]
  PROVE  Carried'
<1>1. Effect(Head(calls), a) /\ calls' = [calls EXCEPT ![1].answer = a]
  OBVIOUS
<1>2. /\ calls # <<>> /\ Head(calls) = calls[1] /\ calls[1] \in CallRecord
      /\ calls[1].answer = "none" /\ 1 \in DOMAIN calls
  BY HeadTypes DEF Handles
<1>3. /\ DOMAIN calls' = DOMAIN calls /\ Len(calls') = Len(calls)
      /\ calls'[1].answer = a
      /\ \A i \in DOMAIN calls : i # 1 => calls'[i] = calls[i]
  BY <1>1, <1>2, AnswerFacts DEF TypeOK, CallRecord
<1>4. /\ Len(calls) \in Nat /\ DOMAIN calls = 1 .. Len(calls)
      /\ editor' = editor /\ timer' = timer /\ mishaps' = mishaps
  BY CallsFacts DEF TypeOK, Handles, saving, history
<1>5. ~Pending(calls'[1])
  BY <1>3 DEF Pending
<1>. SUFFICES ASSUME Smooth, timer = Null PROVE \E k \in 0 .. Len(calls') : Carries(k)'
  BY <1>4 DEF Carried, Smooth
<1>6. PICK k \in 0 .. Len(calls) : Carries(k)
  BY DEF Carried, Smooth
<1>7. ASSUME k \in {0, 1} PROVE Carries(0)'
  <2>1. draft' = editor
    <3>1. CASE k = 1
      BY <1>1, <1>2, <1>6, <3>1, EffectStores DEF Carries, Pending, Stores, CallRecord, Kinds
    <3>2. CASE k = 0
      <4>1. draft = editor /\ (calls[1].kind # "poll" => calls[1].version = editor)
        BY <1>2, <1>6, <3>2 DEF Carries, Pending, Stores
      <4>. QED
        BY <1>1, <1>2, <4>1, EffectStores DEF CallRecord, Kinds
    <3>. QED
      BY <1>7, <3>1, <3>2
  <2>2. ASSUME NEW j \in DOMAIN calls', Pending(calls'[j]) PROVE calls'[j].version = editor
    <3>1. j # 1 /\ j > k
      BY <1>3, <1>4, <1>5, <1>7, <2>2
    <3>. QED
      BY <1>3, <1>6, <2>2, <3>1 DEF Carries
  <2>. QED
    BY <1>4, <2>1, <2>2 DEF Carries
<1>8. ASSUME k > 1 PROVE Carries(k)'
  <2>1. k \in DOMAIN calls /\ k # 1 /\ k # 0
    BY <1>4, <1>8
  <2>2. calls'[k] = calls[k]
    BY <1>3, <2>1
  <2>3. \A j \in DOMAIN calls' : j > k => calls'[j] = calls[j]
    BY <1>3, <1>4, <1>8
  <2>. QED
    BY <1>3, <1>4, <1>6, <2>1, <2>2, <2>3 DEF Carries
<1>. QED
  BY <1>3, <1>4, <1>6, <1>7, <1>8

LEMMA HandlesCarried ==
  ASSUME TypeOK, Carried, Handles
  PROVE  Carried'
<1>1. PICK a \in Statuses \cup {"ok", "stored"} :
        /\ \/ Head(calls).answer = "none" /\ Effect(Head(calls), a)
           \/ Head(calls).answer = "stored" /\ a = jobs[Head(calls).kind] /\ UNCHANGED server
        /\ calls' = [calls EXCEPT ![1].answer = a]
  BY DEF Handles
<1>2. CASE Head(calls).answer = "none" /\ Effect(Head(calls), a)
  BY <1>1, <1>2, EffectCarried DEF Statuses
<1>3. CASE Head(calls).answer = "stored" /\ UNCHANGED server
  <2>1. calls[1].answer = "stored" /\ calls[1] \in CallRecord
    BY <1>3, HeadTypes DEF Handles
  <2>2. /\ DOMAIN calls' = DOMAIN calls /\ Len(calls') = Len(calls) /\ Len(calls) \in Nat
        /\ DOMAIN calls = 1 .. Len(calls) /\ calls'[1].answer = a
        /\ \A i \in DOMAIN calls : i # 1 => calls'[i] = calls[i]
    BY <1>1, <2>1, AnswerFacts, CallsFacts DEF Handles, TypeOK, CallRecord, Statuses
  <2>3. /\ ~Pending(calls[1])
        /\ \A i \in DOMAIN calls' : Pending(calls'[i]) => i # 1
    <3>1. a # "none"
      BY <1>1 DEF Statuses
    <3>. QED
      BY <2>1, <2>2, <3>1 DEF Pending
  <2>4. /\ editor' = editor /\ timer' = timer /\ mishaps' = mishaps /\ draft' = draft
    BY <1>3 DEF Handles, saving, history, server
  <2>5. ASSUME NEW k \in 0 .. Len(calls), Carries(k) PROVE Carries(k)' /\ k \in 0 .. Len(calls')
    <3>1. k # 0 => k \in DOMAIN calls /\ k # 1
      BY <2>2, <2>3, <2>5 DEF Carries
    <3>2. k # 0 => calls'[k] = calls[k]
      BY <2>2, <3>1
    <3>3. \A j \in DOMAIN calls' : Pending(calls'[j]) => calls'[j] = calls[j]
      BY <2>2, <2>3
    <3>. QED
      BY <2>2, <2>4, <2>5, <3>1, <3>2, <3>3 DEF Carries
  <2>. QED
    BY <2>4, <2>5 DEF Carried
<1>. QED
  BY <1>1, <1>2, <1>3

LEMMA AnsweredCarried ==
  ASSUME TypeOK, Carried, Answered
  PROVE  Carried'
<1>1. /\ Head(calls) = calls[1] /\ 1 \in DOMAIN calls /\ calls[1].answer # "none"
      /\ Len(calls) \in Nat /\ DOMAIN calls = 1 .. Len(calls)
  BY HeadTypes, CallsFacts DEF Answered, TypeOK
<1>2. /\ Len(calls') = Len(calls) - 1 /\ DOMAIN calls' = 1 .. Len(calls) - 1
      /\ \A i \in DOMAIN calls' : Same(calls'[i], calls[i + 1])
  BY AnsweredCalls, RestFacts
<1>3. editor' = editor /\ timer' = timer /\ draft' = draft /\ (Smooth' => Smooth)
  BY AnsweredMishaps DEF Answered, server, Smooth
<1>. SUFFICES ASSUME Smooth, timer = Null PROVE \E k \in 0 .. Len(calls') : Carries(k)'
  BY <1>3 DEF Carried, Smooth
<1>4. PICK k \in 0 .. Len(calls) : Carries(k)
  BY DEF Carried, Smooth
<1>5. k # 1
  BY <1>1, <1>4 DEF Carries, Pending
<1>. DEFINE m == IF k = 0 THEN 0 ELSE k - 1
<1>6. m \in 0 .. Len(calls') /\ (m = 0 <=> k = 0) /\ (k # 0 => m + 1 = k)
  BY <1>1, <1>2, <1>5
<1>7. \A j \in DOMAIN calls' : j > m => j + 1 \in DOMAIN calls /\ j + 1 > k
  BY <1>1, <1>2, <1>6
<1>8. k # 0 => m \in DOMAIN calls' /\ Same(calls'[m], calls[k])
  BY <1>1, <1>2, <1>5, <1>6
<1>. HIDE DEF m
<1>9. Carries(m)'
  BY <1>2, <1>3, <1>4, <1>6, <1>7, <1>8 DEF Carries, Pending, Stores, Same
<1>. QED
  BY <1>6, <1>9

LEMMA NextCarried ==
  ASSUME TypeOK, Sent, Carried, Next
  PROVE  Carried'
<1>1. ASSUME NEW s \in Source, Edit(s) PROVE Carried'
  BY <1>1, EditorFacts, RenderedCarried DEF Edit
<1>2. ASSUME NEW l \in Language, ChangeLanguage(l) PROVE Carried'
  <2>1. PICK v \in Version : Rendered(v)
    BY <1>2, EditorFacts DEF ChangeLanguage, Version
  <2>. QED
    BY <2>1, RenderedCarried
<1>3. CASE TimerFires
  BY <1>3, TimerCarried
<1>4. ASSUME NEW kind \in Kinds, Added(Call(kind, editor, 0)),
             editor' = editor, draft' = draft, timer' = timer,
             Smooth' => Smooth
      PROVE  Carried'
  <2>1. Call(kind, editor, 0).version = editor
    BY NewCall DEF TypeOK
  <2>. QED
    BY <1>4, <2>1, AddedCarried
<1>5. CASE SaveKey
  BY <1>4, <1>5, CallsAdded DEF SaveKey, Kinds, TypeOK, server, history, Smooth
<1>6. ASSUME UNCHANGED <<editor, draft, timer, calls, mishaps>> PROVE Carried'
  BY <1>6 DEF Carried, Carries, Pending, Stores
<1>7. CASE GoesOffline \/ StorageFills \/ Asks \/ SubmitsNothing
  BY <1>6, <1>7 DEF GoesOffline, StorageFills, Asks, SubmitsNothing, saving, server, history
<1>8. CASE GoesOnline
  <2>1. CASE Changed(persisted, editor)
    BY <1>4, <1>8, <2>1, CallsAdded DEF GoesOnline, Kinds, TypeOK, server, Smooth
  <2>2. CASE ~Changed(persisted, editor)
    BY <1>6, <1>8, <2>2 DEF GoesOnline, server
  <2>. QED
    BY <2>1, <2>2
<1>9. ASSUME NEW kind \in Starting, Starts(kind) PROVE Carried'
  <2>1. Smooth' => Smooth
    BY <1>9 DEF Starts, Smooth
  <2>. QED
    BY <1>4, <1>9, <2>1, StartsAdded DEF Starts, Starting, Kinds, saving, server
<1>10. CASE Polls
  BY <1>4, <1>10, CallsAdded DEF Polls, Kinds, TypeOK, saving, server, history, Smooth
<1>11. CASE Handles
  BY <1>11, HandlesCarried
<1>12. ASSUME "failed" \in mishaps' \/ "lost" \in mishaps' PROVE Carried'
  BY <1>12 DEF Carried
<1>13. CASE Refuses
  BY <1>12, <1>13 DEF Refuses
<1>14. CASE IsLost
  BY <1>12, <1>14 DEF IsLost
<1>15. CASE Answered
  BY <1>15, AnsweredCarried
<1>16. ASSUME NEW kind, NEW status, JobSettles(kind, status) PROVE Carried'
  BY <1>6, <1>16 DEF JobSettles, saving, history
<1>17. CASE Reopens
  <2>1. CASE Restores
    <3>1. timer' \in [version : Version, number : Nat]
      BY <1>17, <2>1, EditorFacts DEF Reopens, Restores, TypeOK
    <3>. QED
      BY <3>1, WorkspaceAssumption DEF Carried, Version
  <2>2. CASE ~Restores
    <3>1. /\ calls' = <<>> /\ draft' = draft /\ editor' = draft
      BY <1>17, <2>2 DEF Reopens
    <3>2. Carries(0)' /\ 0 \in 0 .. Len(calls')
      BY <3>1 DEF Carries
    <3>. QED
      BY <3>2 DEF Carried
  <2>. QED
    BY <2>1, <2>2
<1>. QED
  BY <1>1, <1>2, <1>3, <1>5, <1>7, <1>8, <1>9, <1>10, <1>11, <1>13, <1>14, <1>15, <1>16, <1>17
     DEF Next, Starting

-----------------------------------------------------------------------------
(* What outlives the page *)

Endangered ==
  session = "ACTIVE" /\ Typed(editor.source) /\ storage = "works" /\ mishaps \cap {"undo", "sync"} = {}
Mirrored == mirror # Null /\ ~mirror.synced /\ mirror.source = editor.source
OnServer ==
  /\ ~Restores /\ draft.source = editor.source
  /\ \A i \in DOMAIN calls : Stores(calls[i]) => calls[i].version.source = editor.source

LEMMA RecoverableParts == Recoverable <=> (Endangered => Mirrored \/ OnServer)
BY DEF Recoverable, Endangered, Mirrored, OnServer

LEMMA RecoverablePartsLater == Recoverable' <=> (Endangered' => Mirrored' \/ OnServer')
BY DEF Recoverable, Endangered, Mirrored, OnServer

\* Every storing call there is then is one there is now, or carries the source.
LEMMA CallsRecoverable ==
  ASSUME Recoverable, editor'.source = editor.source, mirror' = mirror,
         Endangered' => Endangered,
         OnServer => draft'.source = editor.source,
         \A i \in DOMAIN calls' : Stores(calls'[i]) =>
           \/ calls'[i].version.source = editor.source
           \/ \E j \in DOMAIN calls : Stores(calls[j]) /\ calls'[i].version = calls[j].version
  PROVE  Recoverable'
<1>1. Mirrored => Mirrored'
  BY DEF Mirrored
<1>2. OnServer => OnServer'
  BY DEF OnServer, Restores
<1>. QED
  BY <1>1, <1>2, RecoverableParts, RecoverablePartsLater

LEMMA AddedRecoverable ==
  ASSUME TypeOK, Recoverable, NEW c, Added(c), c.kind = "poll" \/ c.version = editor,
         editor' = editor, UNCHANGED local, UNCHANGED server,
         mishaps \cap {"undo", "sync"} \subseteq mishaps'
  PROVE  Recoverable'
<1>1. \A i \in DOMAIN calls' :
        \/ calls'[i] = c
        \/ i \in DOMAIN calls /\ Same(calls'[i], calls[i])
  BY CallsFacts DEF TypeOK, Added, AllSame
<1>2. \A i \in DOMAIN calls' : Stores(calls'[i]) =>
           \/ calls'[i].version.source = editor.source
           \/ \E j \in DOMAIN calls : Stores(calls[j]) /\ calls'[i].version = calls[j].version
  BY <1>1 DEF Stores, Same
<1>3. /\ Endangered' => Endangered
      /\ OnServer => draft'.source = editor.source
      /\ mirror' = mirror
  BY DEF Endangered, OnServer, Typed, server, local
<1>. QED
  BY <1>2, <1>3, CallsRecoverable

LEMMA EffectRecoverable ==
  ASSUME TypeOK, Told, Shown, Recoverable, calls # <<>>, NEW a, Effect(Head(calls), a),
         editor' = editor, UNCHANGED local, mishaps \subseteq mishaps',
         \A i \in DOMAIN calls' : Stores(calls'[i]) =>
           \E j \in DOMAIN calls : Stores(calls[j]) /\ calls'[i].version = calls[j].version
  PROVE  Recoverable'
<1>1. Head(calls) = calls[1] /\ 1 \in DOMAIN calls /\ calls[1] \in CallRecord
  BY HeadTypes
<1>2. draft' \in {draft, calls[1].version} /\ (calls[1].kind = "poll" => draft' = draft)
  BY <1>1, EffectStores DEF CallRecord, Kinds
<1>3. OnServer => draft'.source = editor.source
  BY <1>1, <1>2 DEF OnServer, Stores
<1>4. session' = "ACTIVE" => session = "ACTIVE"
  <2>1. IsAwaited(calls[1]) => shown # "none"
    BY <1>1 DEF Shown
  <2>. QED
    BY <1>1, <2>1, EffectTold DEF TypeOK
<1>5. (Endangered' => Endangered) /\ mirror' = mirror
  BY <1>4 DEF Endangered, Typed, local
<1>. QED
  BY <1>3, <1>5, CallsRecoverable

LEMMA LocalCopy ==
  ASSUME NEW s \in Source
  PROVE  [source |-> s, synced |-> FALSE] # Null
<1>1. [source |-> s, synced |-> FALSE] \in [source : Source, synced : BOOLEAN]
  OBVIOUS
<1>. QED
  BY <1>1, WorkspaceAssumption

LEMMA AnsweredRecoverable ==
  ASSUME TypeOK, Sent, Told, Recoverable, Answered
  PROVE  Recoverable'
<1>. DEFINE c == calls[1]
<1>1. /\ Head(calls) = c /\ 1 \in DOMAIN calls /\ c \in CallRecord
      /\ \A i \in DOMAIN calls' :
           i \in Nat /\ i + 1 \in DOMAIN calls /\ Same(calls'[i], calls[i + 1]) /\ i + 1 >= 1
  BY HeadTypes, AnsweredCalls, RestFacts DEF Answered
<1>2. editor' = editor /\ draft' = draft /\ session' = session /\ storage' = storage
  BY DEF Answered, server
<1>3. Endangered' <=> Endangered
  BY <1>2, AnsweredMishaps DEF Endangered, Typed
<1>4. ASSUME mirror' = mirror PROVE Recoverable'
  <2>1. \A i \in DOMAIN calls' : Stores(calls'[i]) =>
           \E j \in DOMAIN calls : Stores(calls[j]) /\ calls'[i].version = calls[j].version
    BY <1>1 DEF Same, Stores
  <2>2. OnServer => draft'.source = editor.source
    BY <1>2 DEF OnServer
  <2>. QED
    BY <1>2, <1>3, <1>4, <2>1, <2>2, CallsRecoverable
<1>5. ASSUME ~Endangered PROVE Recoverable'
  BY <1>3, <1>5, RecoverablePartsLater
<1>6. CASE AutosaveAnswered(c)
  <2>1. CASE ~IsLatest(c)
    BY <1>4, <1>6, <2>1 DEF AutosaveAnswered
  <2>2. CASE IsLatest(c) /\ Endangered
    <3>1. "undo" \notin mishaps
      BY <2>2 DEF Endangered
    <3>2. \A j \in DOMAIN calls : j >= 1 /\ Stores(calls[j]) => calls[j].version = editor
      BY <1>1, <1>6, <2>2, <3>1 DEF Sent, IsLatest, AutosaveAnswered
    <3>3. c.version = editor
      BY <1>1, <1>6, <3>2 DEF Stores, AutosaveAnswered
    <3>4. mirror' = Mirror(editor, c.answer = "ok")
      BY <1>6, <2>2, <3>3 DEF AutosaveAnswered, Copied, Endangered
    <3>5. CASE c.answer = "ok"
      <4>1. draft = editor
        BY <1>1, <1>6, <3>3, <3>5 DEF Told, AutosaveAnswered
      <4>2. mirror'.synced
        BY <3>4, <3>5 DEF Mirror
      <4>3. \A i \in DOMAIN calls' : Stores(calls'[i]) => calls'[i].version = editor
        BY <1>1, <3>2 DEF Same, Stores
      <4>4. OnServer'
        BY <1>2, <4>1, <4>2, <4>3 DEF OnServer, Restores, Stores
      <4>. QED
        BY <4>4, RecoverablePartsLater
    <3>6. CASE c.answer # "ok"
      <4>1. mirror' = [source |-> editor.source, synced |-> FALSE]
        BY <3>4, <3>6 DEF Mirror
      <4>2. mirror' # Null
        BY <4>1, EditorFacts, LocalCopy
      <4>3. Mirrored'
        BY <1>2, <4>1, <4>2 DEF Mirrored
      <4>. QED
        BY <4>3, RecoverablePartsLater
    <3>. QED
      BY <3>5, <3>6
  <2>. QED
    BY <1>5, <2>1, <2>2
<1>7. CASE SaveAnswered(c)
  <2>1. CASE c.kind = "sync"
    BY <1>1, <1>5, <2>1 DEF Sent, Endangered
  <2>2. CASE c.kind # "sync"
    BY <1>4, <1>7, <2>2 DEF SaveAnswered
  <2>. QED
    BY <2>1, <2>2
<1>8. CASE StartAnswered(c)
  <2>1. CASE c.kind = "submit" /\ c.answer = "ok"
    BY <1>1, <1>5, <2>1 DEF Told, Endangered
  <2>2. CASE ~(c.kind = "submit" /\ c.answer = "ok")
    BY <1>4, <1>8, <2>2 DEF StartAnswered, JobAnswered, DoneAnswered
  <2>. QED
    BY <2>1, <2>2
<1>9. CASE PollAnswered(c)
  <2>1. CASE ~c.cancelled /\ c.answer = "COMPLETED" /\ shown = "submit"
    <3>1. session = "SUBMITTED"
      BY <1>1, <1>9, <2>1 DEF Told, PollAnswered, IsAwaited
    <3>. QED
      BY <1>5, <3>1 DEF Endangered
  <2>2. CASE ~(~c.cancelled /\ c.answer = "COMPLETED" /\ shown = "submit")
    BY <1>4, <1>9, <2>2 DEF PollAnswered, PollFailed, PollTold, Closes
  <2>. QED
    BY <2>1, <2>2
<1>. QED
  BY <1>1, <1>6, <1>7, <1>8, <1>9 DEF Answered

LEMMA NextRecoverable ==
  ASSUME TypeOK, Sent, Told, Shown, Recoverable, Next
  PROVE  Recoverable'
<1>1. ASSUME NEW s \in Source, Edit(s) PROVE Recoverable'
  <2>. DEFINE v == [editor EXCEPT !.source = s]
  <2>1. v \in Version
    BY EditorFacts
  <2>2. /\ editor' = v /\ storage' = storage
        /\ storage = "works" => mirror' = [source |-> v.source, synced |-> FALSE]
    BY <1>1 DEF Edit, Copied, Mirror, Rendered
  <2>3. [source |-> v.source, synced |-> FALSE] # Null
    BY <2>1, LocalCopy DEF Version
  <2>. HIDE DEF v
  <2>4. storage = "works" => Mirrored'
    BY <2>2, <2>3 DEF Mirrored
  <2>. QED
    BY <2>2, <2>4, RecoverablePartsLater DEF Endangered
<1>2. ASSUME NEW l \in Language, ChangeLanguage(l) PROVE Recoverable'
  <2>1. PICK v \in Version : Rendered(v) /\ v.source \in {Starter[l], editor.source}
    BY <1>2, EditorFacts DEF ChangeLanguage, Version
  <2>2. /\ editor' = v /\ mirror' = mirror /\ session' = session /\ draft' = draft
        /\ storage' = storage
    BY <1>2, <2>1 DEF ChangeLanguage, Rendered, server
  <2>3. mishaps \subseteq mishaps'
    BY <2>1 DEF Rendered
  <2>4. CASE Typed(v.source)
    <3>1. v.source = editor.source
      BY <2>1, <2>4 DEF Typed
    <3>2. Endangered' => Endangered
      BY <2>2, <2>3, <3>1 DEF Endangered, Typed
    <3>3. \A i \in DOMAIN calls' : Stores(calls'[i]) =>
           \E j \in DOMAIN calls : Stores(calls[j]) /\ calls'[i].version = calls[j].version
      BY <2>1, CancelledKept DEF Rendered, Kept, AllSame, Same, Stores
    <3>. QED
      BY <2>2, <3>1, <3>2, <3>3, CallsRecoverable DEF OnServer
  <2>5. CASE ~Typed(v.source)
    BY <2>2, <2>5, RecoverablePartsLater DEF Endangered, Typed
  <2>. QED
    BY <2>4, <2>5
<1>3. ASSUME NEW kind \in Kinds, NEW n \in Nat, Added(Call(kind, editor, n)),
             editor' = editor, UNCHANGED local, UNCHANGED server,
             mishaps \cap {"undo", "sync"} \subseteq mishaps'
      PROVE  Recoverable'
  <2>1. Call(kind, editor, n).version = editor
    BY NewCall DEF TypeOK
  <2>. QED
    BY <1>3, <2>1, AddedRecoverable
<1>4. CASE TimerFires
  <2>1. timer.version = editor /\ timer.number \in Nat /\ editor \in Version
    BY <1>4 DEF TimerFires, TypeOK, Sent
  <2>2. Added(Call("auto", editor, timer.number))
    BY <1>4, <2>1, CallsAdded DEF TimerFires, Kinds
  <2>. QED
    BY <1>3, <1>4, <2>1, <2>2 DEF TimerFires, Kinds, history
<1>5. CASE SaveKey
  BY <1>3, <1>5, CallsAdded DEF SaveKey, Kinds, TypeOK, history
<1>6. ASSUME UNCHANGED <<editor, draft, mirror, calls>>, Endangered' => Endangered PROVE Recoverable'
  BY <1>6 DEF Recoverable, Endangered, Restores, Stores
<1>7. CASE GoesOffline \/ Asks \/ SubmitsNothing
  <2>1. /\ UNCHANGED <<editor, calls, mishaps>> /\ local' = local /\ server' = server
    BY <1>7 DEF GoesOffline, Asks, SubmitsNothing, history
  <2>. QED
    BY <1>6, <2>1 DEF server, local, Endangered, Typed
<1>18. CASE StorageFills
  BY <1>18, RecoverablePartsLater DEF StorageFills, Endangered
<1>8. CASE GoesOnline
  <2>1. CASE Changed(persisted, editor)
    BY <1>8, <2>1, RecoverablePartsLater DEF GoesOnline, Endangered
  <2>2. CASE ~Changed(persisted, editor)
    BY <1>6, <1>8, <2>2 DEF GoesOnline, server, local, Endangered, Typed
  <2>. QED
    BY <2>1, <2>2
<1>9. ASSUME NEW kind \in Starting, Starts(kind) PROVE Recoverable'
  <2>1. mishaps \cap {"undo", "sync"} \subseteq mishaps'
    BY <1>9 DEF Starts
  <2>. QED
    BY <1>3, <1>9, <2>1, StartsAdded DEF Starts, Starting, Kinds
<1>10. CASE Polls
  BY <1>3, <1>10, CallsAdded DEF Polls, Kinds, TypeOK, history
<1>11. ASSUME NEW a \in {"ok", "stored", "failed", "QUEUED", "COMPLETED", "FAILED"}, calls # <<>>,
              calls' = [calls EXCEPT ![1].answer = a]
       PROVE  \A i \in DOMAIN calls' : Stores(calls'[i]) =>
                \E j \in DOMAIN calls : Stores(calls[j]) /\ calls'[i].version = calls[j].version
  <2>1. calls[1] \in CallRecord
    BY <1>11, HeadTypes
  <2>. QED
    BY <1>11, <2>1, AnswerFacts DEF TypeOK, CallRecord, Stores
<1>12. CASE Handles
  <2>1. PICK a \in Statuses \cup {"ok", "stored"} :
          /\ Effect(Head(calls), a) \/ UNCHANGED server
          /\ calls' = [calls EXCEPT ![1].answer = a]
    BY <1>12 DEF Handles
  <2>2. \A i \in DOMAIN calls' : Stores(calls'[i]) =>
           \E j \in DOMAIN calls : Stores(calls[j]) /\ calls'[i].version = calls[j].version
    BY <1>11, <1>12, <2>1 DEF Handles, Statuses
  <2>3. calls # <<>> /\ editor' = editor /\ UNCHANGED local /\ mishaps' = mishaps
    BY <1>12 DEF Handles, history
  <2>4. CASE Effect(Head(calls), a)
    BY <2>2, <2>3, <2>4, EffectRecoverable
  <2>5. CASE UNCHANGED server
    <3>1. /\ Endangered' => Endangered
          /\ OnServer => draft'.source = editor.source
          /\ mirror' = mirror
      BY <2>3, <2>5 DEF Endangered, Typed, OnServer, server, local
    <3>. QED
      BY <2>2, <2>3, <3>1, CallsRecoverable
  <2>. QED
    BY <2>1, <2>4, <2>5
<1>13. CASE Refuses
  <2>1. /\ mishaps \subseteq mishaps' /\ editor' = editor /\ UNCHANGED server
        /\ mirror' = mirror /\ storage' = storage
    BY <1>13 DEF Refuses, local
  <2>2. (Endangered' => Endangered) /\ (OnServer => draft'.source = editor.source)
    BY <2>1 DEF Endangered, Typed, OnServer, server
  <2>. QED
    BY <1>11, <1>13, <2>1, <2>2, CallsRecoverable DEF Refuses
<1>14. CASE IsLost
  <2>1. /\ mishaps \subseteq mishaps' /\ editor' = editor
        /\ mirror' = mirror /\ storage' = storage
    BY <1>14 DEF IsLost, local
  <2>2. \A i \in DOMAIN calls' : Stores(calls'[i]) =>
           \E j \in DOMAIN calls : Stores(calls[j]) /\ calls'[i].version = calls[j].version
    BY <1>14, TailFacts DEF IsLost, TypeOK
  <2>3. CASE UNCHANGED server
    <3>1. (Endangered' => Endangered) /\ (OnServer => draft'.source = editor.source)
      BY <2>1, <2>3 DEF Endangered, Typed, OnServer, server
    <3>. QED
      BY <2>1, <2>2, <3>1, CallsRecoverable
  <2>4. CASE \E a \in {"ok", "stored"} : Effect(Head(calls), a)
    BY <1>14, <2>1, <2>2, <2>4, EffectRecoverable DEF IsLost, local
  <2>. QED
    BY <1>14, <2>3, <2>4 DEF IsLost
<1>15. CASE Answered
  BY <1>15, AnsweredRecoverable
<1>16. ASSUME NEW kind, NEW status, JobSettles(kind, status) PROVE Recoverable'
  <2>1. session' = "ACTIVE" => session = "ACTIVE"
    BY <1>16 DEF JobSettles
  <2>. QED
    BY <1>6, <1>16, <2>1 DEF JobSettles, history, local, Endangered, Typed
<1>17. CASE Reopens
  <2>1. /\ DOMAIN calls' = {} /\ mirror' = mirror /\ draft' = draft
    BY <1>17 DEF Reopens, local
  <2>2. CASE Restores
    <3>1. editor'.source = mirror.source
      BY <1>17, <2>2 DEF Reopens, TypeOK, Version
    <3>2. Mirrored'
      BY <2>1, <2>2, <3>1 DEF Restores, Mirrored
    <3>. QED
      BY <3>2, RecoverablePartsLater
  <2>3. CASE ~Restores
    <3>1. editor' = draft
      BY <1>17, <2>3 DEF Reopens
    <3>2. OnServer'
      BY <2>1, <2>3, <3>1 DEF Restores, OnServer
    <3>. QED
      BY <3>2, RecoverablePartsLater
  <2>. QED
    BY <2>2, <2>3
<1>. QED
  BY <1>1, <1>2, <1>4, <1>5, <1>7, <1>8, <1>9, <1>10, <1>12, <1>13, <1>14, <1>15, <1>16, <1>17, <1>18
     DEF Next, Starting

-----------------------------------------------------------------------------
(* The theorems *)

LEMMA InitInv == Init => Inv
<1>. SUFFICES ASSUME Init PROVE Inv
  OBVIOUS
<1>1. calls = <<>> /\ DOMAIN calls = {} /\ Len(calls) = 0 /\ calls \in Seq(CallRecord)
  BY DEF Init
<1>2. draft \in Version /\ ~Typed(editor.source)
  BY WorkspaceAssumption DEF Init, Version, Typed
<1>3. TypeOK
  BY <1>1, <1>2 DEF Init, TypeOK
<1>4. Sent /\ Told /\ Shown /\ Waiting
  BY <1>1 DEF Init, Sent, Told, Shown, Waiting
<1>5. Carried
  BY <1>1 DEF Init, Carried, Carries
<1>6. Recoverable
  BY <1>2 DEF Recoverable
<1>. QED
  BY <1>3, <1>4, <1>5, <1>6 DEF Inv

LEMMA StutterInv == Inv /\ UNCHANGED vars => Inv'
<1>. SUFFICES ASSUME Inv, UNCHANGED vars PROVE Inv'
  OBVIOUS
<1>. USE DEF vars, saving, working, local, server, history
<1>1. TypeOK'
  BY DEF Inv, TypeOK
<1>2. Sent' /\ Told'
  BY DEF Inv, Sent, Told, Stores, IsAwaited
<1>3. Shown' /\ Waiting'
  BY DEF Inv, Shown, Waiting, Excused, IsAwaited
<1>4. Carried'
  BY DEF Inv, Carried, Carries, Pending, Stores
<1>5. Recoverable'
  BY DEF Inv, Recoverable, Restores, Typed, Stores
<1>. QED
  BY <1>1, <1>2, <1>3, <1>4, <1>5 DEF Inv

\* In every state of the page and its server the calls carry what the page had,
\* answers tell what is so, a busy page waits for something, and the editor's
\* version and source are not left behind.
THEOREM Invariance == Spec => []Inv
<1>1. Inv /\ [Next]_vars => Inv'
  <2>1. Inv /\ Next => Inv'
    BY NextTypes, NextSent, NextTold, NextWaiting, NextCarried, NextRecoverable DEF Inv
  <2>. QED
    BY <2>1, StutterInv
<1>. QED
  BY <1>1, InitInv, PTL DEF Spec

\* Once nothing is under way, a page that shows "All changes saved" shows what the
\* server has, whatever was typed, run, submitted and polled before; and it closes
\* the editor for a submission only.
THEOREM PageSettlesSaved == Spec => []SettledIsSaved
<1>1. Inv => SettledIsSaved
  <2>. SUFFICES ASSUME Inv PROVE SettledIsSaved
    OBVIOUS
  <2>1. closed => session = "SUBMITTED"
    BY DEF Inv, Told
  <2>2. ASSUME Settled, mishaps \cap {"undo", "failed", "lost"} = {} PROVE editor = draft
    <3>1. PICK k \in 0 .. Len(calls) : Carries(k)
      BY <2>2 DEF Inv, Carried, Settled
    <3>2. k = 0
      BY <2>2, <3>1 DEF Settled
    <3>. QED
      BY <3>1, <3>2 DEF Carries
  <2>. QED
    BY <2>1, <2>2 DEF SettledIsSaved
<1>. QED
  BY <1>1, Invariance, PTL

\* What was typed into the editor survives refused and lost calls and closed pages
\* as long as the browser's storage works: the server has it, or the local copy that
\* the next page restores.  (Neither need have a blank source.)
THEOREM TypedIsRecoverable == Spec => []SourceRecoverable
<1>1. Inv => SourceRecoverable
  <2>. SUFFICES ASSUME Inv PROVE SourceRecoverable
    OBVIOUS
  <2>1. CASE ~Restores
    BY <2>1 DEF Inv, Recoverable, SourceRecoverable, Restores, Typed
  <2>2. CASE Restores
    BY <2>2 DEF Inv, Recoverable, SourceRecoverable
  <2>. QED
    BY <2>1, <2>2
<1>. QED
  BY <1>1, Invariance, PTL

\* A page busy with a run or a submission has that call under way, or asks for the
\* status of the job it shows; unless an answer was lost, a submission took the place
\* of a run being waited for, or the job was settled already when it was answered.
THEOREM BusyForSomething == Spec => []NeverStuck
<1>1. Inv => NeverStuck
  BY DEF Inv, Waiting, Excused, NeverStuck
<1>. QED
  BY <1>1, Invariance, PTL
=============================================================================
