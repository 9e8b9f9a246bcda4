----------------------------- MODULE MatchSync -----------------------------
(***************************************************************************)
(* How a web device sends one match's boards and results: MatchSync in     *)
(* scoring/sync.ts, over scoring/boards.ts (each tab's memory) and         *)
(* scoring/results.ts (the outbox that tabs share in localStorage).        *)
(*                                                                         *)
(* JavaScript runs a callback to its end, so one action is one callback: a *)
(* save, an answer, a timer, an event, a granted lock or a React effect.   *)
(* The server answers when it likes, and a device that stopped waiting     *)
(* doesn't stop a request. How long a wait lasts is left out.              *)
(***************************************************************************)
EXTENDS Naturals, SequencesExt

CONSTANTS
  Tab,
  Draft,      \* boards that are not results
  Envelope,   \* signed results
  Ours,       \* those this device may submit or approve
  content,    \* each envelope's payload, what that replaces, and who signed
  None,
  Scenes      \* what may happen in a behaviour of a model, and its bounds

Side == {1, 2}
Payload == {content[e].payload : e \in Envelope}

\* A board is a fragment's text, which may be an envelope.
Board == Draft \cup Envelope
Message == [kind : {"board"}, text : Board] \cup [kind : {"result"}, text : Ours]

\* What a request comes to, what the pad may say of a board, and a MatchSync's
\* fields.
Reply == {"ok", "final", "refused", "stale", "notAllowed", "failed", "limited"}
Refusal == {"final", "other"}
SyncState ==
  [state : {"idle", "sending", "waitingOnline", "backoff", "rateLimited", "notYet"},
   sent : Message \cup {None}, reply : Reply \cup {None}, stale : SUBSET Envelope]

ASSUME SyncAssumption ==
  /\ Ours \subseteq Envelope
  /\ Draft \cap Envelope = {}
  /\ None \notin Draft \cup Envelope \cup Payload \cup Message \cup Reply \cup Refusal \cup SyncState
  /\ None \notin Seq(Ours)
  /\ \A e \in Envelope : /\ content[e].replaces \in Payload \cup {None}
                         /\ content[e].signers \in SUBSET Side \ {{}}
  /\ \A s \in Scenes :
       /\ s.tabs \subseteq Tab /\ s.illegal \subseteq Envelope
       /\ s.trouble \subseteq {"offline", "lost", "busy", "session", "page", "permission",
                              "days", "slowLock"}
       /\ {s.saves, s.reloads, s.fails} \subseteq Nat

VARIABLES
  scene,     \* the open tabs, the envelopes the server refuses for good, what
             \* else may go wrong, or the user may do, and how often
  boards,    \* scoring/boards.ts, by tab
  sync,      \* the tab's MatchSync, or None
  holders,   \* who holds the sync: Root and the scoring page
  enabled,   \* the tabs with a session loaded: signedIn and resultsEnabled
  jobs,      \* changes to the outbox that wait for the Web Lock, by tab
  memory,    \* `fallback` of a tab whose storage failed, else None
  news,      \* tabs with a storage event to hear
  outbox,    \* localStorage
  online,    \* navigator.onLine
  late,      \* requests on their way that nothing waits for
  head,      \* the payload at the head of the server's chain
  signed,    \* the sides whose signatures the server has, by payload
  board,     \* the board the server took last
  allowed,   \* whether the key is registered and the account may score
  old,       \* envelopes signed more than a day ago
  newest,    \* history: the last board saved in the tab
  landed,    \* history: boards the server took
  made,      \* history: envelopes this device signed
  kept,      \* history: envelopes that reached localStorage
  saves, reloads, fails  \* counters for the bounds

tabVars == <<boards, sync, holders, enabled, jobs, memory, news>>
serverVars == <<head, signed, board, landed>>
worldVars == <<online, allowed, old>>
bounds == <<saves, reloads, fails>>
restVars == <<worldVars, newest, made, kept, bounds>>
allButSync == <<boards, holders, enabled, jobs, memory, news, outbox, late, serverVars,
                restVars>>
moving == <<tabVars, outbox, late, serverVars, restVars>>
vars == <<scene, moving>>

-----------------------------------------------------------------------------
NoBoards == [pending |-> None, synced |-> None, refused |-> None]
NewSync == [state |-> "idle", sent |-> None, reply |-> None, stale |-> {}]

\* read() for this match, which trusts storage until a write fails.
ResultsOf(t) == IF memory[t] = None THEN outbox ELSE memory[t]

\* Results go only while a session is loaded.
Sendable(t, queued) == IF t \in enabled THEN queued ELSE <<>>
SendableNow(t) == Sendable(t, ResultsOf(t))

\* nextResult(): the oldest queued result not yet stale in this pass.
NextResult(s, queued) ==
  LET fresh == {i \in DOMAIN queued : queued[i] \notin s.stale}
  IN IF fresh = {} THEN None ELSE queued[Min(fresh)]

Sending(s, kind, text) ==
  [s EXCEPT !.state = "sending", !.sent = [kind |-> kind, text |-> text], !.reply = None]

Idle(s) == [s EXCEPT !.state = "idle", !.sent = None, !.reply = None]
Enter(s, state) == [Idle(s) EXCEPT !.state = state]

\* nextStep(): what an idle sync does next. The board goes first.
NextStep(pending, result) ==
  CASE pending = None /\ result = None -> "rest"
    [] ~(pending = None /\ result = None) /\ ~online -> "waitOnline"
    [] online /\ pending # None -> "sendBoard"
    [] online /\ pending = None /\ result # None -> "sendResult"

\* step(), with this pending board and these results to send.
Step(s, pending, queued) ==
  LET result == NextResult(s, queued)
      next == NextStep(pending, result)
  IN IF s.state # "idle" \/ next = "rest" THEN s
     ELSE IF next = "waitOnline" THEN Enter(s, "waitingOnline")
     ELSE IF next = "sendBoard" THEN Sending(s, "board", pending)
     ELSE Sending(s, "result", result)

\* The constructor's saved(): a retry keeps its backoff, but for a result
\* that isn't taken yet.
Saved(s, pending, queued) ==
  IF s = None THEN None
  ELSE Step(IF s.state \in {"waitingOnline", "notYet"} THEN Idle(s) ELSE s, pending, queued)

\* Mutant of Kicked: a wake-up cuts a 429's wait short too.
KickedAny(s, pending, queued) ==
  Step(IF s.state \in {"waitingOnline", "notYet", "backoff", "rateLimited"} THEN Idle(s) ELSE s,
       pending, queued)

\* kick(): anything but a 429's wait ends.
Kicked(s, pending, queued) ==
  Step(IF s.state \in {"waitingOnline", "notYet", "backoff"} THEN Idle(s) ELSE s,
       pending, queued)

\* A sync that stops leaves its request to its fate.
Abandoned(s) ==
  IF s # None /\ s.state = "sending" /\ s.reply = None THEN {s.sent} ELSE {}

-----------------------------------------------------------------------------
Init ==
  /\ scene \in Scenes
  /\ boards = [t \in Tab |-> NoBoards]
  /\ sync = [t \in Tab |-> None]
  /\ holders = [t \in Tab |-> {}]
  /\ enabled = scene.tabs
  /\ jobs = [t \in Tab |-> <<>>]
  /\ memory = [t \in Tab |-> None]
  /\ news = {}
  /\ outbox = <<>>
  /\ online \in {TRUE, "offline" \notin scene.trouble}
  /\ late = {}
  /\ head = None
  /\ signed = [p \in Payload |-> {}]
  /\ board = None
  /\ allowed \in {TRUE, "permission" \notin scene.trouble}
  /\ old = {}
  /\ newest = [t \in Tab |-> None]
  /\ landed = {}
  /\ made = {}
  /\ kept = {}
  /\ saves = 0 /\ reloads = 0 /\ fails = 0

\* saveBoard() and the listeners it calls.
PutBoard(t, b) ==
  /\ boards[t].pending # b
  /\ boards' = [boards EXCEPT ![t].pending = b]
  /\ newest' = [newest EXCEPT ![t] = b]
  /\ sync' = [sync EXCEPT ![t] = Saved(@, b, SendableNow(t))]

\* An entered score or an ended game saves a draft.
SaveBoard(t, b) ==
  /\ saves < scene.saves
  /\ saves' = saves + 1
  /\ PutBoard(t, b)
  /\ UNCHANGED <<holders, enabled, jobs, memory, news, outbox, late, serverVars, worldVars,
                 made, kept, reloads, fails>>

Adding(e) == [op |-> "add", envelope |-> e]
Removing(e) == [op |-> "remove", envelope |-> e]

\* useSubmitResult(): the signed result is both a board and a result.
Submit(t, e) ==
  /\ e \notin made
  /\ made' = made \cup {e}
  /\ PutBoard(t, e)
  /\ jobs' = [jobs EXCEPT ![t] = Append(@, Adding(e))]
  /\ UNCHANGED <<holders, enabled, memory, news, outbox, late, serverVars, worldVars,
                 kept, bounds>>

\* AcceptResult: the link's result, then the same with this side's signature.
Approve(t, e, f) ==
  /\ f \notin made
  /\ made' = made \cup {f}
  /\ content[e].payload = content[f].payload
  /\ content[e].signers # Side /\ content[f].signers = Side
  /\ jobs' = [jobs EXCEPT ![t] = @ \o <<Adding(e), Adding(f)>>]
  /\ UNCHANGED <<boards, sync, holders, enabled, memory, news, outbox, late, serverVars,
                 worldVars, newest, kept, bounds>>

-----------------------------------------------------------------------------
\* The change a job makes to the outbox it reads, which has no envelope twice.
Changed(job, queued) ==
  LET places == {i \in DOMAIN queued : queued[i] = job.envelope}
  IN CASE job.op = "remove" /\ places # {} -> RemoveAt(queued, Min(places))
       [] job.op = "add" /\ places = {}    -> Append(queued, job.envelope)
       [] OTHER                            -> queued

\* The lock comes to a tab's first job: read(), the change, write() and the
\* listeners. Storage may refuse to hold more, and the tab keeps to its memory
\* from then on, though it still tries to write.
Write(t, works) ==
  /\ jobs[t] # <<>>
  /\ LET after == Changed(Head(jobs[t]), ResultsOf(t)) IN
     /\ works \/ (after # <<>> /\ fails < scene.fails)
     /\ outbox' = IF works THEN after ELSE outbox
     /\ fails' = IF works THEN fails ELSE fails + 1
     /\ memory' = [memory EXCEPT ![t] = IF works /\ @ = None THEN None ELSE after]
     /\ sync' = [sync EXCEPT ![t] = Saved(@, boards[t].pending, Sendable(t, after))]
     /\ news' = IF outbox' = outbox THEN news ELSE news \cup (scene.tabs \ {t})
     /\ kept' = IF works THEN kept \cup ToSet(after) ELSE kept
  /\ jobs' = [jobs EXCEPT ![t] = Tail(@)]
  /\ UNCHANGED <<boards, holders, enabled, late, serverVars, worldVars, newest, made, saves, reloads>>

\* subscribeResults(): another tab changed localStorage.
HearStorage(t) ==
  /\ t \in news
  /\ news' = news \ {t}
  /\ sync' = [sync EXCEPT ![t] = Saved(@, boards[t].pending, SendableNow(t))]
  /\ UNCHANGED <<boards, holders, enabled, jobs, memory, outbox, late, serverVars, restVars>>

-----------------------------------------------------------------------------
\* The server. A match is final once both sides signed the head.
Final == head # None /\ signed[head] = Side

\* record_result() for a rated match: a retry, one more signature of the head,
\* or a result that replaces the head.
Accepts(e) ==
  LET c == content[e] IN
  \/ c.signers \subseteq signed[c.payload]
  \/ c.payload = head
  \/ signed[c.payload] = {} /\ c.replaces = head

\* What the approvals and boards routes answer. An unknown key is refused
\* for a result as a missing permission is, and may change as it may.
ReplyTo(m) ==
  IF ~allowed THEN "notAllowed"
  ELSE IF m.kind = "board" THEN IF Final THEN "final" ELSE "ok"
  ELSE IF m.text \in scene.illegal THEN "refused"
  ELSE IF Accepts(m.text) THEN "ok" ELSE "stale"

Record(e) ==
  LET c == content[e] IN
  /\ head' = IF signed[c.payload] = {} THEN c.payload ELSE head
  /\ signed' = [signed EXCEPT ![c.payload] = @ \cup c.signers]
  /\ UNCHANGED <<board, landed>>

Handle(m) ==
  IF ReplyTo(m) # "ok" THEN UNCHANGED serverVars
  ELSE IF m.kind = "result" THEN Record(m.text)
  ELSE /\ board' = m.text
       /\ landed' = landed \cup {m.text}
       /\ UNCHANGED <<head, signed>>

Awaiting(t) == sync[t] # None /\ sync[t].state = "sending"
Unanswered(t) == Awaiting(t) /\ sync[t].reply = None

\* The server handles the request a tab waits for. A lock is faster than a
\* server, unless a run says otherwise.
ServerReplies(t) ==
  /\ Unanswered(t)
  /\ jobs[t] = <<>> \/ "slowLock" \in scene.trouble
  /\ Handle(sync[t].sent)
  /\ sync' = [sync EXCEPT ![t].reply = ReplyTo(sync[t].sent)]
  /\ UNCHANGED <<boards, holders, enabled, jobs, memory, news, outbox, late, restVars>>

\* A 5xx or a lapsed session, or a 429. The server took nothing.
ServerFails(t, reply) ==
  /\ Unanswered(t)
  /\ sync' = [sync EXCEPT ![t].reply = reply]
  /\ UNCHANGED allButSync

\* A request nothing waits for reaches the server after all.
LateLands(m) ==
  /\ m \in late
  /\ late' = late \ {m}
  /\ Handle(m)
  /\ UNCHANGED <<tabVars, outbox, restVars>>

\* The other player's phone sends a result.
OtherPhone(e) ==
  /\ e \notin scene.illegal /\ Accepts(e)
  /\ Record(e)
  /\ UNCHANGED <<tabVars, outbox, late, restVars>>

-----------------------------------------------------------------------------
\* Mutants of NotYet: a stale result is refused for good, and a refusal may
\* change however old the result is.
NotYetAllowed(m, reply) ==
  m.kind = "result" /\ reply = "notAllowed" /\ m.text \notin old
NotYetEver(m, reply) == m.kind = "result" /\ reply \in {"stale", "notAllowed"}

\* notYet(): a refusal that may still change, for a day.
NotYet(m, reply) ==
  m.kind = "result" /\ reply \in {"stale", "notAllowed"} /\ m.text \notin old

\* Mutant of BoardDone: a newer board goes with the one that is done.
BoardDoneForAll(t, s, facts) ==
  /\ boards' = [boards EXCEPT ![t] = [facts EXCEPT !.pending = None]]
  /\ sync' = [sync EXCEPT ![t] = Step(s, None, SendableNow(t))]
  /\ UNCHANGED <<holders, enabled, jobs, memory, news, outbox, late, serverVars, restVars>>

\* send() after its await: what a tab's sync `s` and the board's `facts` become
\* once a board was taken or dropped. acknowledge() and dropBoard() leave a
\* newer board pending, and their listeners step.
BoardDone(t, s, facts) ==
  LET pending == IF boards[t].pending = sync[t].sent.text THEN None ELSE boards[t].pending
  IN /\ boards' = [boards EXCEPT ![t] = [facts EXCEPT !.pending = pending]]
     /\ sync' = [sync EXCEPT ![t] = Step(s, pending, SendableNow(t))]
     /\ UNCHANGED <<holders, enabled, jobs, memory, news, outbox, late, serverVars, restVars>>

Answered(t, kind, replies) ==
  Awaiting(t) /\ sync[t].sent.kind = kind /\ sync[t].reply \in replies

\* Mutant of NewPass: a result that was stale once is never sent again.
SamePass(s) == s

NewPass(s) == [s EXCEPT !.stale = {}]

BoardTaken(t) ==
  /\ Answered(t, "board", {"ok"})
  /\ BoardDone(t, Idle(sync[t]),
               [boards[t] EXCEPT !.synced = sync[t].sent.text, !.refused = None])

\* refuse() for a board.
BoardRefused(t) ==
  /\ Answered(t, "board", {"final", "notAllowed"})
  /\ LET why == IF sync[t].reply = "final" THEN "final" ELSE "other"
     IN BoardDone(t, NewPass(Idle(sync[t])), [boards[t] EXCEPT !.refused = why])

\* settle(): the server took the result or refused it for good. What goes
\* next waits for the outbox to change.
ResultSettled(t) ==
  /\ Answered(t, "result", {"ok", "refused", "stale", "notAllowed"})
  /\ ~NotYet(sync[t].sent, sync[t].reply)
  /\ sync' = [sync EXCEPT ![t] = NewPass(Idle(@))]
  \* A second removal would find nothing to do.
  /\ LET removal == Removing(sync[t].sent.text)
     IN jobs' = [jobs EXCEPT ![t] = IF Contains(@, removal) THEN @ ELSE Append(@, removal)]
  /\ UNCHANGED <<boards, holders, enabled, memory, news, outbox, late, serverVars, restVars>>

Skipping(s) == [s EXCEPT !.stale = @ \cup {s.sent.text}]
MoreInPass(t) == NextResult(Skipping(sync[t]), ResultsOf(t)) # None

\* A stale result may replace one queued after it, so the pass goes on.
NextInPass(t) ==
  /\ Answered(t, "result", {"stale"})
  /\ NotYet(sync[t].sent, sync[t].reply)
  /\ MoreInPass(t)
  /\ sync' = [sync EXCEPT ![t] = Step(Idle(Skipping(@)), boards[t].pending, SendableNow(t))]
  /\ UNCHANGED allButSync

WaitFor(s) ==
  CASE s.reply = "limited"                   -> "rateLimited"
    [] s.reply \in {"stale", "notAllowed"} -> "notYet"
    [] OTHER                                 -> "backoff"

\* A failure, or a result that isn't taken yet, tries again after a timer.
Retries(t) ==
  /\ \/ Answered(t, "board", {"failed", "limited"})
     \/ Answered(t, "result", {"failed", "limited"})
     \/ /\ Answered(t, "result", {"stale", "notAllowed"})
        /\ NotYet(sync[t].sent, sync[t].reply)
        /\ ~(sync[t].reply = "stale" /\ MoreInPass(t))
  /\ sync' = [sync EXCEPT ![t] = NewPass(Enter(@, WaitFor(@)))]
  /\ UNCHANGED allButSync

\* No answer: the request or its answer is lost, or pushBoard()'s and
\* pushResult()'s ten seconds pass. The server may still get the request.
TimesOut(t) ==
  /\ Awaiting(t)
  /\ late' = late \cup Abandoned(sync[t])
  /\ sync' = [sync EXCEPT ![t] = NewPass(Enter(@, "backoff"))]
  /\ UNCHANGED <<boards, holders, enabled, jobs, memory, news, outbox, serverVars, restVars>>

\* setTimeout()'s callback.
Timer(t) ==
  /\ sync[t] # None /\ sync[t].state \in {"backoff", "rateLimited", "notYet"}
  /\ sync' = [sync EXCEPT ![t] = Step(Idle(@), boards[t].pending, SendableNow(t))]
  /\ UNCHANGED allButSync

\* `online`, `pageshow`, or the page shows again.
Wakes(t) ==
  /\ sync[t] # None
  /\ sync' = [sync EXCEPT ![t] = Kicked(@, boards[t].pending, SendableNow(t))]
  /\ sync' # sync
  /\ UNCHANGED allButSync

-----------------------------------------------------------------------------
\* matchesToSend(), and matchesWithPending() with no session.
ToSend(t) == boards[t].pending # None \/ (t \in enabled /\ ResultsOf(t) # <<>>)

\* hold(), by Root for a match to send and by the scoring page while it's open.
Hold(t, who) ==
  /\ who \notin holders[t]
  /\ who = "root" => ToSend(t)
  /\ holders' = [holders EXCEPT ![t] = @ \cup {who}]
  /\ sync' = [sync EXCEPT ![t] = 
                  Kicked(IF @ = None THEN NewSync ELSE @, boards[t].pending, SendableNow(t))]
  /\ UNCHANGED <<boards, enabled, jobs, memory, news, outbox, late, serverVars, restVars>>

\* The release: stop(), for the last holder.
Release(t, who) ==
  /\ who \in holders[t]
  /\ who = "root" => ~ToSend(t)
  /\ holders' = [holders EXCEPT ![t] = @ \ {who}]
  /\ LET last == holders[t] = {who} IN
     /\ sync' = IF last THEN [sync EXCEPT ![t] = None] ELSE sync
     /\ late' = IF last THEN late \cup Abandoned(sync[t]) ELSE late
  /\ UNCHANGED <<boards, enabled, jobs, memory, news, outbox, serverVars, restVars>>

\* useAppSync() when a page loads the session, which kicks, and when the
\* session is gone.
SessionLoads(t) ==
  /\ t \notin enabled
  /\ enabled' = enabled \cup {t}
  /\ sync' = [sync EXCEPT ![t] =
                 IF @ = None THEN None ELSE Kicked(@, boards[t].pending, ResultsOf(t))]
  /\ UNCHANGED <<boards, holders, jobs, memory, news, outbox, late, serverVars, restVars>>

SessionGoes(t) ==
  /\ t \in enabled
  /\ enabled' = enabled \ {t}
  /\ UNCHANGED <<boards, sync, holders, jobs, memory, news, outbox, late, serverVars, restVars>>

\* A reload keeps only localStorage. A request may go on, with `keepalive`.
Reload(t) ==
  /\ reloads < scene.reloads
  /\ reloads' = reloads + 1
  /\ boards' = [boards EXCEPT ![t] = NoBoards]
  /\ sync' = [sync EXCEPT ![t] = None]
  /\ holders' = [holders EXCEPT ![t] = {}]
  /\ jobs' = [jobs EXCEPT ![t] = <<>>]
  /\ memory' = [memory EXCEPT ![t] = None]
  /\ news' = news \ {t}
  /\ enabled' = enabled \ {t}
  /\ newest' = [newest EXCEPT ![t] = None]
  /\ late' = late \cup Abandoned(sync[t])
  /\ UNCHANGED <<outbox, serverVars, worldVars, made, kept, saves, fails>>

Connects ==
  /\ online' = ~online
  /\ UNCHANGED <<tabVars, outbox, late, serverVars, allowed, old, newest, made, kept, bounds>>

\* The key's registration, a new session or an administrator lets the account
\* score.
Allow ==
  /\ ~allowed /\ allowed' = TRUE
  /\ UNCHANGED <<tabVars, outbox, late, serverVars, online, old, newest, made, kept, bounds>>

\* A day passes since an envelope was signed.
Ages(e) ==
  /\ e \notin old /\ old' = old \cup {e}
  /\ UNCHANGED <<tabVars, outbox, late, serverVars, online, allowed, newest, made, kept, bounds>>

TabStep(t) ==
  \/ \E b \in Draft : SaveBoard(t, b)
  \/ \E e \in Ours : Submit(t, e)
  \/ \E e, f \in Ours : Approve(t, e, f)
  \/ \E works \in BOOLEAN : Write(t, works)
  \/ HearStorage(t) \/ ServerReplies(t)
  \/ "busy" \in scene.trouble /\ \E reply \in {"failed", "limited"} : ServerFails(t, reply)
  \/ BoardTaken(t) \/ BoardRefused(t) \/ ResultSettled(t) \/ NextInPass(t)
  \/ Retries(t) \/ Timer(t) \/ Wakes(t)
  \/ "lost" \in scene.trouble /\ TimesOut(t)
  \/ Hold(t, "root") \/ Release(t, "root")
  \/ "page" \in scene.trouble /\ (Hold(t, "page") \/ Release(t, "page"))
  \/ SessionLoads(t) \/ Reload(t)
  \/ "session" \in scene.trouble /\ SessionGoes(t)

Next ==
  /\ \/ \E t \in scene.tabs : TabStep(t)
     \/ \E m \in late : LateLands(m)
     \/ \E e \in Envelope \ Ours : OtherPhone(e)
     \/ "days" \in scene.trouble /\ \E e \in Ours : Ages(e)
     \/ "offline" \in scene.trouble /\ Connects
     \/ Allow
  /\ UNCHANGED scene

Spec == Init /\ [][Next]_vars
-----------------------------------------------------------------------------
\* The types of every variable: a sync says what it sends and only then, a tab
\* with no holder has none, and the outbox has no envelope twice.
TypeOK ==
  /\ scene \in Scenes
  /\ boards \in [Tab -> [pending : Board \cup {None}, synced : Board \cup {None},
                         refused : Refusal \cup {None}]]
  /\ sync \in [Tab -> SyncState \cup {None}]
  /\ holders \in [Tab -> SUBSET {"root", "page"}]
  /\ jobs \in [Tab -> Seq([op : {"add", "remove"}, envelope : Ours])]
  /\ memory \in [Tab -> Seq(Ours) \cup {None}] /\ outbox \in Seq(Ours)
  /\ \A t \in Tab :
       /\ sync[t] # None => IF sync[t].state = "sending" THEN sync[t].sent # None
                            ELSE sync[t].sent = None /\ sync[t].reply = None
       /\ (sync[t] = None) <=> (holders[t] = {})
       /\ IsInjective(ResultsOf(t))
  /\ enabled \subseteq scene.tabs /\ news \subseteq scene.tabs
  /\ kept \subseteq Ours /\ made \subseteq Ours
  /\ late \subseteq Message
  /\ head \in Payload \cup {None}
  /\ signed \in [Payload -> SUBSET Side]
  /\ landed \subseteq Board /\ board \in landed \cup {None}
  /\ newest \in [Tab -> Board \cup {None}]

\* Whether the server has an envelope's signatures.
Taken(e) == content[e].signers \subseteq signed[content[e].payload]

\* A result that reached localStorage leaves it only once the server has it,
\* or won't take it: "a correction whose first result a reload forgot could
\* never be approved" (results.ts).
ResultsStay ==
  \A e \in kept : \/ Contains(outbox, e)
                  \/ Taken(e) \/ e \in scene.illegal \cup old

\* A board the pad doesn't wait for was taken, and so was the newest one,
\* unless the pad says the server refused a board.
SyncedBoardsLanded ==
  \A t \in Tab :
    /\ boards[t].synced \in landed \cup {None}
    /\ newest[t] \in {boards[t].pending, boards[t].synced} \/ boards[t].refused # None

\* Nothing is left to happen in the tab but what a user or the server does.
AtRest(t) ==
  /\ sync[t] # None /\ sync[t].state = "idle"
  /\ jobs[t] = <<>> /\ t \notin news

\* A sync at rest has nothing it could send: no save, settled result, or change
\* in another tab failed to wake it.
NothingForgotten ==
  \A t \in Tab : AtRest(t) => /\ boards[t].pending = None
                              /\ NextResult(sync[t], SendableNow(t)) = None

\* A sync that rests has sent all it has to send: "Any result settling, or any
\* wait, starts a new pass" (sync.ts).
RestsWhenDone ==
  \A t \in Tab : AtRest(t) => ~ToSend(t)

\* A 429's wait ends with its timer or with the sync: "nothing cuts short" it.
RateLimitWaits ==
  [][\A t \in Tab : sync[t] # None /\ sync[t].state = "rateLimited" /\ sync'[t] # sync[t]
                    => Timer(t) \/ sync'[t] = None]_vars

\* What JavaScript, the browser and the server owe a tab. The server answers a
\* request that is sent again and again, and its answer arrives.
TabFairness(t) ==
  /\ WF_moving(Write(t, TRUE)) /\ WF_moving(HearStorage(t)) /\ WF_moving(Timer(t))
  /\ WF_moving(online /\ Wakes(t)) /\ WF_moving(Hold(t, "root"))
  /\ WF_moving(Retries(t)) /\ SF_moving(ServerReplies(t))
  /\ SF_moving(BoardTaken(t)) /\ SF_moving(BoardRefused(t))
  /\ SF_moving(ResultSettled(t)) /\ SF_moving(NextInPass(t))
Fairness == \A t \in Tab : TabFairness(t) /\ \A e \in Ours : WF_moving("days" \in scene.trouble /\ Ages(e))
FairSpec == Spec /\ Fairness

\* With a network and a session, every result and every board gets its answer.
Served == <>[](online /\ enabled = scene.tabs)
ResultsSettle == Served => []<>(outbox = <<>>)
BoardsSettle == Served => \A t \in Tab : []<>(boards[t].pending = None)

\* The pad says synced only of what the server has, and whatever waits has
\* something that will wake it.
SyncInv == TypeOK /\ SyncedBoardsLanded /\ NothingForgotten

\* Results and boards both come to their end.
AllSettles == ResultsSettle /\ BoardsSettle
=============================================================================
