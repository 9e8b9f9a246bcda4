-------------------------- MODULE MatchSyncProofs --------------------------
(***************************************************************************)
(* Proofs about a web device's sends for any tabs, boards, envelopes and   *)
(* scenes: the pad says synced only of what the server took, no sync that  *)
(* rests forgot a save, a 429's wait is kept, and a result stays in        *)
(* localStorage until it's settled, while storage takes every write.  With *)
(* one tab and a lock faster than the server, a device rests only when it  *)
(* sent all.                                                               *)
(***************************************************************************)
EXTENDS MatchSync, WellFoundedInduction, SequenceTheorems, TLAPS

\* A set of numbers has a least one.
LEMMA LeastNat ==
  ASSUME NEW T, T \subseteq Nat, T # {}
  PROVE  \E x \in T : \A y \in T : x <= y
<1> DEFINE R == {ss \in Nat \X Nat : ss[1] < ss[2]}
<1>1. R = OpToRel(<, Nat)
  BY DEF OpToRel
<1>2. IsWellFoundedOn(R, Nat)
  BY <1>1, NatLessThanWellFounded
<1>3. PICK x \in T : \A y \in T : <<y, x>> \notin R
  <2> HIDE DEF R
  <2> QED BY <1>2, WFMin
<1>4. \A y \in T : ~(y < x)
  BY <1>3
<1> QED BY <1>4

\* Min picks a member of the set.
LEMMA MinIsLeast ==
  ASSUME NEW T, T \subseteq Nat, T # {}
  PROVE  Min(T) \in T
BY LeastNat DEF Min

\* RemoveAt() takes out one place of a sequence and closes the gap.
LEMMA RemoveAtFacts ==
  ASSUME NEW S, NEW s \in Seq(S), NEW k \in 1 .. Len(s)
  PROVE  /\ RemoveAt(s, k) \in Seq(S)
         /\ Len(RemoveAt(s, k)) = Len(s) - 1
         /\ \A i \in 1 .. Len(s) - 1 : RemoveAt(s, k)[i] = IF i < k THEN s[i] ELSE s[i + 1]
<1> DEFINE a == SubSeq(s, 1, k - 1)
           b == SubSeq(s, k + 1, Len(s))
<1>1. a \in Seq(S) /\ Len(a) = k - 1 /\ \A i \in 1 .. k - 1 : a[i] = s[i]
  OBVIOUS
<1>2. b \in Seq(S) /\ Len(b) = Len(s) - k /\ \A i \in 1 .. Len(s) - k : b[i] = s[i + k]
  OBVIOUS
<1>3. RemoveAt(s, k) = a \o b
  BY DEF RemoveAt
<1> HIDE DEF a, b
<1>4. Len(a \o b) = Len(s) - 1 /\ a \o b \in Seq(S)
      /\ \A i \in 1 .. Len(s) - 1 : (a \o b)[i] = IF i <= Len(a) THEN a[i] ELSE b[i - Len(a)]
  BY <1>1, <1>2, ConcatProperties
<1>5. ASSUME NEW i \in 1 .. Len(s) - 1
      PROVE  (a \o b)[i] = IF i < k THEN s[i] ELSE s[i + 1]
  <2>1. CASE i < k
    BY <2>1, <1>4, <1>1
  <2>2. CASE ~(i < k)
    <3>1. (a \o b)[i] = b[i - (k - 1)] /\ i - (k - 1) \in 1 .. Len(s) - k
      BY <2>2, <1>4, <1>1
    <3>2. b[i - (k - 1)] = s[i - (k - 1) + k]
      BY <3>1, <1>2
    <3> QED BY <3>1, <3>2, <2>2
  <2> QED BY <2>1, <2>2
<1> QED BY <1>3, <1>4, <1>5

\* Two more jobs leave a queue of jobs that isn't empty.
LEMMA ConcatNotEmpty ==
  ASSUME NEW S, NEW s1 \in Seq(S), NEW s2 \in Seq(S), Len(s2) = 2
  PROVE  s1 \o s2 \in Seq(S) /\ s1 \o s2 # <<>>
<1>1. s2 # <<>>
  <2>1. Len(<<>>) = 0
    OBVIOUS
  <2>2. s2 = <<>> => Len(s2) = 0
    BY <2>1, Zenon
  <2>3. 0 # 2
    OBVIOUS
  <2> QED BY <2>2, <2>3
<1>2. s1 \o s2 \in Seq(S)
  BY ConcatProperties
<1> QED BY <1>1, <1>2, ConcatEqualIffEmpty

\* A job keeps an outbox free of repeats, and takes out of it at most the
\* envelope that it removes.
LEMMA ChangedFacts ==
  ASSUME NEW queued \in Seq(Ours), IsInjective(queued),
         NEW job \in [op : {"add", "remove"}, envelope : Ours]
  PROVE  /\ Changed(job, queued) \in Seq(Ours)
         /\ IsInjective(Changed(job, queued))
         /\ \A e : Contains(queued, e) /\ ~Contains(Changed(job, queued), e)
                     => job.op = "remove" /\ e = job.envelope
<1> DEFINE places == {i \in DOMAIN queued : queued[i] = job.envelope}
<1>1. places \subseteq 1 .. Len(queued) /\ places \subseteq Nat
  OBVIOUS
<1>2. CASE job.op = "remove" /\ places # {}
  <2>1. PICK k \in 1 .. Len(queued) : k = Min(places) /\ k \in places
    BY <1>1, <1>2, MinIsLeast
  <2>2. Changed(job, queued) = RemoveAt(queued, k)
    BY <1>2, <2>1 DEF Changed
  <2> DEFINE r == RemoveAt(queued, k)
  <2>3. /\ r \in Seq(Ours) /\ Len(r) = Len(queued) - 1
        /\ \A i \in 1 .. Len(queued) - 1 : r[i] = IF i < k THEN queued[i] ELSE queued[i + 1]
    BY <2>1, RemoveAtFacts
  <2> HIDE DEF r, places
  <2>4. IsInjective(r)
    <3> DEFINE at(i) == IF i < k THEN i ELSE i + 1
    <3>0. DOMAIN r = 1 .. Len(queued) - 1 /\ Len(queued) \in Nat
      BY <2>3
    <3>1. ASSUME NEW i \in 1 .. Len(queued) - 1
          PROVE  at(i) \in 1 .. Len(queued) /\ r[i] = queued[at(i)]
      <4>1. CASE i < k
        BY <2>3, <3>0, <4>1
      <4>2. CASE ~(i < k)
        BY <2>3, <3>0, <4>2
      <4> QED BY <4>1, <4>2
    <3>2. \A i, j \in 1 .. Len(queued) - 1 : at(i) = at(j) => i = j
      BY <3>0
    <3>3. \A a, b \in 1 .. Len(queued) : queued[a] = queued[b] => a = b
      BY DEF IsInjective
    <3> HIDE DEF at
    <3>4. ASSUME NEW i \in 1 .. Len(queued) - 1, NEW j \in 1 .. Len(queued) - 1, r[i] = r[j]
          PROVE  i = j
      <4>1. queued[at(i)] = queued[at(j)]
        BY <3>1, <3>4
      <4>2. at(i) = at(j)
        BY <3>1, <3>3, <4>1
      <4> QED BY <3>2, <4>2
    <3> QED BY <3>0, <3>4 DEF IsInjective
  <2>5. ASSUME NEW e, Contains(queued, e), ~Contains(r, e)
        PROVE  e = job.envelope
    <3>1. PICK i \in 1 .. Len(queued) : queued[i] = e
      BY <2>5 DEF Contains
    <3>2. ~(i < k)
      BY <3>1, <2>5, <2>3 DEF Contains
    <3>3. ~(i > k)
      <4> SUFFICES ASSUME i > k PROVE FALSE
        OBVIOUS
      <4>1. i - 1 \in 1 .. Len(r) /\ ~(i - 1 < k) /\ (i - 1) + 1 = i
        BY <2>3
      <4>2. r[i - 1] = e
        BY <4>1, <2>3, <3>1
      <4> QED BY <4>1, <4>2, <2>5 DEF Contains
    <3> QED BY <3>1, <3>2, <3>3, <2>1 DEF places
  <2> QED BY <1>2, <2>2, <2>3, <2>4, <2>5 DEF r
<1>3. CASE job.op = "add" /\ places = {}
  <2>1. Changed(job, queued) = Append(queued, job.envelope)
    BY <1>3 DEF Changed
  <2>2. \A i \in DOMAIN queued : queued[i] # job.envelope
    BY <1>3
  <2> QED BY <2>1, <2>2, <1>3 DEF IsInjective, Contains
<1>4. CASE ~(job.op = "remove" /\ places # {}) /\ ~(job.op = "add" /\ places = {})
  <2>1. Changed(job, queued) = queued
    BY <1>4 DEF Changed
  <2> QED BY <2>1
<1> QED BY <1>2, <1>3, <1>4

-----------------------------------------------------------------------------
\* Only a sync that sends has a message or an answer.
SyncShape(s) ==
  IF s.state = "sending" THEN s.sent # None ELSE s.sent = None /\ s.reply = None

\* A sync that has just looked at what there is to send.
Stepped(s, pending, queued) ==
  /\ s \in SyncState /\ SyncShape(s)
  /\ s.state = "idle" => pending = None /\ NextResult(s, queued) = None
  /\ s.state = "sending" => /\ s.reply = None
                            /\ s.sent.kind = "board" => pending # None

\* Idle and Enter give a sync that sends nothing, in the state they name.
LEMMA IdleFacts ==
  ASSUME NEW s \in SyncState
  PROVE  /\ Idle(s) \in SyncState /\ SyncShape(Idle(s)) /\ Idle(s).state = "idle"
         /\ Idle(s).stale = s.stale
         /\ \A st \in {"waitingOnline", "backoff", "rateLimited", "notYet"} :
              /\ Enter(s, st) \in SyncState /\ SyncShape(Enter(s, st)) /\ Enter(s, st).state = st
BY DEF SyncState, SyncShape, Idle, Enter

\* Sending gives a sync that waits for an answer to its message.
LEMMA SendingFacts ==
  ASSUME NEW s \in SyncState, NEW m \in Message
  PROVE  LET r == Sending(s, m.kind, m.text)
         IN /\ r \in SyncState /\ SyncShape(r) /\ r.state = "sending" /\ r.reply = None
            /\ r.sent = m
<1> DEFINE r == Sending(s, m.kind, m.text)
<1>1. m = [kind |-> m.kind, text |-> m.text] /\ m # None
  BY SyncAssumption DEF Message
<1>2. r = [s EXCEPT !.state = "sending", !.sent = m, !.reply = None]
  BY <1>1 DEF Sending
<1> QED BY <1>1, <1>2 DEF SyncState, SyncShape

\* nextResult() returns a queued result or none.
LEMMA NextResultFacts ==
  ASSUME NEW s, NEW queued \in Seq(Ours)
  PROVE  NextResult(s, queued) \in Ours \cup {None}
<1> DEFINE fresh == {i \in DOMAIN queued : queued[i] \notin s.stale}
<1>1. CASE fresh = {}
  BY <1>1 DEF NextResult
<1>2. CASE fresh # {}
  <2>1. Min(fresh) \in fresh
    <3>1. fresh \subseteq Nat
      OBVIOUS
    <3> HIDE DEF fresh
    <3> QED BY <3>1, <1>2, MinIsLeast
  <2>2. NextResult(s, queued) = queued[Min(fresh)]
    BY <1>2 DEF NextResult
  <2> QED BY <2>1, <2>2
<1> QED BY <1>1, <1>2

\* step() leaves a busy sync alone, and an idle one only rests when it has
\* nothing to send.
LEMMA StepFacts ==
  ASSUME NEW s \in SyncState, SyncShape(s),
         NEW pending \in Board \cup {None}, NEW queued \in Seq(Ours)
  PROVE  /\ s.state = "idle" => Stepped(Step(s, pending, queued), pending, queued)
         /\ s.state # "idle" => Step(s, pending, queued) = s
<1> DEFINE r == Step(s, pending, queued)
           result == NextResult(s, queued)
<1>1. CASE s.state # "idle"
  BY <1>1 DEF Step
<1>2. CASE s.state = "idle" /\ pending = None /\ result = None
  <2>1. r = s
    BY <1>2 DEF Step, NextStep
  <2> QED BY <2>1, <1>2 DEF Stepped
<1>3. CASE s.state = "idle" /\ ~(pending = None /\ result = None) /\ ~online
  <2>1. r = Enter(s, "waitingOnline")
    BY <1>3 DEF Step, NextStep
  <2>2. r \in SyncState /\ SyncShape(r) /\ r.state = "waitingOnline"
    BY <2>1, IdleFacts
  <2> QED BY <2>2, <1>3 DEF Stepped
<1>4. CASE s.state = "idle" /\ online /\ pending # None
  <2> DEFINE m == [kind |-> "board", text |-> pending]
  <2>1. r = Sending(s, m.kind, m.text) /\ m \in Message /\ m.kind = "board"
    BY <1>4 DEF Step, NextStep, Message
  <2>2. r \in SyncState /\ SyncShape(r) /\ r.state = "sending" /\ r.reply = None
    <3> HIDE DEF m
    <3> QED BY <2>1, SendingFacts
  <2> QED BY <2>2, <1>4 DEF Stepped
<1>5. CASE s.state = "idle" /\ online /\ pending = None /\ result # None
  <2> DEFINE m == [kind |-> "result", text |-> result]
  <2>1. r = Sending(s, m.kind, m.text) /\ m \in Message /\ m.kind = "result"
    BY <1>5, NextResultFacts DEF Step, NextStep, Message
  <2>2. r \in SyncState /\ SyncShape(r) /\ r.state = "sending" /\ r.reply = None /\ r.sent = m
    <3> HIDE DEF m
    <3> QED BY <2>1, SendingFacts
  <2> QED BY <2>1, <2>2, <1>5 DEF Stepped
<1> QED BY <1>1, <1>2, <1>3, <1>4, <1>5

\* A change of the board or of the results leaves a request alone, and
\* otherwise the sync has looked at what there is to send.
LEMMA SavedFacts ==
  ASSUME NEW s \in SyncState, SyncShape(s),
         NEW pending \in Board \cup {None}, NEW queued \in Seq(Ours)
  PROVE  LET r == Saved(s, pending, queued)
         IN Stepped(r, pending, queued) \/ (s.state = "sending" /\ r = s)
<1> DEFINE b == IF s.state \in {"waitingOnline", "notYet"} THEN Idle(s) ELSE s
<1>1. Saved(s, pending, queued) = Step(b, pending, queued)
  BY SyncAssumption DEF Saved
<1>2. b \in SyncState /\ SyncShape(b)
  BY IdleFacts
<1>3. b.state = "idle" \/ (b = s /\ s.state \in {"sending", "backoff", "rateLimited"})
  BY IdleFacts DEF SyncState
<1> HIDE DEF b
<1>4. CASE b.state = "idle"
  BY <1>1, <1>2, <1>4, StepFacts
<1>5. CASE b = s /\ s.state \in {"sending", "backoff", "rateLimited"}
  <2>1. Saved(s, pending, queued) = s
    BY <1>1, <1>5, StepFacts
  <2> QED BY <2>1, <1>5 DEF Stepped
<1> QED BY <1>3, <1>4, <1>5

\* A wake-up, likewise.
LEMMA KickedFacts ==
  ASSUME NEW s \in SyncState, SyncShape(s),
         NEW pending \in Board \cup {None}, NEW queued \in Seq(Ours)
  PROVE  LET r == Kicked(s, pending, queued)
         IN Stepped(r, pending, queued) \/ (s.state = "sending" /\ r = s)
<1> DEFINE b == IF s.state \in {"waitingOnline", "notYet", "backoff"} THEN Idle(s) ELSE s
<1>1. Kicked(s, pending, queued) = Step(b, pending, queued)
  BY DEF Kicked
<1>2. b \in SyncState /\ SyncShape(b)
  BY IdleFacts
<1>3. b.state = "idle" \/ (b = s /\ s.state \in {"sending", "rateLimited"})
  BY IdleFacts DEF SyncState
<1> HIDE DEF b
<1>4. CASE b.state = "idle"
  BY <1>1, <1>2, <1>4, StepFacts
<1>5. CASE b = s /\ s.state \in {"sending", "rateLimited"}
  <2>1. Kicked(s, pending, queued) = s
    BY <1>1, <1>5, StepFacts
  <2> QED BY <2>1, <1>5 DEF Stepped
<1> QED BY <1>3, <1>4, <1>5

-----------------------------------------------------------------------------
\* A board is sent while one is pending, and an ok for it is true.
SendsPending(t) ==
  Awaiting(t) /\ sync[t].sent.kind = "board" =>
    /\ boards[t].pending # None
    /\ sync[t].reply = "ok" => sync[t].sent.text \in landed

\* What waits in the tab is the last board saved in it.
PendingIsNewest(t) == boards[t].pending # None => newest[t] = boards[t].pending

\* SyncedBoardsLanded, for one tab.
SyncedLanded(t) ==
  /\ boards[t].synced \in landed \cup {None}
  /\ newest[t] \in {boards[t].pending, boards[t].synced} \/ boards[t].refused # None

\* An idle sync has a job or a storage event to come, or nothing to send.
WillWake(t) ==
  sync[t] # None /\ sync[t].state = "idle" =>
    \/ jobs[t] # <<>> \/ t \in news
    \/ boards[t].pending = None /\ NextResult(sync[t], SendableNow(t)) = None

\* What holds of each tab.
TabInv(t) == SendsPending(t) /\ PendingIsNewest(t) /\ SyncedLanded(t) /\ WillWake(t)

\* The outbox has no envelope twice even where a tab keeps to its memory, and a
\* tab that isn't open has no sync.
IInv ==
  /\ TypeOK
  /\ IsInjective(outbox)
  /\ \A t \in Tab \ scene.tabs : sync[t] = None
  /\ \A t \in Tab : TabInv(t)

\* The parts of TypeOK: of every variable, and of each tab.
Boards == [pending : Board \cup {None}, synced : Board \cup {None},
           refused : Refusal \cup {None}]
Jobs == [op : {"add", "remove"}, envelope : Ours]
TabTypes ==
  /\ boards \in [Tab -> Boards]
  /\ sync \in [Tab -> SyncState \cup {None}]
  /\ holders \in [Tab -> SUBSET {"root", "page"}]
  /\ jobs \in [Tab -> Seq(Jobs)]
  /\ memory \in [Tab -> Seq(Ours) \cup {None}] /\ outbox \in Seq(Ours)
  /\ newest \in [Tab -> Board \cup {None}]
ServerTypes ==
  /\ late \subseteq Message
  /\ head \in Payload \cup {None}
  /\ signed \in [Payload -> SUBSET Side]
  /\ landed \subseteq Board /\ board \in landed \cup {None}
SetTypes ==
  /\ scene \in Scenes
  /\ enabled \subseteq scene.tabs /\ news \subseteq scene.tabs
  /\ kept \subseteq Ours /\ made \subseteq Ours
\* What TypeOK says of a tab's sync.
SyncHeld(t) ==
  /\ sync[t] # None => SyncShape(sync[t])
  /\ (sync[t] = None) <=> (holders[t] = {})

\* TypeOK is the types of the tabs, of the server and of the sets, and each tab's
\* own conditions.
LEMMA TypeParts ==
  TypeOK <=> /\ TabTypes /\ ServerTypes /\ SetTypes
             /\ \A t \in Tab : SyncHeld(t) /\ IsInjective(ResultsOf(t))
BY DEF TypeOK, TabTypes, ServerTypes, SetTypes, SyncHeld, SyncShape, Boards, Jobs, Refusal

\* A step of tab t, which leaves the other tabs as they were unless they are to
\* hear of a change of the outbox.
Aside(u) ==
  /\ boards'[u] = boards[u] /\ sync'[u] = sync[u] /\ holders'[u] = holders[u]
  /\ jobs'[u] = jobs[u] /\ memory'[u] = memory[u] /\ newest'[u] = newest[u]
  /\ u \in enabled' <=> u \in enabled

\* A tab aside keeps its part of the invariant, and hears of a changed outbox.
LEMMA OtherTab ==
  ASSUME IInv, NEW u \in Tab, Aside(u), UNCHANGED scene, landed \subseteq landed',
         u \in news => u \in news',
         outbox' = outbox \/ news' = news \cup scene.tabs \/ u \in news' \/ u \notin scene.tabs
  PROVE  SyncHeld(u)' /\ TabInv(u)'
<1>1. SyncHeld(u)'
  BY TypeParts DEF IInv, SyncHeld, Aside
<1>2. SendsPending(u)' /\ PendingIsNewest(u)' /\ SyncedLanded(u)'
  BY DEF IInv, TabInv, SendsPending, PendingIsNewest, SyncedLanded, Aside, Awaiting
<1>3. WillWake(u)'
  <2>1. CASE sync[u] = None
    BY <2>1 DEF WillWake, Aside
  <2>2. CASE sync[u] # None /\ outbox' = outbox
    <3>1. SendableNow(u)' = SendableNow(u)
      BY <2>2 DEF SendableNow, Sendable, ResultsOf, Aside
    <3> QED BY <3>1, <2>2 DEF IInv, TabInv, WillWake, Aside
  <2>3. CASE sync[u] # None /\ u \in news'
    BY <2>3 DEF WillWake, Aside
  <2>4. sync[u] # None => u \in scene.tabs
    BY DEF IInv
  <2> QED BY <2>1, <2>2, <2>3, <2>4
<1> QED BY <1>1, <1>2, <1>3 DEF TabInv

\* A step of one tab keeps the invariant if that tab's part holds after it.
LEMMA OneTab ==
  ASSUME IInv, NEW t \in Tab, t \in scene.tabs, UNCHANGED scene, landed \subseteq landed',
         \A u \in Tab \ {t} : Aside(u) /\ (u \in news => u \in news'),
         outbox' = outbox \/ news' = news \cup (scene.tabs \ {t}),
         TabTypes', ServerTypes', SetTypes', IsInjective(outbox'),
         IsInjective(ResultsOf(t)'), SyncHeld(t)', TabInv(t)'
  PROVE  IInv'
<1>1. ASSUME NEW u \in Tab PROVE SyncHeld(u)' /\ IsInjective(ResultsOf(u))' /\ TabInv(u)'
  <2>1. CASE u = t
    BY <2>1
  <2>2. CASE u # t
    <3>1. Aside(u) /\ (u \in news => u \in news')
      BY <2>2
    <3>2. u \in news' \/ outbox' = outbox \/ u \notin scene.tabs
      BY <2>2
    <3>3. SyncHeld(u)' /\ TabInv(u)'
      BY <3>1, <3>2, OtherTab
    <3>4. IsInjective(ResultsOf(u))'
      <4>1. ResultsOf(u)' = IF memory[u] = None THEN outbox' ELSE memory[u]
        BY <3>1 DEF ResultsOf, Aside
      <4>2. memory[u] # None => IsInjective(memory[u])
        BY TypeParts DEF IInv, ResultsOf
      <4> QED BY <4>1, <4>2
    <3> QED BY <3>3, <3>4
  <2> QED BY <2>1, <2>2
<1>2. ASSUME NEW u \in Tab \ scene'.tabs PROVE sync'[u] = None
  BY DEF IInv, Aside
<1>3. TypeOK'
  BY <1>1 DEF TypeOK, TabTypes, ServerTypes, SetTypes, SyncHeld, SyncShape, Boards, Jobs, Refusal
<1> QED BY <1>1, <1>2, <1>3 DEF IInv

\* What a tab may send is a queue of this device's envelopes.
LEMMA SendableTyped ==
  ASSUME TypeOK, NEW t \in Tab
  PROVE  /\ SendableNow(t) \in Seq(Ours) /\ ResultsOf(t) \in Seq(Ours)
         /\ boards[t] \in Boards /\ boards[t].pending \in Board \cup {None}
BY DEF SendableNow, Sendable, ResultsOf, TypeOK, Boards, Refusal

\* What a sync that stepped, or kept its request, has to do with the rest.
LEMMA SteppedTab ==
  ASSUME NEW t \in Tab, SyncHeld(t), TabInv(t),
         sync'[t] # None, holders'[t] # {},
         \/ Stepped(sync'[t], boards'[t].pending, SendableNow(t)')
         \/ /\ sync[t] # None /\ sync[t].state = "sending" /\ sync'[t] = sync[t]
            /\ boards[t].pending # None => boards'[t].pending # None
            /\ landed \subseteq landed'
  PROVE  SendsPending(t)' /\ WillWake(t)' /\ SyncHeld(t)'
<1>1. CASE Stepped(sync'[t], boards'[t].pending, SendableNow(t)')
  <2>1. SyncHeld(t)'
    BY <1>1 DEF SyncHeld, Stepped
  <2>2. SendsPending(t)'
    BY <1>1, SyncAssumption DEF SendsPending, Stepped, Awaiting, Reply
  <2>3. WillWake(t)'
    BY <1>1 DEF WillWake, Stepped
  <2> QED BY <2>1, <2>2, <2>3
<1>2. CASE /\ sync[t] # None /\ sync[t].state = "sending" /\ sync'[t] = sync[t]
           /\ boards[t].pending # None => boards'[t].pending # None
           /\ landed \subseteq landed'
  BY <1>2 DEF SyncHeld, TabInv, SendsPending, WillWake, Awaiting
<1> QED BY <1>1, <1>2

\* What the invariant says of one open tab.
LEMMA TabFacts ==
  ASSUME IInv, NEW t \in scene.tabs
  PROVE  /\ t \in Tab /\ TypeOK /\ TabTypes /\ ServerTypes /\ SetTypes
         /\ SyncHeld(t) /\ TabInv(t) /\ IsInjective(ResultsOf(t)) /\ IsInjective(outbox)
         /\ SendableNow(t) \in Seq(Ours) /\ ResultsOf(t) \in Seq(Ours)
         /\ boards[t] \in Boards /\ boards[t].pending \in Board \cup {None}
         /\ sync[t] \in SyncState \cup {None}
         /\ sync[t] # None => sync[t] \in SyncState /\ SyncShape(sync[t]) /\ holders[t] # {}
         /\ None \notin SyncState
<1>1. t \in Tab /\ TypeOK /\ TabTypes /\ ServerTypes /\ SetTypes /\ SyncHeld(t) /\ TabInv(t)
      /\ IsInjective(ResultsOf(t)) /\ IsInjective(outbox)
  BY TypeParts, SyncAssumption DEF IInv, SetTypes
<1>2. sync[t] \in SyncState \cup {None}
  BY <1>1 DEF TabTypes
<1>3. sync[t] # None => sync[t] \in SyncState /\ SyncShape(sync[t]) /\ holders[t] # {}
  BY <1>1, <1>2 DEF SyncHeld
<1> QED BY <1>1, <1>2, <1>3, SendableTyped, SyncAssumption

\* A save, a write or a storage event leaves the tab's sync with its request, or
\* having looked at what there is to send now.
LEMMA SavedTab ==
  ASSUME IInv, NEW t \in scene.tabs, NEW pending \in Board \cup {None}, NEW queued \in Seq(Ours),
         sync' = [sync EXCEPT ![t] = Saved(@, pending, queued)],
         boards'[t].pending = pending, SendableNow(t)' = queued,
         boards[t].pending # None => pending # None,
         holders' = holders, landed \subseteq landed'
  PROVE  /\ sync' \in [Tab -> SyncState \cup {None}]
         /\ SendsPending(t)' /\ WillWake(t)' /\ SyncHeld(t)'
<1> USE TabFacts
<1>1. sync'[t] = Saved(sync[t], pending, queued)
  BY DEF TabTypes
<1>2. CASE sync[t] = None
  <2>1. sync'[t] = None
    BY <1>1, <1>2 DEF Saved
  <2> QED BY <2>1, <1>2 DEF SyncHeld, SendsPending, WillWake, Awaiting, TabTypes
<1>3. CASE sync[t] # None
  <2>0. sync[t] \in SyncState /\ SyncShape(sync[t])
    BY <1>3
  <2>1. \/ Stepped(sync'[t], pending, queued)
        \/ sync[t].state = "sending" /\ sync'[t] = sync[t]
    <3> DEFINE r == Saved(sync[t], pending, queued)
    <3>1. Stepped(r, pending, queued) \/ (sync[t].state = "sending" /\ r = sync[t])
      BY <2>0, SavedFacts
    <3> QED BY <3>1, <1>1
  <2>2. sync'[t] \in SyncState /\ sync'[t] # None /\ holders'[t] # {}
    BY <2>1, <1>3 DEF Stepped
  <2>3. SendsPending(t)' /\ WillWake(t)' /\ SyncHeld(t)'
    BY <2>1, <2>2, <1>3, SteppedTab
  <2> QED BY <2>2, <2>3 DEF TabTypes
<1> QED BY <1>2, <1>3

\* A step after which the tab has the sync s, and the same boards.
LEMMA SyncMoves ==
  ASSUME IInv, NEW t \in scene.tabs, UNCHANGED scene, NEW s \in SyncState, SyncShape(s),
         sync' = [sync EXCEPT ![t] = s],
         UNCHANGED <<boards, memory, outbox, newest>>,
         holders' \in [Tab -> SUBSET {"root", "page"}], holders'[t] # {},
         jobs' \in [Tab -> Seq(Jobs)],
         \A u \in Tab \ {t} : /\ holders'[u] = holders[u] /\ jobs'[u] = jobs[u]
                              /\ u \in enabled' <=> u \in enabled
                              /\ u \in news => u \in news',
         ServerTypes', SetTypes', landed \subseteq landed', SendsPending(t)', WillWake(t)'
  PROVE  IInv'
<1> USE TabFacts
<1>1. sync'[t] = s /\ s # None
  BY DEF TabTypes
<1>2. PendingIsNewest(t)' /\ SyncedLanded(t)'
  BY DEF TabInv, PendingIsNewest, SyncedLanded
<1>3. SyncHeld(t)' /\ TabInv(t)'
  BY <1>1, <1>2 DEF SyncHeld, TabInv
<1>4. TabTypes'
  BY DEF TabTypes
<1>5. \A u \in Tab \ {t} : Aside(u) /\ (u \in news => u \in news')
  BY DEF Aside, TabTypes
<1>6. IsInjective(ResultsOf(t)')
  BY DEF ResultsOf
<1> QED BY <1>3, <1>4, <1>5, <1>6, OneTab

\* The same for a step that only moves the sync, after it has looked again.
LEMMA SyncSteps ==
  ASSUME IInv, NEW t \in scene.tabs, UNCHANGED scene, NEW s,
         sync' = [sync EXCEPT ![t] = s],
         UNCHANGED <<boards, memory, outbox, newest, jobs, late, serverVars, kept, made>>,
         holders' \in [Tab -> SUBSET {"root", "page"}], holders'[t] # {},
         enabled' \subseteq scene.tabs, news' \subseteq scene.tabs,
         \A u \in Tab \ {t} : /\ holders'[u] = holders[u]
                              /\ u \in enabled' <=> u \in enabled
                              /\ u \in news => u \in news',
         \/ Stepped(s, boards[t].pending, SendableNow(t)')
         \/ sync[t] # None /\ sync[t].state = "sending" /\ s = sync[t]
  PROVE  IInv'
<1> USE TabFacts
<1>1. s \in SyncState /\ SyncShape(s) /\ s # None /\ sync'[t] = s
  BY DEF Stepped, TabTypes
<1>2. landed \subseteq landed' /\ ServerTypes' /\ SetTypes' /\ jobs' \in [Tab -> Seq(Jobs)]
  BY DEF ServerTypes, SetTypes, serverVars, TabTypes
<1>3. SendsPending(t)' /\ WillWake(t)'
  BY <1>1, <1>2, SteppedTab
<1> QED BY <1>1, <1>2, <1>3, SyncMoves

\* A tab without a sync has nothing to keep.
LEMMA NoSync ==
  ASSUME IInv, NEW t \in scene.tabs, sync[t] = None, sync'[t] = None, UNCHANGED holders
  PROVE  SyncHeld(t)' /\ SendsPending(t)' /\ WillWake(t)'
BY TabFacts DEF SyncHeld, SendsPending, WillWake, Awaiting
-----------------------------------------------------------------------------
\* HearStorage keeps the invariant.
LEMMA HearStorageInv ==
  ASSUME IInv, NEW t \in scene.tabs, HearStorage(t), UNCHANGED scene
  PROVE  IInv'
<1> USE TabFacts
<1>1. /\ news' = news \ {t}
      /\ sync' = [sync EXCEPT ![t] = Saved(@, boards[t].pending, SendableNow(t))]
      /\ UNCHANGED <<boards, holders, enabled, jobs, memory, outbox, late, serverVars, restVars>>
  BY DEF HearStorage
<1>2. SendableNow(t)' = SendableNow(t) /\ ResultsOf(t)' = ResultsOf(t)
  BY <1>1 DEF SendableNow, Sendable, ResultsOf
<1>3. /\ sync' \in [Tab -> SyncState \cup {None}]
      /\ SendsPending(t)' /\ WillWake(t)' /\ SyncHeld(t)'
  BY <1>1, <1>2, SavedTab DEF serverVars
<1>4. PendingIsNewest(t)' /\ SyncedLanded(t)'
  BY <1>1 DEF TabInv, PendingIsNewest, SyncedLanded, serverVars, restVars
<1>5. TabTypes' /\ ServerTypes' /\ SetTypes'
  BY <1>1, <1>3 DEF TabTypes, ServerTypes, SetTypes, serverVars, restVars
<1>6. \A u \in Tab \ {t} : Aside(u) /\ (u \in news => u \in news')
  BY <1>1 DEF Aside, TabTypes, restVars
<1> QED BY <1>1, <1>2, <1>3, <1>4, <1>5, <1>6, OneTab DEF TabInv, serverVars

\* ServerFails keeps the invariant.
LEMMA ServerFailsInv ==
  ASSUME IInv, NEW t \in scene.tabs, NEW reply \in {"failed", "limited"},
         ServerFails(t, reply), UNCHANGED scene
  PROVE  IInv'
<1> USE TabFacts
<1>1. /\ sync' = [sync EXCEPT ![t].reply = reply] /\ Unanswered(t)
      /\ UNCHANGED <<allButSync>>
  BY DEF ServerFails
<1> DEFINE s == [sync[t] EXCEPT !.reply = reply]
<1>2. sync[t] \in SyncState /\ sync[t].state = "sending"
  BY <1>1 DEF Unanswered, Awaiting
<1>3. s \in SyncState /\ SyncShape(s) /\ s.reply = reply /\ s.state = "sending" /\ s.sent = sync[t].sent
  BY <1>2 DEF SyncState, SyncShape, Reply
<1>4. sync' = [sync EXCEPT ![t] = s] /\ sync'[t] = s
  BY <1>1 DEF TabTypes
<1> HIDE DEF s
<1>5. SendsPending(t)' /\ WillWake(t)'
  BY <1>1, <1>2, <1>3, <1>4 DEF SendsPending, WillWake, Awaiting, TabInv, allButSync
<1>6. ServerTypes' /\ SetTypes' /\ landed \subseteq landed' /\ jobs' \in [Tab -> Seq(Jobs)]
      /\ UNCHANGED <<boards, memory, outbox, newest, holders, jobs, enabled, news>>
      /\ holders' \in [Tab -> SUBSET {"root", "page"}] /\ holders'[t] # {}
  BY <1>1, <1>2 DEF ServerTypes, SetTypes, allButSync, serverVars, restVars, TabTypes
<1> QED BY <1>3, <1>4, <1>5, <1>6, SyncMoves
\* Timer keeps the invariant.
LEMMA TimerInv ==
  ASSUME IInv, NEW t \in scene.tabs, Timer(t), UNCHANGED scene
  PROVE  IInv'
<1> USE TabFacts
<1> DEFINE s == Step(Idle(sync[t]), boards[t].pending, SendableNow(t))
<1>1. /\ sync' = [sync EXCEPT ![t] = s] /\ sync[t] # None /\ UNCHANGED <<allButSync>>
  BY DEF Timer
<1>2. Idle(sync[t]) \in SyncState /\ SyncShape(Idle(sync[t])) /\ Idle(sync[t]).state = "idle"
  BY <1>1, IdleFacts
<1>3. Stepped(s, boards[t].pending, SendableNow(t))
  BY <1>2, StepFacts
<1>4. SendableNow(t)' = SendableNow(t)
  BY <1>1 DEF allButSync, SendableNow, Sendable, ResultsOf
<1>5. /\ UNCHANGED <<boards, memory, outbox, newest, holders, jobs, enabled, news, late,
                     serverVars, kept, made>>
      /\ holders' \in [Tab -> SUBSET {"root", "page"}] /\ holders'[t] # {}
      /\ enabled' \subseteq scene.tabs /\ news' \subseteq scene.tabs
  BY <1>1 DEF allButSync, restVars, TabTypes, SetTypes
<1> HIDE DEF s
<1> QED BY <1>1, <1>3, <1>4, <1>5, SyncSteps

\* Wakes keeps the invariant.
LEMMA WakesInv ==
  ASSUME IInv, NEW t \in scene.tabs, Wakes(t), UNCHANGED scene
  PROVE  IInv'
<1> USE TabFacts
<1> DEFINE s == Kicked(sync[t], boards[t].pending, SendableNow(t))
<1>1. /\ sync' = [sync EXCEPT ![t] = s] /\ sync[t] # None /\ UNCHANGED <<allButSync>>
  BY DEF Wakes
<1>3. Stepped(s, boards[t].pending, SendableNow(t)) \/ (sync[t].state = "sending" /\ s = sync[t])
  BY <1>1, KickedFacts
<1>4. SendableNow(t)' = SendableNow(t)
  BY <1>1 DEF allButSync, SendableNow, Sendable, ResultsOf
<1>5. /\ UNCHANGED <<boards, memory, outbox, newest, holders, jobs, enabled, news, late,
                     serverVars, kept, made>>
      /\ holders' \in [Tab -> SUBSET {"root", "page"}] /\ holders'[t] # {}
      /\ enabled' \subseteq scene.tabs /\ news' \subseteq scene.tabs
  BY <1>1 DEF allButSync, restVars, TabTypes, SetTypes
<1> HIDE DEF s
<1> QED BY <1>1, <1>3, <1>4, <1>5, SyncSteps

\* NextInPass keeps the invariant.
LEMMA NextInPassInv ==
  ASSUME IInv, NEW t \in scene.tabs, NextInPass(t), UNCHANGED scene
  PROVE  IInv'
<1> USE TabFacts
<1> DEFINE q == Idle(Skipping(sync[t]))
           s == Step(q, boards[t].pending, SendableNow(t))
<1>1. /\ sync' = [sync EXCEPT ![t] = s] /\ Awaiting(t) /\ sync[t].sent.kind = "result"
      /\ UNCHANGED <<allButSync>>
  BY DEF NextInPass, Answered
<1>2. q \in SyncState /\ SyncShape(q) /\ q.state = "idle"
  <2>1. sync[t] \in SyncState /\ sync[t].sent \in Message /\ sync[t].sent.text \in Envelope
    <3>1. sync[t] \in SyncState /\ sync[t].state = "sending" /\ sync[t].sent # None
      BY <1>1 DEF Awaiting, SyncShape
    <3> QED BY <3>1, <1>1, SyncAssumption DEF SyncState, Message
  <2>2. Skipping(sync[t]) \in SyncState
    BY <2>1 DEF Skipping, SyncState
  <2> QED BY <2>2, IdleFacts
<1>3. Stepped(s, boards[t].pending, SendableNow(t))
  <2> HIDE DEF q
  <2> QED BY <1>2, StepFacts
<1>4. SendableNow(t)' = SendableNow(t)
  BY <1>1 DEF allButSync, SendableNow, Sendable, ResultsOf
<1>5. /\ UNCHANGED <<boards, memory, outbox, newest, holders, jobs, enabled, news, late,
                     serverVars, kept, made>>
      /\ holders' \in [Tab -> SUBSET {"root", "page"}] /\ holders'[t] # {}
      /\ enabled' \subseteq scene.tabs /\ news' \subseteq scene.tabs
  BY <1>1 DEF allButSync, restVars, TabTypes, SetTypes, Awaiting
<1> HIDE DEF s
<1> QED BY <1>1, <1>3, <1>4, <1>5, SyncSteps

\* A new pass changes nothing but the stale results to skip.
LEMMA NewPassFacts ==
  ASSUME NEW s \in SyncState
  PROVE  /\ NewPass(s) \in SyncState /\ SyncShape(NewPass(s)) <=> SyncShape(s)
         /\ NewPass(s).state = s.state /\ NewPass(s).sent = s.sent /\ NewPass(s).reply = s.reply
         /\ NewPass(s).stale = {}
BY DEF SyncState, NewPass, SyncShape

\* Retries keeps the invariant.
LEMMA RetriesInv ==
  ASSUME IInv, NEW t \in scene.tabs, Retries(t), UNCHANGED scene
  PROVE  IInv'
<1> USE TabFacts
<1> DEFINE s == NewPass(Enter(sync[t], WaitFor(sync[t])))
<1>1. /\ sync' = [sync EXCEPT ![t] = s] /\ sync[t] # None /\ UNCHANGED <<allButSync>>
  BY DEF Retries, Answered, Awaiting
<1>2. WaitFor(sync[t]) \in {"backoff", "rateLimited", "notYet"}
  BY DEF WaitFor
<1>3. Stepped(s, boards[t].pending, SendableNow(t)')
  <2>1. /\ Enter(sync[t], WaitFor(sync[t])) \in SyncState /\ SyncShape(Enter(sync[t], WaitFor(sync[t])))
        /\ Enter(sync[t], WaitFor(sync[t])).state = WaitFor(sync[t])
    BY <1>1, <1>2, IdleFacts
  <2>2. s \in SyncState /\ SyncShape(s) /\ s.state = WaitFor(sync[t])
    BY <2>1, NewPassFacts
  <2> HIDE DEF s
  <2> QED BY <2>2, <1>2 DEF Stepped
<1>5. /\ UNCHANGED <<boards, memory, outbox, newest, holders, jobs, enabled, news, late,
                     serverVars, kept, made>>
      /\ holders' \in [Tab -> SUBSET {"root", "page"}] /\ holders'[t] # {}
      /\ enabled' \subseteq scene.tabs /\ news' \subseteq scene.tabs
  BY <1>1 DEF allButSync, restVars, TabTypes, SetTypes
<1> HIDE DEF s
<1> QED BY <1>1, <1>3, <1>5, SyncSteps

\* A request that a sync abandons is a message.
LEMMA AbandonedTyped ==
  ASSUME IInv, NEW t \in scene.tabs
  PROVE  Abandoned(sync[t]) \subseteq Message
BY TabFacts DEF Abandoned, SyncState, SyncShape

\* TimesOut keeps the invariant.
LEMMA TimesOutInv ==
  ASSUME IInv, NEW t \in scene.tabs, TimesOut(t), UNCHANGED scene
  PROVE  IInv'
<1> USE TabFacts
<1> DEFINE s == NewPass(Enter(sync[t], "backoff"))
<1>1. /\ sync' = [sync EXCEPT ![t] = s] /\ sync[t] # None
      /\ late' = late \cup Abandoned(sync[t])
      /\ UNCHANGED <<boards, holders, enabled, jobs, memory, news, outbox, serverVars, restVars>>
  BY DEF TimesOut, Awaiting
<1>2. s \in SyncState /\ SyncShape(s) /\ s.state = "backoff"
  BY <1>1, IdleFacts, NewPassFacts
<1>3. sync'[t] = s
  BY <1>1 DEF TabTypes
<1> HIDE DEF s
<1>4. SendsPending(t)' /\ WillWake(t)'
  BY <1>2, <1>3 DEF SendsPending, WillWake, Awaiting
<1>5. ServerTypes' /\ SetTypes' /\ landed \subseteq landed' /\ jobs' \in [Tab -> Seq(Jobs)]
      /\ holders' \in [Tab -> SUBSET {"root", "page"}] /\ holders'[t] # {}
  BY <1>1, AbandonedTyped DEF ServerTypes, SetTypes, serverVars, restVars, TabTypes
<1>6. UNCHANGED <<boards, memory, outbox, newest, holders, jobs, enabled, news>>
  BY <1>1 DEF restVars
<1> QED BY <1>1, <1>2, <1>4, <1>5, <1>6, SyncMoves

\* ResultSettled keeps the invariant: the removal it orders will wake the sync.
LEMMA ResultSettledInv ==
  ASSUME IInv, NEW t \in scene.tabs, ResultSettled(t), UNCHANGED scene
  PROVE  IInv'
<1> USE TabFacts
<1> DEFINE s == NewPass(Idle(sync[t]))
           removal == Removing(sync[t].sent.text)
<1>1. /\ sync' = [sync EXCEPT ![t] = s] /\ Awaiting(t) /\ sync[t].sent.kind = "result"
      /\ jobs' = [jobs EXCEPT ![t] = IF Contains(jobs[t], removal) THEN jobs[t]
                                     ELSE Append(jobs[t], removal)]
      /\ UNCHANGED <<boards, holders, enabled, memory, news, outbox, late, serverVars, restVars>>
  BY DEF ResultSettled, Answered, TabTypes
<1>2. s \in SyncState /\ SyncShape(s) /\ s.state = "idle"
  BY <1>1, IdleFacts, NewPassFacts DEF Awaiting
<1>3. removal \in Jobs
  <2>1. sync[t] \in SyncState /\ sync[t].state = "sending" /\ sync[t].sent # None
    BY <1>1 DEF Awaiting, SyncShape
  <2>2. sync[t].sent.text \in Ours
    BY <2>1, <1>1 DEF SyncState, Message
  <2> QED BY <2>2 DEF Removing, Jobs
<1>4. sync'[t] = s
  BY <1>1 DEF TabTypes
<1>5. jobs' \in [Tab -> Seq(Jobs)] /\ jobs'[t] # <<>> /\ \A u \in Tab \ {t} : jobs'[u] = jobs[u]
  <2> HIDE DEF removal
  <2>1. jobs[t] \in Seq(Jobs)
    BY DEF TabTypes
  <2> DEFINE q == IF Contains(jobs[t], removal) THEN jobs[t] ELSE Append(jobs[t], removal)
  <2>2. q \in Seq(Jobs) /\ q # <<>>
    <3>1. CASE Contains(jobs[t], removal)
      BY <3>1, <2>1 DEF Contains
    <3>2. CASE ~Contains(jobs[t], removal)
      <4>1. q = Append(jobs[t], removal)
        BY <3>2
      <4> HIDE DEF q
      <4>2. q \in Seq(Jobs) /\ Len(q) = Len(jobs[t]) + 1 /\ Len(jobs[t]) \in Nat
        BY <4>1, <2>1, <1>3
      <4> QED BY <4>2
    <3> QED BY <3>1, <3>2
  <2>3. jobs' = [jobs EXCEPT ![t] = q]
    BY <1>1
  <2> HIDE DEF q
  <2> QED BY <2>2, <2>3 DEF TabTypes
<1> HIDE DEF s
<1>6. SendsPending(t)' /\ WillWake(t)'
  BY <1>2, <1>4, <1>5 DEF SendsPending, WillWake, Awaiting
<1>7. ServerTypes' /\ SetTypes' /\ landed \subseteq landed'
      /\ holders' \in [Tab -> SUBSET {"root", "page"}] /\ holders'[t] # {}
  BY <1>1 DEF ServerTypes, SetTypes, serverVars, restVars, TabTypes, Awaiting
<1>8. UNCHANGED <<boards, memory, outbox, newest, holders, enabled, news>>
  BY <1>1 DEF restVars
<1> QED BY <1>1, <1>2, <1>5, <1>6, <1>7, <1>8, SyncMoves
-----------------------------------------------------------------------------
\* A step of the server or of the world: no tab changes.
LEMMA NoTabMoves ==
  ASSUME IInv, UNCHANGED <<scene, tabVars, outbox, newest, kept, made>>, ServerTypes',
         landed \subseteq landed'
  PROVE  IInv'
<1>1. TabTypes /\ SetTypes /\ IsInjective(outbox)
      /\ \A t \in Tab : SyncHeld(t) /\ IsInjective(ResultsOf(t)) /\ TabInv(t)
  BY TypeParts DEF IInv
<1>2. TabTypes' /\ SetTypes'
  BY <1>1 DEF TabTypes, SetTypes, tabVars
<1>3. ASSUME NEW u \in Tab PROVE SyncHeld(u)' /\ IsInjective(ResultsOf(u))' /\ TabInv(u)'
  <2>1. Aside(u) /\ UNCHANGED news
    BY DEF Aside, tabVars
  <2>2. ResultsOf(u)' = ResultsOf(u)
    BY DEF ResultsOf, tabVars
  <2> QED BY <2>1, <2>2, <1>1, OtherTab
<1>4. TypeOK'
  BY <1>2, <1>3
     DEF TypeOK, TabTypes, ServerTypes, SetTypes, SyncHeld, SyncShape, Boards, Jobs, Refusal
<1> QED BY <1>1, <1>3, <1>4 DEF IInv, tabVars

\* Recording a result adds its signatures and takes none away.
LEMMA RecordTypes ==
  ASSUME ServerTypes, NEW e \in Envelope, Record(e), late' \subseteq Message
  PROVE  /\ ServerTypes' /\ landed \subseteq landed'
         /\ \A p \in Payload : signed[p] \subseteq signed'[p]
         /\ content[e].signers \subseteq signed'[content[e].payload]
<1>1. content[e].payload \in Payload /\ content[e].signers \subseteq Side
  BY SyncAssumption DEF Payload
<1> QED BY <1>1 DEF ServerTypes, Record

\* The server forgets no board and no signature, and an ok means it has the
\* message.
LEMMA HandleTypes ==
  ASSUME ServerTypes, NEW m \in Message, Handle(m), late' \subseteq Message
  PROVE  /\ ServerTypes' /\ landed \subseteq landed'
         /\ \A p \in Payload : signed[p] \subseteq signed'[p]
         /\ ReplyTo(m) = "ok" /\ m.kind = "board" => m.text \in landed'
         /\ ReplyTo(m) = "ok" /\ m.kind = "result" =>
              content[m.text].signers \subseteq signed'[content[m.text].payload]
<1>0. /\ m.kind = "board" => m.text \in Board
      /\ m.kind = "result" => m.text \in Envelope
      /\ m.kind \in {"board", "result"}
  BY SyncAssumption DEF Message
<1>1. CASE ReplyTo(m) # "ok"
  BY <1>1 DEF Handle, ServerTypes, serverVars
<1>2. CASE ReplyTo(m) = "ok" /\ m.kind = "result"
  BY <1>0, <1>2, RecordTypes DEF Handle
<1>3. CASE ReplyTo(m) = "ok" /\ m.kind = "board"
  <2>1. board' = m.text /\ landed' = landed \cup {m.text} /\ UNCHANGED <<head, signed>>
    BY <1>3 DEF Handle
  <2> QED BY <2>1, <1>0, <1>3 DEF ServerTypes
<1> QED BY <1>0, <1>1, <1>2, <1>3

\* ServerReplies keeps the invariant: an ok for a board follows its landing.
LEMMA ServerRepliesInv ==
  ASSUME IInv, NEW t \in scene.tabs, ServerReplies(t), UNCHANGED scene
  PROVE  IInv'
<1> USE TabFacts
<1> DEFINE m == sync[t].sent
           s == [sync[t] EXCEPT !.reply = ReplyTo(m)]
<1>1. /\ sync' = [sync EXCEPT ![t] = s] /\ Unanswered(t) /\ Handle(m)
      /\ UNCHANGED <<boards, holders, enabled, jobs, memory, news, outbox, late, restVars>>
  BY DEF ServerReplies, TabTypes
<1>2. sync[t] \in SyncState /\ sync[t].state = "sending" /\ m \in Message
  BY <1>1 DEF Unanswered, Awaiting, SyncShape, SyncState
<1>3. ReplyTo(m) \in Reply
  BY DEF ReplyTo, Reply
<1>4. s \in SyncState /\ SyncShape(s) /\ s.reply = ReplyTo(m) /\ s.state = "sending" /\ s.sent = m
  BY <1>2, <1>3 DEF SyncState, SyncShape
<1>5. sync'[t] = s
  BY <1>1 DEF TabTypes
<1>6. ServerTypes' /\ landed \subseteq landed' /\ (ReplyTo(m) = "ok" /\ m.kind = "board" => m.text \in landed')
  <2>1. late' \subseteq Message
    BY <1>1 DEF ServerTypes
  <2> QED BY <2>1, <1>1, <1>2, HandleTypes
<1> HIDE DEF s
<1>7. WillWake(t)'
  BY <1>4, <1>5 DEF WillWake
<1>8. SendsPending(t)'
  <2>1. SendsPending(t)
    BY DEF TabInv
  <2> QED BY <2>1, <1>1, <1>2, <1>4, <1>5, <1>6 DEF SendsPending, Awaiting
<1>9. SetTypes' /\ jobs' \in [Tab -> Seq(Jobs)]
      /\ holders' \in [Tab -> SUBSET {"root", "page"}] /\ holders'[t] # {}
  BY <1>1, <1>2 DEF SetTypes, restVars, TabTypes
<1>10. UNCHANGED <<boards, memory, outbox, newest, holders, jobs, enabled, news>>
  BY <1>1 DEF restVars
<1> QED BY <1>1, <1>4, <1>6, <1>7, <1>8, <1>9, <1>10, SyncMoves

\* LateLands keeps the invariant.
LEMMA LateLandsInv ==
  ASSUME IInv, NEW m \in late, LateLands(m), UNCHANGED scene
  PROVE  IInv'
<1>1. ServerTypes /\ m \in Message
  BY TypeParts DEF IInv, ServerTypes
<1>2. late' \subseteq Message /\ Handle(m) /\ UNCHANGED <<tabVars, outbox, restVars>>
  BY <1>1 DEF LateLands, ServerTypes
<1> QED BY <1>1, <1>2, HandleTypes, NoTabMoves DEF restVars

\* OtherPhone keeps the invariant.
LEMMA OtherPhoneInv ==
  ASSUME IInv, NEW e \in Envelope, OtherPhone(e), UNCHANGED scene
  PROVE  IInv'
<1>1. ServerTypes
  BY TypeParts DEF IInv
<1>2. late' \subseteq Message /\ Record(e) /\ UNCHANGED <<tabVars, outbox, restVars>>
  BY <1>1 DEF OtherPhone, ServerTypes
<1> QED BY <1>1, <1>2, RecordTypes, NoTabMoves DEF restVars

\* A step that only changes the network, a permission or an envelope's age.
LEMMA WorldInv ==
  ASSUME IInv, UNCHANGED <<scene, tabVars, outbox, late, serverVars, newest, made, kept>>
  PROVE  IInv'
<1>1. ServerTypes
  BY TypeParts DEF IInv
<1>2. ServerTypes' /\ landed \subseteq landed'
  BY <1>1 DEF ServerTypes, serverVars
<1> QED BY <1>2, NoTabMoves
-----------------------------------------------------------------------------
\* Hold keeps the invariant.
LEMMA HoldInv ==
  ASSUME IInv, NEW t \in scene.tabs, NEW who \in {"root", "page"}, Hold(t, who), UNCHANGED scene
  PROVE  IInv'
<1> USE TabFacts
<1> DEFINE q == IF sync[t] = None THEN NewSync ELSE sync[t]
           s == Kicked(q, boards[t].pending, SendableNow(t))
<1>1. /\ sync' = [sync EXCEPT ![t] = s] /\ holders' = [holders EXCEPT ![t] = @ \cup {who}]
      /\ UNCHANGED <<boards, enabled, jobs, memory, news, outbox, late, serverVars, restVars>>
  BY DEF Hold, TabTypes
<1>2. q \in SyncState /\ SyncShape(q) /\ (q.state = "sending" => q = sync[t] /\ sync[t] # None)
  BY DEF NewSync, SyncState, SyncShape
<1>3. Stepped(s, boards[t].pending, SendableNow(t)) \/ (q.state = "sending" /\ s = q)
  <2> HIDE DEF q
  <2> QED BY <1>2, KickedFacts
<1>4. SendableNow(t)' = SendableNow(t)
  BY <1>1 DEF SendableNow, Sendable, ResultsOf
<1>5. /\ UNCHANGED <<boards, memory, outbox, newest, jobs, enabled, news, late, serverVars, kept,
                     made>>
      /\ holders' \in [Tab -> SUBSET {"root", "page"}] /\ holders'[t] # {}
      /\ enabled' \subseteq scene.tabs /\ news' \subseteq scene.tabs
  BY <1>1 DEF restVars, TabTypes, SetTypes
<1>6. \A u \in Tab \ {t} : holders'[u] = holders[u]
  BY <1>1 DEF TabTypes
<1> HIDE DEF s
<1>7. \/ Stepped(s, boards[t].pending, SendableNow(t)')
      \/ sync[t] # None /\ sync[t].state = "sending" /\ s = sync[t]
  BY <1>2, <1>3, <1>4
<1> QED BY <1>1, <1>5, <1>6, <1>7, SyncSteps

\* SessionLoads keeps the invariant.
LEMMA SessionLoadsInv ==
  ASSUME IInv, NEW t \in scene.tabs, SessionLoads(t), UNCHANGED scene
  PROVE  IInv'
<1> USE TabFacts
<1>1. /\ enabled' = enabled \cup {t} /\ t \notin enabled
      /\ sync' = [sync EXCEPT ![t] = IF @ = None THEN None ELSE Kicked(@, boards[t].pending, ResultsOf(t))]
      /\ UNCHANGED <<boards, holders, jobs, memory, news, outbox, late, serverVars, restVars>>
  BY DEF SessionLoads
<1>2. SendableNow(t)' = ResultsOf(t)
  BY <1>1 DEF SendableNow, Sendable, ResultsOf
<1>3. CASE sync[t] # None
  <2> DEFINE s == Kicked(sync[t], boards[t].pending, ResultsOf(t))
  <2>1. Stepped(s, boards[t].pending, ResultsOf(t)) \/ (sync[t].state = "sending" /\ s = sync[t])
    BY <1>3, KickedFacts
  <2>2. /\ UNCHANGED <<boards, memory, outbox, newest, holders, jobs, news, late, serverVars,
                       kept, made>>
        /\ holders' \in [Tab -> SUBSET {"root", "page"}] /\ holders'[t] # {}
        /\ enabled' \subseteq scene.tabs /\ news' \subseteq scene.tabs
        /\ sync' = [sync EXCEPT ![t] = s]
    BY <1>1, <1>3 DEF restVars, TabTypes, SetTypes
  <2>3. \A u \in Tab \ {t} : u \in enabled' <=> u \in enabled
    BY <1>1
  <2> HIDE DEF s
  <2> QED BY <1>2, <1>3, <2>1, <2>2, <2>3, SyncSteps
<1>4. CASE sync[t] = None
  <2>1. sync' = sync
    BY <1>1, <1>4 DEF TabTypes
  <2>2. SyncHeld(t)' /\ SendsPending(t)' /\ WillWake(t)'
    BY <2>1, <1>1, <1>4, NoSync
  <2>3. PendingIsNewest(t)' /\ SyncedLanded(t)'
    BY <1>1 DEF TabInv, PendingIsNewest, SyncedLanded, serverVars, restVars
  <2>4. TabTypes' /\ ServerTypes' /\ SetTypes'
    BY <1>1, <2>1 DEF TabTypes, ServerTypes, SetTypes, serverVars, restVars
  <2>5. \A u \in Tab \ {t} : Aside(u) /\ (u \in news => u \in news')
    BY <1>1, <2>1 DEF Aside, restVars
  <2>6. ResultsOf(t)' = ResultsOf(t)
    BY <1>1 DEF ResultsOf
  <2> QED BY <1>1, <2>2, <2>3, <2>4, <2>5, <2>6, OneTab DEF TabInv, serverVars
<1> QED BY <1>3, <1>4
\* SessionGoes keeps the invariant: with no session there is no result to send.
LEMMA SessionGoesInv ==
  ASSUME IInv, NEW t \in scene.tabs, SessionGoes(t), UNCHANGED scene
  PROVE  IInv'
<1> USE TabFacts
<1>1. /\ enabled' = enabled \ {t}
      /\ UNCHANGED <<boards, sync, holders, jobs, memory, news, outbox, late, serverVars,
                     restVars>>
  BY DEF SessionGoes
<1>2. SendableNow(t)' = <<>>
  BY <1>1 DEF SendableNow, Sendable
<1>3. SyncHeld(t)' /\ SendsPending(t)' /\ PendingIsNewest(t)' /\ SyncedLanded(t)'
  BY <1>1
     DEF TabInv, SyncHeld, SendsPending, Awaiting, PendingIsNewest, SyncedLanded, serverVars,
         restVars
<1>4. NextResult(sync'[t], SendableNow(t)') = None
  BY <1>2 DEF NextResult
<1>5. WillWake(t)'
  BY <1>1, <1>4 DEF TabInv, WillWake
<1>6. TabTypes' /\ ServerTypes' /\ SetTypes'
  BY <1>1 DEF TabTypes, ServerTypes, SetTypes, serverVars, restVars
<1>7. \A u \in Tab \ {t} : Aside(u) /\ (u \in news => u \in news')
  BY <1>1 DEF Aside, restVars
<1>8. ResultsOf(t)' = ResultsOf(t)
  BY <1>1 DEF ResultsOf
<1> QED BY <1>1, <1>3, <1>5, <1>6, <1>7, <1>8, OneTab DEF TabInv, serverVars

\* What saveBoard() does, whatever jobs the step adds.
LEMMA PutBoardInv ==
  ASSUME IInv, NEW t \in scene.tabs, NEW b \in Board, PutBoard(t, b), UNCHANGED scene,
         UNCHANGED <<holders, enabled, memory, news, outbox, late, serverVars, kept>>,
         made' \subseteq Ours, jobs' \in [Tab -> Seq(Jobs)],
         \A u \in Tab \ {t} : jobs'[u] = jobs[u]
  PROVE  IInv'
<1> USE TabFacts
<1>1. /\ boards' = [boards EXCEPT ![t].pending = b] /\ newest' = [newest EXCEPT ![t] = b]
      /\ sync' = [sync EXCEPT ![t] = Saved(@, b, SendableNow(t))]
  BY DEF PutBoard
<1>2. SendableNow(t)' = SendableNow(t) /\ ResultsOf(t)' = ResultsOf(t)
  BY DEF SendableNow, Sendable, ResultsOf
<1>3. /\ boards' \in [Tab -> Boards] /\ boards'[t].pending = b /\ boards'[t].synced = boards[t].synced
      /\ boards'[t].refused = boards[t].refused /\ b # None
  <2>1. b # None
    BY SyncAssumption DEF Board
  <2> DEFINE c == [boards[t] EXCEPT !.pending = b]
  <2>2. c \in Boards /\ c.pending = b /\ c.synced = boards[t].synced /\ c.refused = boards[t].refused
    BY DEF Boards
  <2>3. boards' = [boards EXCEPT ![t] = c]
    BY <1>1 DEF TabTypes
  <2> HIDE DEF c
  <2> QED BY <2>1, <2>2, <2>3 DEF TabTypes
<1>4. /\ sync' \in [Tab -> SyncState \cup {None}]
      /\ SendsPending(t)' /\ WillWake(t)' /\ SyncHeld(t)'
  BY <1>1, <1>2, <1>3, SavedTab DEF serverVars
<1>5. PendingIsNewest(t)' /\ SyncedLanded(t)'
  <2>1. newest'[t] = b
    BY <1>1 DEF TabTypes
  <2>2. landed' = landed
    BY DEF serverVars
  <2> QED BY <1>3, <2>1, <2>2 DEF TabInv, PendingIsNewest, SyncedLanded
<1>6. TabTypes' /\ ServerTypes' /\ SetTypes'
  BY <1>1, <1>3, <1>4 DEF TabTypes, ServerTypes, SetTypes, serverVars
<1>7. \A u \in Tab \ {t} : Aside(u) /\ (u \in news => u \in news')
  BY <1>1 DEF Aside, TabTypes
<1> QED BY <1>2, <1>4, <1>5, <1>6, <1>7, OneTab DEF TabInv, serverVars

\* SaveBoard keeps the invariant.
LEMMA SaveBoardInv ==
  ASSUME IInv, NEW t \in scene.tabs, NEW b \in Draft, SaveBoard(t, b), UNCHANGED scene
  PROVE  IInv'
BY TabFacts, PutBoardInv DEF SaveBoard, TabTypes, SetTypes, worldVars, Board

\* An envelope's adding is a job.
LEMMA AddingTyped ==
  ASSUME NEW e \in Ours
  PROVE  Adding(e) \in Jobs
BY DEF Adding, Jobs

\* Submit keeps the invariant.
LEMMA SubmitInv ==
  ASSUME IInv, NEW t \in scene.tabs, NEW e \in Ours, Submit(t, e), UNCHANGED scene
  PROVE  IInv'
<1> USE TabFacts
<1>1. /\ PutBoard(t, e) /\ jobs' = [jobs EXCEPT ![t] = Append(@, Adding(e))]
      /\ made' = made \cup {e}
      /\ UNCHANGED <<holders, enabled, memory, news, outbox, late, serverVars, kept>>
  BY DEF Submit
<1>2. jobs' \in [Tab -> Seq(Jobs)] /\ \A u \in Tab \ {t} : jobs'[u] = jobs[u]
  <2>1. Append(jobs[t], Adding(e)) \in Seq(Jobs)
    BY AddingTyped DEF TabTypes
  <2> QED BY <1>1, <2>1 DEF TabTypes
<1>3. e \in Board /\ made' \subseteq Ours
  BY <1>1, SyncAssumption DEF Board, SetTypes
<1> QED BY <1>1, <1>2, <1>3, PutBoardInv

\* Approve keeps the invariant: its jobs will wake the sync.
LEMMA ApproveInv ==
  ASSUME IInv, NEW t \in scene.tabs, NEW e \in Ours, NEW f \in Ours, Approve(t, e, f),
         UNCHANGED scene
  PROVE  IInv'
<1> USE TabFacts
<1>1. /\ jobs' = [jobs EXCEPT ![t] = @ \o <<Adding(e), Adding(f)>>] /\ made' = made \cup {f}
      /\ UNCHANGED <<boards, sync, holders, enabled, memory, news, outbox, late, serverVars,
                     worldVars, newest, kept, bounds>>
  BY DEF Approve
<1>2. jobs' \in [Tab -> Seq(Jobs)] /\ jobs'[t] # <<>> /\ \A u \in Tab \ {t} : jobs'[u] = jobs[u]
  <2> DEFINE q == <<Adding(e), Adding(f)>>
  <2>1. q \in Seq(Jobs) /\ Len(q) = 2
    BY AddingTyped
  <2>2. jobs[t] \in Seq(Jobs)
    BY DEF TabTypes
  <2> HIDE DEF q
  <2>3. jobs[t] \o q \in Seq(Jobs) /\ jobs[t] \o q # <<>>
    BY <2>1, <2>2, ConcatNotEmpty
  <2>5. jobs' = [jobs EXCEPT ![t] = jobs[t] \o q]
    BY <1>1 DEF q
  <2> QED BY <2>3, <2>5 DEF TabTypes
<1>3. SyncHeld(t)' /\ SendsPending(t)' /\ PendingIsNewest(t)' /\ SyncedLanded(t)'
  BY <1>1 DEF TabInv, SyncHeld, SendsPending, Awaiting, PendingIsNewest, SyncedLanded, serverVars
<1>5. WillWake(t)'
  BY <1>2 DEF WillWake
<1>6. TabTypes' /\ ServerTypes' /\ SetTypes'
  BY <1>1, <1>2 DEF TabTypes, ServerTypes, SetTypes, serverVars
<1>7. \A u \in Tab \ {t} : Aside(u) /\ (u \in news => u \in news')
  BY <1>1, <1>2 DEF Aside
<1>8. ResultsOf(t)' = ResultsOf(t)
  BY <1>1 DEF ResultsOf
<1> QED BY <1>1, <1>3, <1>5, <1>6, <1>7, <1>8, OneTab DEF TabInv, serverVars

\* Release keeps the invariant.
LEMMA ReleaseInv ==
  ASSUME IInv, NEW t \in scene.tabs, NEW who \in {"root", "page"}, Release(t, who),
         UNCHANGED scene
  PROVE  IInv'
<1> USE TabFacts
<1> DEFINE last == holders[t] = {who}
<1>1. /\ holders' = [holders EXCEPT ![t] = @ \ {who}] /\ who \in holders[t]
      /\ sync' = IF last THEN [sync EXCEPT ![t] = None] ELSE sync
      /\ late' = IF last THEN late \cup Abandoned(sync[t]) ELSE late
      /\ UNCHANGED <<boards, enabled, jobs, memory, news, outbox, serverVars, restVars>>
  BY DEF Release
<1>2. holders' \in [Tab -> SUBSET {"root", "page"}]
  BY <1>1 DEF TabTypes
<1>3. sync' \in [Tab -> SyncState \cup {None}] /\ SyncHeld(t)' /\ SendsPending(t)' /\ WillWake(t)'
  <2>1. CASE last
    <3>1. sync'[t] = None /\ holders'[t] = {} /\ sync' \in [Tab -> SyncState \cup {None}]
      BY <2>1, <1>1 DEF TabTypes
    <3> QED BY <3>1 DEF SyncHeld, SendsPending, WillWake, Awaiting
  <2>2. CASE ~last
    <3>1. sync' = sync /\ holders'[t] # {} /\ holders[t] # {} /\ sync' \in [Tab -> SyncState \cup {None}]
      BY <2>2, <1>1 DEF TabTypes
    <3>2. SendableNow(t)' = SendableNow(t)
      BY <1>1 DEF SendableNow, Sendable, ResultsOf
    <3> QED BY <3>1, <3>2, <1>1 DEF SyncHeld, SendsPending, WillWake, Awaiting, TabInv, serverVars
  <2> QED BY <2>1, <2>2
<1>4. PendingIsNewest(t)' /\ SyncedLanded(t)'
  BY <1>1 DEF TabInv, PendingIsNewest, SyncedLanded, serverVars, restVars
<1>5. late' \subseteq Message
  BY <1>1, AbandonedTyped DEF ServerTypes
<1>6. TabTypes' /\ ServerTypes' /\ SetTypes'
  BY <1>1, <1>2, <1>3, <1>5 DEF TabTypes, ServerTypes, SetTypes, serverVars, restVars
<1>7. \A u \in Tab \ {t} : Aside(u) /\ (u \in news => u \in news')
  BY <1>1 DEF Aside, TabTypes, restVars
<1>8. ResultsOf(t)' = ResultsOf(t)
  BY <1>1 DEF ResultsOf
<1> QED BY <1>1, <1>3, <1>4, <1>6, <1>7, <1>8, OneTab DEF TabInv, serverVars

\* Reload keeps the invariant.
LEMMA ReloadInv ==
  ASSUME IInv, NEW t \in scene.tabs, Reload(t), UNCHANGED scene
  PROVE  IInv'
<1> USE TabFacts
<1>1. /\ boards' = [boards EXCEPT ![t] = NoBoards] /\ sync' = [sync EXCEPT ![t] = None]
      /\ holders' = [holders EXCEPT ![t] = {}] /\ jobs' = [jobs EXCEPT ![t] = <<>>]
      /\ memory' = [memory EXCEPT ![t] = None] /\ news' = news \ {t} /\ enabled' = enabled \ {t}
      /\ newest' = [newest EXCEPT ![t] = None] /\ late' = late \cup Abandoned(sync[t])
      /\ UNCHANGED <<outbox, serverVars, worldVars, made, kept, saves, fails>>
  BY DEF Reload
<1>2. /\ boards'[t] = NoBoards /\ sync'[t] = None /\ holders'[t] = {} /\ memory'[t] = None
      /\ newest'[t] = None
  BY <1>1 DEF TabTypes
<1>3. SyncHeld(t)' /\ SendsPending(t)' /\ WillWake(t)' /\ PendingIsNewest(t)' /\ SyncedLanded(t)'
  BY <1>2 DEF SyncHeld, SendsPending, WillWake, PendingIsNewest, SyncedLanded, Awaiting, NoBoards
<1>4. NoBoards \in Boards
  BY DEF NoBoards, Boards
<1>5. late' \subseteq Message
  BY <1>1, AbandonedTyped DEF ServerTypes
<1>6. TabTypes'
  BY <1>1, <1>4 DEF TabTypes
<1>7. ServerTypes' /\ SetTypes'
  BY <1>1, <1>5 DEF ServerTypes, SetTypes, serverVars
<1>8. \A u \in Tab \ {t} : Aside(u) /\ (u \in news => u \in news')
  BY <1>1 DEF Aside, TabTypes
<1>9. IsInjective(ResultsOf(t)')
  BY <1>1, <1>2 DEF ResultsOf
<1> QED BY <1>1, <1>3, <1>6, <1>7, <1>8, <1>9, OneTab DEF TabInv, serverVars
\* What send() does once a board was taken or dropped.
LEMMA BoardDoneInv ==
  ASSUME IInv, NEW t \in scene.tabs, Awaiting(t), sync[t].sent.kind = "board",
         NEW s \in SyncState, SyncShape(s), s.state = "idle",
         NEW facts \in Boards, BoardDone(t, s, facts), UNCHANGED scene,
         \/ /\ facts.synced = sync[t].sent.text /\ sync[t].reply = "ok"
         \/ facts.synced = boards[t].synced /\ facts.refused # None
  PROVE  IInv'
<1> USE TabFacts
<1> DEFINE pending == IF boards[t].pending = sync[t].sent.text THEN None ELSE boards[t].pending
           r == Step(s, pending, SendableNow(t))
           f == [facts EXCEPT !.pending = pending]
<1>1. /\ boards' = [boards EXCEPT ![t] = f] /\ sync' = [sync EXCEPT ![t] = r]
      /\ UNCHANGED <<holders, enabled, jobs, memory, news, outbox, late, serverVars, restVars>>
  BY DEF BoardDone
<1>2. pending \in Board \cup {None}
  OBVIOUS
<1>3. f \in Boards /\ f.pending = pending /\ f.synced = facts.synced /\ f.refused = facts.refused
  <2> HIDE DEF pending
  <2> QED BY <1>2 DEF Boards
<1>4. Stepped(r, pending, SendableNow(t))
  <2> HIDE DEF pending
  <2> QED BY <1>2, StepFacts
<1>5. SendableNow(t)' = SendableNow(t) /\ ResultsOf(t)' = ResultsOf(t)
  BY <1>1 DEF SendableNow, Sendable, ResultsOf
<1> HIDE DEF r, f
<1>6. boards'[t] = f /\ sync'[t] = r /\ r \in SyncState /\ r # None /\ holders'[t] # {}
  BY <1>1, <1>4 DEF TabTypes, Stepped, Awaiting
<1>7. SyncHeld(t)' /\ SendsPending(t)' /\ WillWake(t)'
  BY <1>3, <1>4, <1>5, <1>6, SteppedTab
<1>8. newest'[t] = newest[t] /\ landed' = landed
  BY <1>1 DEF restVars, serverVars
<1>9. boards[t].pending # None /\ newest[t] = boards[t].pending
      /\ (sync[t].reply = "ok" => sync[t].sent.text \in landed)
  BY DEF TabInv, SendsPending, PendingIsNewest
<1>10. PendingIsNewest(t)'
  BY <1>3, <1>6, <1>8, <1>9 DEF PendingIsNewest
<1>11. SyncedLanded(t)'
  <2>1. CASE facts.synced = sync[t].sent.text /\ sync[t].reply = "ok"
    BY <2>1, <1>3, <1>6, <1>8, <1>9 DEF SyncedLanded
  <2>2. CASE facts.synced = boards[t].synced /\ facts.refused # None
    <3>1. boards[t].synced \in landed \cup {None}
      BY DEF TabInv, SyncedLanded
    <3> QED BY <3>1, <2>2, <1>3, <1>6, <1>8 DEF SyncedLanded
  <2> QED BY <2>1, <2>2
<1>12. TabTypes' /\ ServerTypes' /\ SetTypes'
  BY <1>1, <1>3, <1>6 DEF TabTypes, ServerTypes, SetTypes, serverVars, restVars
<1>13. \A u \in Tab \ {t} : Aside(u) /\ (u \in news => u \in news')
  BY <1>1 DEF Aside, TabTypes, restVars
<1> QED BY <1>1, <1>5, <1>7, <1>10, <1>11, <1>12, <1>13, OneTab DEF TabInv, serverVars

\* A sync that awaits an answer sent a board or one of this device's results.
LEMMA SentTyped ==
  ASSUME IInv, NEW t \in scene.tabs, Awaiting(t)
  PROVE  /\ sync[t] \in SyncState /\ sync[t].sent \in Message
         /\ sync[t].sent.kind = "board" => sync[t].sent.text \in Board
         /\ sync[t].sent.kind = "result" => sync[t].sent.text \in Ours
<1>1. sync[t] \in SyncState /\ sync[t].sent \in Message
  BY TabFacts DEF Awaiting, SyncShape, SyncState
<1> QED BY <1>1 DEF Message

\* BoardTaken keeps the invariant.
LEMMA BoardTakenInv ==
  ASSUME IInv, NEW t \in scene.tabs, BoardTaken(t), UNCHANGED scene
  PROVE  IInv'
<1> USE TabFacts
<1> DEFINE facts == [boards[t] EXCEPT !.synced = sync[t].sent.text, !.refused = None]
<1>1. /\ Awaiting(t) /\ sync[t].sent.kind = "board" /\ sync[t].reply = "ok"
      /\ BoardDone(t, Idle(sync[t]), facts)
  BY DEF BoardTaken, Answered
<1>2. sync[t] \in SyncState /\ sync[t].sent.text \in Board
  BY <1>1, SentTyped
<1>3. facts \in Boards /\ facts.synced = sync[t].sent.text
  BY <1>2 DEF Boards
<1>4. Idle(sync[t]) \in SyncState /\ SyncShape(Idle(sync[t])) /\ Idle(sync[t]).state = "idle"
  BY <1>2, IdleFacts
<1> HIDE DEF facts
<1> QED BY <1>1, <1>3, <1>4, BoardDoneInv

\* BoardRefused keeps the invariant.
LEMMA BoardRefusedInv ==
  ASSUME IInv, NEW t \in scene.tabs, BoardRefused(t), UNCHANGED scene
  PROVE  IInv'
<1> USE TabFacts
<1> DEFINE why == IF sync[t].reply = "final" THEN "final" ELSE "other"
           facts == [boards[t] EXCEPT !.refused = why]
<1>1. /\ Awaiting(t) /\ sync[t].sent.kind = "board"
      /\ BoardDone(t, NewPass(Idle(sync[t])), facts)
  BY DEF BoardRefused, Answered
<1>2. sync[t] \in SyncState
  BY <1>1, SentTyped
<1>3. why \in {"final", "other"} /\ why # None
  BY SyncAssumption DEF Refusal
<1> HIDE DEF why
<1>4. facts \in Boards /\ facts.synced = boards[t].synced /\ facts.refused # None
  BY <1>3 DEF Boards, Refusal
<1>5. LET s == NewPass(Idle(sync[t])) IN s \in SyncState /\ SyncShape(s) /\ s.state = "idle"
  BY <1>2, IdleFacts, NewPassFacts
<1> HIDE DEF facts
<1> QED BY <1>1, <1>4, <1>5, BoardDoneInv
\* What the granted lock leaves: the tab reads what it wrote.
LEMMA WriteFacts ==
  ASSUME IInv, NEW t \in scene.tabs, NEW works \in BOOLEAN, Write(t, works)
  PROVE  LET after == Changed(Head(jobs[t]), ResultsOf(t)) IN
         /\ Head(jobs[t]) \in Jobs /\ jobs[t] # <<>>
         /\ after \in Seq(Ours) /\ IsInjective(after)
         /\ outbox' = IF works THEN after ELSE outbox
         /\ memory' = [memory EXCEPT ![t] = IF works /\ memory[t] = None THEN None ELSE after]
         /\ memory' \in [Tab -> Seq(Ours) \cup {None}]
         /\ ResultsOf(t)' = after
         /\ jobs' = [jobs EXCEPT ![t] = Tail(@)] /\ jobs' \in [Tab -> Seq(Jobs)]
<1> USE TabFacts
<1> DEFINE after == Changed(Head(jobs[t]), ResultsOf(t))
<1>1. /\ jobs[t] # <<>> /\ outbox' = IF works THEN after ELSE outbox
      /\ memory' = [memory EXCEPT ![t] = IF works /\ memory[t] = None THEN None ELSE after]
      /\ jobs' = [jobs EXCEPT ![t] = Tail(@)]
  BY DEF Write, TabTypes
<1>2. Head(jobs[t]) \in Jobs /\ jobs[t] \in Seq(Jobs) /\ Tail(jobs[t]) \in Seq(Jobs)
  BY <1>1 DEF TabTypes
<1>3. after \in Seq(Ours) /\ IsInjective(after)
  BY <1>2, ChangedFacts DEF Jobs
<1>4. after # None
  BY <1>3, SyncAssumption
<1> HIDE DEF after
<1>5. memory' \in [Tab -> Seq(Ours) \cup {None}]
  <2> DEFINE m == IF works /\ memory[t] = None THEN None ELSE after
  <2>1. m \in Seq(Ours) \cup {None} /\ memory' = [memory EXCEPT ![t] = m]
    BY <1>1, <1>3
  <2> HIDE DEF m
  <2> QED BY <2>1 DEF TabTypes
<1>6. ResultsOf(t)' = after
  <2>1. CASE works /\ memory[t] = None
    BY <2>1, <1>1 DEF ResultsOf, TabTypes
  <2>2. CASE ~(works /\ memory[t] = None)
    BY <2>2, <1>1, <1>4 DEF ResultsOf, TabTypes
  <2> QED BY <2>1, <2>2
<1>7. jobs' \in [Tab -> Seq(Jobs)]
  BY <1>1, <1>2 DEF TabTypes
<1> QED BY <1>1, <1>2, <1>3, <1>5, <1>6, <1>7 DEF after

\* Write keeps the invariant: other tabs are to hear of what they may send now.
LEMMA WriteInv ==
  ASSUME IInv, NEW t \in scene.tabs, NEW works \in BOOLEAN, Write(t, works), UNCHANGED scene
  PROVE  IInv'
<1> USE TabFacts
<1> DEFINE after == Changed(Head(jobs[t]), ResultsOf(t))
<1>1. /\ sync' = [sync EXCEPT ![t] = Saved(@, boards[t].pending, Sendable(t, after))]
      /\ news' = IF outbox' = outbox THEN news ELSE news \cup (scene.tabs \ {t})
      /\ kept' = IF works THEN kept \cup ToSet(after) ELSE kept
      /\ UNCHANGED <<boards, holders, enabled, late, serverVars, worldVars, newest, made>>
  BY DEF Write
<1>2. /\ after \in Seq(Ours) /\ IsInjective(after)
      /\ outbox' = IF works THEN after ELSE outbox
      /\ memory' = [memory EXCEPT ![t] = IF works /\ memory[t] = None THEN None ELSE after]
      /\ memory' \in [Tab -> Seq(Ours) \cup {None}]
      /\ ResultsOf(t)' = after
      /\ jobs' = [jobs EXCEPT ![t] = Tail(@)] /\ jobs' \in [Tab -> Seq(Jobs)]
  BY WriteFacts
<1> HIDE DEF after
<1>3. Sendable(t, after) \in Seq(Ours) /\ SendableNow(t)' = Sendable(t, after)
  BY <1>1, <1>2 DEF SendableNow, Sendable
<1>4. /\ sync' \in [Tab -> SyncState \cup {None}]
      /\ SendsPending(t)' /\ WillWake(t)' /\ SyncHeld(t)'
  BY <1>1, <1>3, SavedTab DEF serverVars
<1>5. PendingIsNewest(t)' /\ SyncedLanded(t)'
  BY <1>1 DEF TabInv, PendingIsNewest, SyncedLanded, serverVars
<1>6. outbox' \in Seq(Ours) /\ IsInjective(outbox')
  BY <1>2 DEF TabTypes
<1>7. TabTypes' /\ ServerTypes'
  BY <1>1, <1>2, <1>4, <1>6 DEF TabTypes, ServerTypes, serverVars
<1>8. SetTypes'
  <2>1. ToSet(after) \subseteq Ours
    BY <1>2 DEF ToSet
  <2>2. kept' \subseteq Ours /\ news' \subseteq scene.tabs
    BY <1>1, <2>1 DEF SetTypes
  <2> QED BY <1>1, <2>2 DEF SetTypes
<1>9. \A u \in Tab \ {t} : Aside(u) /\ (u \in news => u \in news')
  <2>1. ASSUME NEW u \in Tab \ {t} PROVE Aside(u)
    BY <1>1, <1>2 DEF Aside, TabTypes
  <2> QED BY <2>1, <1>1
<1>10. outbox' = outbox \/ news' = news \cup (scene.tabs \ {t})
  BY <1>1
<1>11. IsInjective(ResultsOf(t)') /\ TabInv(t)'
  BY <1>2, <1>4, <1>5 DEF TabInv
<1> QED BY <1>1, <1>4, <1>6, <1>7, <1>8, <1>9, <1>10, <1>11, OneTab DEF serverVars
-----------------------------------------------------------------------------
\* The invariant holds at first.
LEMMA InitInv ==
  ASSUME Init
  PROVE  IInv
<1>0. scene.tabs \subseteq Tab
  BY SyncAssumption DEF Init
<1>1. TabTypes
  BY DEF Init, TabTypes, NoBoards, Boards
<1>2. ServerTypes /\ SetTypes
  BY <1>0 DEF Init, ServerTypes, SetTypes
<1>3. \A t \in Tab : SyncHeld(t) /\ ResultsOf(t) = <<>> /\ TabInv(t)
  BY DEF Init, SyncHeld, ResultsOf, TabInv, SendsPending, PendingIsNewest, SyncedLanded, WillWake,
         Awaiting, NoBoards
<1>4. IsInjective(<<>>)
  BY DEF IsInjective
<1> QED BY <1>1, <1>2, <1>3, <1>4, TypeParts DEF IInv, Init

\* Every step keeps the invariant.
LEMMA NextInv ==
  ASSUME IInv, [Next]_vars
  PROVE  IInv'
<1>1. CASE UNCHANGED vars
  BY <1>1, WorldInv DEF vars, moving, restVars
<1>2. ASSUME NEW t \in scene.tabs, TabStep(t), UNCHANGED scene
      PROVE  IInv'
  <2>1. ASSUME NEW b \in Draft, SaveBoard(t, b) PROVE IInv'
    BY <1>2, <2>1, SaveBoardInv
  <2>2. ASSUME NEW e \in Ours, Submit(t, e) PROVE IInv'
    BY <1>2, <2>2, SubmitInv
  <2>3. ASSUME NEW e \in Ours, NEW f \in Ours, Approve(t, e, f) PROVE IInv'
    BY <1>2, <2>3, ApproveInv
  <2>4. ASSUME NEW works \in BOOLEAN, Write(t, works) PROVE IInv'
    BY <1>2, <2>4, WriteInv
  <2>5. ASSUME NEW reply \in {"failed", "limited"}, ServerFails(t, reply) PROVE IInv'
    BY <1>2, <2>5, ServerFailsInv
  <2>6. ASSUME NEW who \in {"root", "page"}, Hold(t, who) \/ Release(t, who) PROVE IInv'
    BY <1>2, <2>6, HoldInv, ReleaseInv
  <2>7. HearStorage(t) \/ ServerReplies(t) \/ BoardTaken(t) \/ BoardRefused(t) => IInv'
    BY <1>2, HearStorageInv, ServerRepliesInv, BoardTakenInv, BoardRefusedInv
  <2>8. ResultSettled(t) \/ NextInPass(t) \/ Retries(t) \/ Timer(t) \/ Wakes(t) => IInv'
    BY <1>2, ResultSettledInv, NextInPassInv, RetriesInv, TimerInv, WakesInv
  <2>9. TimesOut(t) \/ SessionLoads(t) \/ SessionGoes(t) \/ Reload(t) => IInv'
    BY <1>2, TimesOutInv, SessionLoadsInv, SessionGoesInv, ReloadInv
  <2> QED BY <1>2, <2>1, <2>2, <2>3, <2>4, <2>5, <2>6, <2>7, <2>8, <2>9 DEF TabStep
<1>3. ASSUME NEW m \in late, LateLands(m), UNCHANGED scene PROVE IInv'
  BY <1>3, LateLandsInv
<1>4. ASSUME NEW e \in Envelope, OtherPhone(e), UNCHANGED scene PROVE IInv'
  BY <1>4, OtherPhoneInv
<1>5. ASSUME NEW e, Ages(e), UNCHANGED scene PROVE IInv'
  BY <1>5, WorldInv DEF Ages
<1>6. ASSUME Connects \/ Allow, UNCHANGED scene PROVE IInv'
  BY <1>6, WorldInv DEF Connects, Allow
<1> QED BY <1>1, <1>2, <1>3, <1>4, <1>5, <1>6 DEF Next

\* The invariant says what SyncInv does.
LEMMA IInvImplies ==
  ASSUME IInv
  PROVE  SyncInv
<1>1. TypeOK
  BY DEF IInv
<1>2. SyncedBoardsLanded
  BY DEF IInv, TabInv, SyncedLanded, SyncedBoardsLanded
<1>3. NothingForgotten
  BY DEF IInv, TabInv, WillWake, NothingForgotten, AtRest
<1> QED BY <1>1, <1>2, <1>3 DEF SyncInv

\* The inductive invariant of a web device's sends.
THEOREM SyncIInv == Spec => []IInv
BY InitInv, NextInv, PTL DEF Spec

\* Whatever tabs, saves, answers, losses and reloads: the pad says synced only of
\* a board the server took, and a sync that rests has nothing it could send and
\* missed no save or write (sync.ts: saved() and step()).
THEOREM SyncIsSafe == Spec => []SyncInv
BY SyncIInv, IInvImplies, PTL
-----------------------------------------------------------------------------
\* Not an answer that ends the request.
Untold(s) == s.state = "sending" => s.reply \notin {"ok", "refused", "stale"}

\* A sync that just looked has no answer yet.
LEMMA SteppedUntold ==
  ASSUME NEW s, NEW pending, NEW queued, Stepped(s, pending, queued)
  PROVE  Untold(s)
BY SyncAssumption DEF Stepped, Untold, Reply

\* A look at what there is to send keeps the results to skip.
LEMMA SkipsStay ==
  ASSUME NEW s \in SyncState, NEW pending, NEW queued
  PROVE  /\ Step(s, pending, queued).stale = s.stale
         /\ Saved(s, pending, queued).stale = s.stale
         /\ Kicked(s, pending, queued).stale = s.stale
<1>1. ASSUME NEW q \in SyncState PROVE Step(q, pending, queued).stale = q.stale
  BY DEF Step, Enter, Idle, Sending, SyncState
<1>2. Idle(s) \in SyncState /\ Idle(s).stale = s.stale /\ s # None
  BY IdleFacts, SyncAssumption
<1> QED BY <1>1, <1>2 DEF Saved, Kicked

\* A save or a wake-up leaves a sync as it is, or without an answer and with its
\* results to skip, and never moves one that a 429 holds back.
LEMMA SavedOrKept ==
  ASSUME NEW s \in SyncState, SyncShape(s),
         NEW pending \in Board \cup {None}, NEW queued \in Seq(Ours)
  PROVE  /\ \/ Saved(s, pending, queued) = s
            \/ Untold(Saved(s, pending, queued)) /\ s.state # "rateLimited"
         /\ \/ Kicked(s, pending, queued) = s
            \/ Untold(Kicked(s, pending, queued)) /\ s.state # "rateLimited"
         /\ Saved(s, pending, queued).stale = s.stale
         /\ Kicked(s, pending, queued).stale = s.stale
<1>1. CASE s.state = "rateLimited"
  BY <1>1, SyncAssumption, SkipsStay DEF Saved, Kicked, Step
<1>2. CASE s.state # "rateLimited"
  <2> DEFINE r == Saved(s, pending, queued)
             k == Kicked(s, pending, queued)
  <2>1. Stepped(r, pending, queued) \/ r = s
    BY SavedFacts
  <2>2. Stepped(k, pending, queued) \/ k = s
    BY KickedFacts
  <2> HIDE DEF r, k
  <2>3. (Untold(r) \/ r = s) /\ (Untold(k) \/ k = s)
    BY <2>1, <2>2, SteppedUntold
  <2> QED BY <2>3, <1>2, SkipsStay DEF r, k
<1> QED BY <1>1, <1>2

\* What a step makes of the results that a pass skips.
SkipsChange(t) ==
  \/ sync'[t].stale = {}
  \/ sync[t] # None /\ sync'[t].stale = sync[t].stale
  \/ NextInPass(t) /\ sync'[t].stale = sync[t].stale \cup {sync[t].sent.text}

\* How a step may change a tab's sync.
SyncChange(t) ==
  \/ sync'[t] = sync[t] \/ sync'[t] = None \/ ServerReplies(t)
  \/ /\ Untold(sync'[t]) /\ SkipsChange(t)
     /\ sync[t] = None \/ sync[t].state # "rateLimited" \/ Timer(t)

\* So does a step that calls saved() in its tab.
LEMMA SavedChange ==
  ASSUME IInv, NEW t \in scene.tabs, NEW pending \in Board \cup {None}, NEW queued \in Seq(Ours),
         sync' = [sync EXCEPT ![t] = Saved(@, pending, queued)]
  PROVE  SyncChange(t)
<1> USE TabFacts
<1>1. sync'[t] = Saved(sync[t], pending, queued)
  BY DEF TabTypes
<1>2. CASE sync[t] = None
  BY <1>1, <1>2 DEF Saved, SyncChange
<1>3. CASE sync[t] # None
  <2>1. sync[t] \in SyncState /\ SyncShape(sync[t])
    BY <1>3
  <2>2. \/ Saved(sync[t], pending, queued) = sync[t]
        \/ Untold(Saved(sync[t], pending, queued)) /\ sync[t].state # "rateLimited"
    BY <2>1, SavedOrKept
  <2>3. Saved(sync[t], pending, queued).stale = sync[t].stale
    BY <2>1, SavedOrKept
  <2> QED BY <1>1, <1>3, <2>2, <2>3 DEF SyncChange, SkipsChange
<1> QED BY <1>2, <1>3

\* And one that calls kick().
LEMMA KickedChange ==
  ASSUME IInv, NEW t \in scene.tabs, NEW s \in SyncState, SyncShape(s),
         s = sync[t] \/ (sync[t] = None /\ s.state = "idle" /\ s.stale = {}),
         NEW queued \in Seq(Ours),
         sync' = [sync EXCEPT ![t] = Kicked(s, boards[t].pending, queued)]
  PROVE  SyncChange(t)
<1> USE TabFacts
<1>1. sync'[t] = Kicked(s, boards[t].pending, queued)
  BY DEF TabTypes
<1>2. \/ Kicked(s, boards[t].pending, queued) = s
      \/ Untold(Kicked(s, boards[t].pending, queued)) /\ s.state # "rateLimited"
  BY SavedOrKept
<1>3. s.state = "idle" => Untold(s)
  BY DEF Untold
<1>4. sync'[t].stale = s.stale /\ s # None
  BY <1>1, SkipsStay
<1> QED BY <1>1, <1>2, <1>3, <1>4 DEF SyncChange, SkipsChange

\* Every step of a tab changes its sync in one of those ways.
LEMMA TabStepChange ==
  ASSUME IInv, NEW t \in scene.tabs, TabStep(t)
  PROVE  SyncChange(t)
<1> USE TabFacts
<1>0. ASSUME NEW s, sync' = [sync EXCEPT ![t] = s], Untold(s), Awaiting(t) \/ Timer(t),
             \/ s.stale \in {{}, sync[t].stale}
             \/ NextInPass(t) /\ s.stale = sync[t].stale \cup {sync[t].sent.text}
      PROVE  SyncChange(t)
  <2>1. sync'[t] = s /\ sync[t] # None
    BY <1>0 DEF TabTypes, Awaiting, Timer
  <2> QED BY <1>0, <2>1 DEF SyncChange, SkipsChange, Awaiting
<1>1. ASSUME NEW b \in Board, PutBoard(t, b) PROVE SyncChange(t)
  BY <1>1, SavedChange DEF PutBoard
<1>2. ASSUME NEW b \in Draft, SaveBoard(t, b) PROVE SyncChange(t)
  BY <1>1, <1>2 DEF SaveBoard, Board
<1>3. ASSUME NEW e \in Ours, Submit(t, e) PROVE SyncChange(t)
  BY <1>1, <1>3, SyncAssumption DEF Submit, Board
<1>4. ASSUME NEW e \in Ours, NEW f \in Ours, Approve(t, e, f) PROVE SyncChange(t)
  BY <1>4 DEF Approve, SyncChange
<1>5. ASSUME NEW works \in BOOLEAN, Write(t, works) PROVE SyncChange(t)
  <2> DEFINE after == Changed(Head(jobs[t]), ResultsOf(t))
  <2>1. after \in Seq(Ours)
    BY <1>5, WriteFacts
  <2>2. sync' = [sync EXCEPT ![t] = Saved(@, boards[t].pending, Sendable(t, after))]
    BY <1>5 DEF Write
  <2> HIDE DEF after
  <2>3. Sendable(t, after) \in Seq(Ours)
    BY <2>1 DEF Sendable
  <2> QED BY <2>2, <2>3, SavedChange
<1>6. CASE HearStorage(t)
  BY <1>6, SavedChange DEF HearStorage
<1>7. CASE ServerReplies(t)
  BY <1>7 DEF SyncChange
<1>8. ASSUME NEW reply \in {"failed", "limited"}, ServerFails(t, reply) PROVE SyncChange(t)
  <2> DEFINE s == [sync[t] EXCEPT !.reply = reply]
  <2>1. sync' = [sync EXCEPT ![t] = s] /\ Awaiting(t)
    BY <1>8 DEF ServerFails, Unanswered
  <2>2. s.reply = reply /\ s.stale = sync[t].stale
    BY <2>1 DEF Awaiting, SyncState
  <2> HIDE DEF s
  <2> QED BY <1>0, <2>1, <2>2 DEF Untold
<1>9. ASSUME Awaiting(t), NEW s \in SyncState, SyncShape(s), s.state = "idle", NEW facts,
             s.stale \in {{}, sync[t].stale}, BoardDone(t, s, facts)
      PROVE  SyncChange(t)
  <2> DEFINE pending == IF boards[t].pending = sync[t].sent.text THEN None ELSE boards[t].pending
             r == Step(s, pending, SendableNow(t))
  <2>1. sync' = [sync EXCEPT ![t] = r]
    BY <1>9 DEF BoardDone
  <2>2. Untold(r) /\ r.stale = s.stale
    <3>1. pending \in Board \cup {None}
      OBVIOUS
    <3> HIDE DEF pending
    <3>2. Untold(r)
      BY <3>1, <1>9, StepFacts, SteppedUntold
    <3>3. r.stale = s.stale
      BY <3>1, <1>9, SkipsStay
    <3> QED BY <3>2, <3>3
  <2> HIDE DEF r
  <2> QED BY <1>0, <1>9, <2>1, <2>2
<1>10. CASE BoardTaken(t)
  <2>1. Awaiting(t) /\ \E facts : BoardDone(t, Idle(sync[t]), facts)
    BY <1>10 DEF BoardTaken, Answered
  <2>2. LET s == Idle(sync[t])
        IN s \in SyncState /\ SyncShape(s) /\ s.state = "idle" /\ s.stale = sync[t].stale
    BY <2>1, IdleFacts DEF Awaiting
  <2> QED BY <1>9, <2>1, <2>2
<1>11. CASE BoardRefused(t)
  <2>1. Awaiting(t) /\ \E facts : BoardDone(t, NewPass(Idle(sync[t])), facts)
    BY <1>11 DEF BoardRefused, Answered
  <2>2. LET s == NewPass(Idle(sync[t]))
        IN s \in SyncState /\ SyncShape(s) /\ s.state = "idle" /\ s.stale = {}
    BY <2>1, IdleFacts, NewPassFacts DEF Awaiting
  <2> QED BY <1>9, <2>1, <2>2
<1>12. CASE ResultSettled(t)
  <2>1. Awaiting(t) /\ sync' = [sync EXCEPT ![t] = NewPass(Idle(sync[t]))]
    BY <1>12 DEF ResultSettled, Answered, TabTypes
  <2>2. NewPass(Idle(sync[t])).state = "idle" /\ NewPass(Idle(sync[t])).stale = {}
    BY <2>1, IdleFacts, NewPassFacts DEF Awaiting
  <2>3. Untold(NewPass(Idle(sync[t])))
    BY <2>2 DEF Untold
  <2> QED BY <1>0, <2>1, <2>2, <2>3
<1>13. CASE NextInPass(t)
  <2> DEFINE q == Idle(Skipping(sync[t]))
             r == Step(q, boards[t].pending, SendableNow(t))
  <2>1. Awaiting(t) /\ sync[t].sent.kind = "result" /\ sync' = [sync EXCEPT ![t] = r]
    BY <1>13 DEF NextInPass, Answered
  <2>2. sync[t] \in SyncState /\ sync[t].sent.text \in Envelope
    BY <2>1, SentTyped, SyncAssumption
  <2>3. /\ Skipping(sync[t]) \in SyncState
        /\ Skipping(sync[t]).stale = sync[t].stale \cup {sync[t].sent.text}
    BY <2>2 DEF Skipping, SyncState
  <2>4. /\ q \in SyncState /\ SyncShape(q) /\ q.state = "idle"
        /\ q.stale = sync[t].stale \cup {sync[t].sent.text}
    BY <2>3, IdleFacts
  <2>5. Untold(r) /\ r.stale = sync[t].stale \cup {sync[t].sent.text}
    <3> HIDE DEF q
    <3>1. Untold(r)
      BY <2>4, StepFacts, SteppedUntold
    <3>2. r.stale = q.stale
      BY <2>4, SkipsStay
    <3> QED BY <2>4, <3>1, <3>2
  <2> HIDE DEF r
  <2> QED BY <1>0, <1>13, <2>1, <2>5
<1>14. CASE Retries(t) \/ TimesOut(t)
  <2>1. PICK state \in {"backoff", "rateLimited", "notYet"} :
          Awaiting(t) /\ sync' = [sync EXCEPT ![t] = NewPass(Enter(@, state))]
    <3>1. WaitFor(sync[t]) \in {"backoff", "rateLimited", "notYet"}
      BY DEF WaitFor
    <3> QED BY <1>14, <3>1 DEF Retries, TimesOut, Answered
  <2>2. sync' = [sync EXCEPT ![t] = NewPass(Enter(sync[t], state))]
    BY <2>1 DEF TabTypes
  <2>3. NewPass(Enter(sync[t], state)).state = state /\ NewPass(Enter(sync[t], state)).stale = {}
    BY <2>1, IdleFacts, NewPassFacts DEF Awaiting
  <2>4. Untold(NewPass(Enter(sync[t], state)))
    BY <2>3 DEF Untold
  <2> QED BY <1>0, <2>1, <2>2, <2>3, <2>4
<1>15. CASE Timer(t)
  <2> DEFINE q == Idle(sync[t])
             r == Step(q, boards[t].pending, SendableNow(t))
  <2>1. sync' = [sync EXCEPT ![t] = r] /\ sync[t] # None
    BY <1>15 DEF Timer
  <2>2. q \in SyncState /\ SyncShape(q) /\ q.state = "idle" /\ q.stale = sync[t].stale
    BY <2>1, IdleFacts
  <2>3. Untold(r) /\ r.stale = sync[t].stale
    <3> HIDE DEF q
    <3>1. Untold(r)
      BY <2>2, StepFacts, SteppedUntold
    <3>2. r.stale = q.stale
      BY <2>2, SkipsStay
    <3> QED BY <2>2, <3>1, <3>2
  <2> HIDE DEF r
  <2> QED BY <1>0, <1>15, <2>1, <2>3
<1>16. CASE Wakes(t)
  BY <1>16, KickedChange DEF Wakes
<1>17. ASSUME NEW who, Hold(t, who) PROVE SyncChange(t)
  <2> DEFINE q == IF sync[t] = None THEN NewSync ELSE sync[t]
  <2>1. sync' = [sync EXCEPT ![t] = Kicked(q, boards[t].pending, SendableNow(t))]
    BY <1>17 DEF Hold, TabTypes
  <2>2. /\ q \in SyncState /\ SyncShape(q)
        /\ q = sync[t] \/ (sync[t] = None /\ q.state = "idle" /\ q.stale = {})
    BY DEF NewSync, SyncState, SyncShape
  <2> HIDE DEF q
  <2> QED BY <2>1, <2>2, KickedChange
<1>18. ASSUME NEW who, Release(t, who) PROVE SyncChange(t)
  BY <1>18 DEF Release, SyncChange, TabTypes
<1>19. CASE SessionLoads(t)
  <2>1. sync' = [sync EXCEPT ![t] = IF @ = None THEN None ELSE Kicked(@, boards[t].pending, ResultsOf(t))]
    BY <1>19 DEF SessionLoads
  <2>2. CASE sync[t] = None
    BY <2>1, <2>2 DEF SyncChange, TabTypes
  <2>3. CASE sync[t] # None
    <3>1. sync' = [sync EXCEPT ![t] = Kicked(sync[t], boards[t].pending, ResultsOf(t))]
      BY <2>1, <2>3 DEF TabTypes
    <3> QED BY <3>1, <2>3, KickedChange
  <2> QED BY <2>2, <2>3
<1>20. CASE SessionGoes(t) \/ Reload(t)
  BY <1>20 DEF SessionGoes, Reload, SyncChange, TabTypes
<1> QED BY <1>2, <1>3, <1>4, <1>5, <1>6, <1>7, <1>8, <1>10, <1>11, <1>12, <1>13, <1>14, <1>15,
           <1>16, <1>17, <1>18, <1>19, <1>20 DEF TabStep

\* A step of a tab leaves the other tabs' syncs alone.
LEMMA OtherSyncs ==
  ASSUME IInv, NEW t \in scene.tabs, TabStep(t), NEW u \in Tab, u # t
  PROVE  sync'[u] = sync[u]
<1>1. TabTypes
  BY TabFacts
<1> QED BY <1>1
   DEF TabTypes, TabStep, SaveBoard, Submit, PutBoard, Approve, Write, HearStorage, ServerReplies,
   ServerFails, BoardTaken, BoardRefused, BoardDone, ResultSettled, NextInPass, Retries, Timer, Wakes,
   TimesOut, Hold, Release, SessionLoads, Reload, SessionGoes

\* Every step changes a sync in one of those ways.
LEMMA SyncChanges ==
  ASSUME IInv, [Next]_vars, NEW t \in Tab
  PROVE  SyncChange(t)
<1>1. CASE UNCHANGED sync
  BY <1>1 DEF SyncChange
<1>2. ASSUME NEW u \in scene.tabs, TabStep(u) PROVE SyncChange(t)
  BY <1>2, TabStepChange, OtherSyncs DEF SyncChange
<1>3. UNCHANGED sync \/ \E u \in scene.tabs : TabStep(u)
  BY DEF Next, vars, moving, tabVars, LateLands, OtherPhone, Ages, Connects, Allow
<1> QED BY <1>1, <1>2, <1>3

\* No save, wake-up, session or storage event cuts a 429's wait short in any tab:
\* its timer ends it, or the sync stops (sync.ts: kick()).
THEOREM RateLimitsWait == Spec => RateLimitWaits
<1>1. ASSUME IInv, [Next]_vars, NEW t \in Tab, sync[t] # None, sync[t].state = "rateLimited",
             sync'[t] # sync[t]
      PROVE  Timer(t) \/ sync'[t] = None
  <2>1. ~ServerReplies(t)
    BY <1>1 DEF ServerReplies, Unanswered, Awaiting
  <2> QED BY <1>1, <2>1, SyncChanges DEF SyncChange
<1>2. IInv /\ [Next]_vars =>
        [\A t \in Tab : sync[t] # None /\ sync[t].state = "rateLimited" /\ sync'[t] # sync[t]
                          => Timer(t) \/ sync'[t] = None]_vars
  BY <1>1
<1> QED BY <1>2, SyncIInv, PTL DEF Spec, RateLimitWaits
-----------------------------------------------------------------------------
\* The server has an envelope, or won't take it.
Settled(e) == Taken(e) \/ e \in scene.illegal \cup old

\* What a sync was told of a result is so.
AnswersTold ==
  \A t \in Tab :
    Awaiting(t) /\ sync[t].sent.kind = "result" /\ sync[t].reply \in {"ok", "refused"}
      => Settled(sync[t].sent.text)

\* Only what is settled is to be removed.
RemovesSettled ==
  \A t \in Tab : \A job \in ToSet(jobs[t]) : job.op = "remove" => Settled(job.envelope)

\* Until a write to localStorage fails.
StoreInv ==
  /\ fails \in Nat
  /\ fails = 0 => /\ \A t \in Tab : memory[t] = None
                  /\ AnswersTold /\ RemovesSettled /\ ResultsStay

\* The members of a queue, as it grows and shrinks.
LEMMA ToSetFacts ==
  ASSUME NEW S, NEW q \in Seq(S), NEW x \in S
  PROVE  /\ ToSet(Append(q, x)) = ToSet(q) \cup {x}
         /\ q # <<>> => ToSet(Tail(q)) \subseteq ToSet(q) /\ Head(q) \in ToSet(q)
         /\ \A e : Contains(q, e) <=> e \in ToSet(q)
<1>1. ToSet(Append(q, x)) = ToSet(q) \cup {x}
  <2>1. Len(Append(q, x)) = Len(q) + 1 /\ DOMAIN Append(q, x) = 1 .. Len(q) + 1 /\ DOMAIN q = 1 .. Len(q)
        /\ Append(q, x)[Len(q) + 1] = x /\ (\A i \in 1 .. Len(q) : Append(q, x)[i] = q[i]) /\ Len(q) \in Nat
    OBVIOUS
  <2> DEFINE r == Append(q, x)
  <2> HIDE DEF r
  <2>2. 1 .. Len(q) + 1 = 1 .. Len(q) \cup {Len(q) + 1}
    BY <2>1
  <2>3. ToSet(r) = {r[i] : i \in 1 .. Len(q) + 1} /\ ToSet(q) = {q[i] : i \in 1 .. Len(q)}
    BY <2>1 DEF ToSet, r
  <2> QED BY <2>1, <2>2, <2>3 DEF r
<1>2. q # <<>> => ToSet(Tail(q)) \subseteq ToSet(q) /\ Head(q) \in ToSet(q)
  BY DEF ToSet
<1>3. \A e : Contains(q, e) <=> e \in ToSet(q)
  BY DEF Contains, ToSet
<1> QED BY <1>1, <1>2, <1>3

\* Two more members at most.
LEMMA ToSetConcat ==
  ASSUME NEW S, NEW q \in Seq(S), NEW a \in S, NEW b \in S
  PROVE  ToSet(q \o <<a, b>>) \subseteq ToSet(q) \cup {a, b}
<1> DEFINE r == <<a, b>>
<1>1. r \in Seq(S) /\ Len(r) = 2 /\ r[1] = a /\ r[2] = b
  OBVIOUS
<1> HIDE DEF r
<1>2. /\ q \o r \in Seq(S) /\ Len(q \o r) = Len(q) + 2
      /\ \A i \in 1 .. Len(q) + 2 : (q \o r)[i] = IF i <= Len(q) THEN q[i] ELSE r[i - Len(q)]
  <2>1. r \in Seq(S)
    BY <1>1
  <2>2. /\ q \o r \in Seq(S) /\ Len(q \o r) = Len(q) + Len(r)
        /\ \A i \in 1 .. Len(q) + Len(r) :
             (q \o r)[i] = IF i <= Len(q) THEN q[i] ELSE r[i - Len(q)]
    BY <2>1, ConcatProperties, Zenon
  <2>3. Len(r) = 2
    BY <1>1
  <2> QED BY <2>2, <2>3
<1>3. ASSUME NEW i \in 1 .. Len(q) + 2
      PROVE  (q \o r)[i] \in ToSet(q) \cup {a, b}
  <2>1. CASE i <= Len(q)
    <3>1. i \in DOMAIN q /\ (q \o r)[i] = q[i]
      BY <1>2, <2>1
    <3> QED BY <3>1 DEF ToSet
  <2>2. CASE ~(i <= Len(q))
    <3>1. i - Len(q) = 1 \/ i - Len(q) = 2
      BY <2>2
    <3>2. (q \o r)[i] = r[i - Len(q)]
      BY <1>2, <2>2
    <3> QED BY <3>1, <3>2, <1>1
  <2> QED BY <2>1, <2>2
<1>4. DOMAIN (q \o r) = 1 .. Len(q) + 2
  BY <1>2
<1> QED BY <1>3, <1>4 DEF ToSet, r

\* The only removal a step orders is that of a result just settled.
JobsChange(u) ==
  \A job \in ToSet(jobs'[u]) :
    \/ job \in ToSet(jobs[u]) \/ job.op = "add"
    \/ ResultSettled(u) /\ job = Removing(sync[u].sent.text)

\* Every step changes a tab's jobs in this way.
LEMMA JobsChanges ==
  ASSUME IInv, NEW t \in scene.tabs, TabStep(t), NEW u \in Tab
  PROVE  JobsChange(u)
<1> USE TabFacts
<1>0. jobs[t] \in Seq(Jobs) /\ jobs \in [Tab -> Seq(Jobs)]
  BY DEF TabTypes
<1>1. ASSUME jobs'[u] = jobs[u] PROVE JobsChange(u)
  BY <1>1 DEF JobsChange
<1>2. ASSUME NEW e \in Ours, Submit(t, e) PROVE JobsChange(u)
  <2>1. CASE u = t
    <3>1. jobs'[t] = Append(jobs[t], Adding(e)) /\ Adding(e) \in Jobs
      BY <1>2, <1>0, AddingTyped DEF Submit
    <3>2. ToSet(jobs'[t]) = ToSet(jobs[t]) \cup {Adding(e)}
      BY <3>1, <1>0, ToSetFacts
    <3> QED BY <3>2, <2>1 DEF JobsChange, Adding
  <2>2. CASE u # t
    BY <1>0, <1>1, <1>2, <2>2 DEF Submit
  <2> QED BY <2>1, <2>2
<1>3. ASSUME NEW e \in Ours, NEW f \in Ours, Approve(t, e, f) PROVE JobsChange(u)
  <2>1. CASE u = t
    <3>1. jobs'[t] = jobs[t] \o <<Adding(e),
                                  Adding(f)>> /\ Adding(e) \in Jobs /\ Adding(f) \in Jobs
      BY <1>3, <1>0, AddingTyped DEF Approve
    <3>2. ToSet(jobs'[t]) \subseteq ToSet(jobs[t]) \cup {Adding(e), Adding(f)}
      BY <3>1, <1>0, ToSetConcat
    <3> QED BY <3>2, <2>1 DEF JobsChange, Adding
  <2>2. CASE u # t
    BY <1>0, <1>1, <1>3, <2>2 DEF Approve
  <2> QED BY <2>1, <2>2
<1>4. ASSUME NEW works, Write(t, works) PROVE JobsChange(u)
  <2>1. CASE u = t
    <3>1. jobs'[t] = Tail(jobs[t]) /\ jobs[t] # <<>>
      BY <1>4, <1>0 DEF Write
    <3>2. Head(jobs[t]) \in Jobs
      BY <3>1, <1>0
    <3>3. ToSet(jobs'[t]) \subseteq ToSet(jobs[t])
      BY <3>1, <3>2, <1>0, ToSetFacts
    <3> QED BY <3>3, <2>1 DEF JobsChange
  <2>2. CASE u # t
    BY <1>0, <1>1, <1>4, <2>2 DEF Write
  <2> QED BY <2>1, <2>2
<1>5. CASE ResultSettled(t)
  <2> DEFINE removal == Removing(sync[t].sent.text)
  <2>1. CASE u = t
    <3>1. jobs'[t] = IF Contains(jobs[t], removal) THEN jobs[t] ELSE Append(jobs[t], removal)
      BY <1>5, <1>0 DEF ResultSettled
    <3>2. removal \in Jobs
      BY <1>5, SentTyped DEF ResultSettled, Answered, Removing, Jobs
    <3>3. ToSet(jobs'[t]) \subseteq ToSet(jobs[t]) \cup {removal}
      <4> HIDE DEF removal
      <4>1. CASE Contains(jobs[t], removal)
        BY <4>1, <3>1
      <4>2. CASE ~Contains(jobs[t], removal)
        BY <4>2, <3>1, <3>2, <1>0, ToSetFacts
      <4> QED BY <4>1, <4>2
    <3> QED BY <3>3, <2>1, <1>5 DEF JobsChange
  <2>2. CASE u # t
    <3>1. jobs'[u] = jobs[u]
      BY <1>0, <1>5, <2>2 DEF ResultSettled
    <3> QED BY <1>1, <3>1
  <2> QED BY <2>1, <2>2
<1>6. CASE Reload(t)
  <2>1. CASE u = t
    <3>1. jobs'[u] = <<>>
      BY <1>6, <1>0, <2>1 DEF Reload
    <3> QED BY <3>1 DEF JobsChange, ToSet
  <2>2. CASE u # t
    BY <1>0, <1>1, <1>6, <2>2 DEF Reload
  <2> QED BY <2>1, <2>2
<1>7. CASE UNCHANGED jobs
  BY <1>7 DEF JobsChange
<1>8. \/ \E e \in Ours : Submit(t, e)
      \/ \E e, f \in Ours : Approve(t, e, f)
      \/ \E works \in BOOLEAN : Write(t, works)
      \/ ResultSettled(t) \/ Reload(t) \/ UNCHANGED jobs
  BY
     DEF TabStep, SaveBoard, HearStorage, ServerReplies, ServerFails, allButSync, BoardTaken,
         BoardRefused,
     BoardDone, NextInPass, Retries, Timer, Wakes, TimesOut, Hold, Release, SessionLoads, SessionGoes
<1> QED BY <1>2, <1>3, <1>4, <1>5, <1>6, <1>7, <1>8
\* The server keeps its signatures, and an envelope's age only grows.
LEMMA ServerGrows ==
  ASSUME IInv, [Next]_vars
  PROVE  /\ \A p \in Payload : signed[p] \subseteq signed'[p]
         /\ old \subseteq old' /\ UNCHANGED scene
<1>0. ServerTypes
  BY TypeParts DEF IInv
<1>1. UNCHANGED scene
  BY DEF Next, vars
<1>2. ASSUME NEW t \in scene.tabs, ServerReplies(t)
      PROVE  (\A p \in Payload : signed[p] \subseteq signed'[p]) /\ UNCHANGED old
  <2>1. sync[t].sent \in Message
    BY <1>2, SentTyped DEF ServerReplies, Unanswered
  <2>2. Handle(sync[t].sent) /\ late' \subseteq Message /\ UNCHANGED old
    BY <1>0, <1>2 DEF ServerReplies, restVars, worldVars, ServerTypes
  <2> QED BY <1>0, <2>1, <2>2, HandleTypes
<1>3. ASSUME NEW m \in late, LateLands(m)
      PROVE  (\A p \in Payload : signed[p] \subseteq signed'[p]) /\ UNCHANGED old
  <2>1. m \in Message /\ Handle(m) /\ late' \subseteq Message /\ UNCHANGED old
    BY <1>0, <1>3 DEF LateLands, restVars, worldVars, ServerTypes
  <2> QED BY <1>0, <2>1, HandleTypes
<1>4. ASSUME NEW e \in Envelope, OtherPhone(e)
      PROVE  (\A p \in Payload : signed[p] \subseteq signed'[p]) /\ UNCHANGED old
  <2>1. Record(e) /\ late' \subseteq Message /\ UNCHANGED old
    BY <1>0, <1>4 DEF OtherPhone, restVars, worldVars, ServerTypes
  <2> QED BY <1>0, <2>1, RecordTypes
<1>5. \/ \E t \in scene.tabs : ServerReplies(t)
      \/ \E m \in late : LateLands(m)
      \/ \E e \in Envelope : OtherPhone(e)
      \/ UNCHANGED signed /\ old \subseteq old'
  <2>1. ASSUME NEW t \in scene.tabs, TabStep(t)
        PROVE  ServerReplies(t) \/ UNCHANGED <<signed, old>>
    BY <2>1 DEF TabStep, SaveBoard, Submit, Approve, Write, HearStorage, ServerFails, allButSync,
       BoardTaken, BoardRefused, BoardDone, ResultSettled, NextInPass, Retries, Timer, Wakes, TimesOut,
       Hold, Release, SessionLoads, SessionGoes, Reload, serverVars, worldVars, restVars
  <2>2. ASSUME NEW e, Ages(e) PROVE UNCHANGED signed /\ old \subseteq old'
    BY <2>2 DEF Ages, serverVars
  <2>3. ASSUME Connects \/ Allow PROVE UNCHANGED <<signed, old>>
    BY <2>3 DEF Connects, Allow, serverVars
  <2>4. ASSUME UNCHANGED vars PROVE UNCHANGED <<signed, old>>
    BY <2>4 DEF vars, moving, serverVars, restVars, worldVars
  <2> QED BY <2>1, <2>2, <2>3, <2>4 DEF Next
<1> QED BY <1>1, <1>2, <1>3, <1>4, <1>5

\* So what is settled stays settled.
LEMMA SettledStays ==
  ASSUME IInv, [Next]_vars, NEW e \in Envelope, Settled(e)
  PROVE  Settled(e)'
<1>1. content[e].payload \in Payload
  BY DEF Payload
<1> QED BY <1>1, ServerGrows DEF Settled, Taken

\* An ok or a refusal of a result is true when it's given, and stays true.
LEMMA AnswersToldStep ==
  ASSUME IInv, AnswersTold, [Next]_vars
  PROVE  AnswersTold'
<1> SUFFICES ASSUME NEW t \in Tab, Awaiting(t)', sync'[t].sent.kind = "result",
                    sync'[t].reply \in {"ok", "refused"}, NEW e, e = sync'[t].sent.text
             PROVE  Settled(e)'
  <2>1. SUFFICES ASSUME NEW t \in Tab, Awaiting(t)', sync'[t].sent.kind = "result",
                        sync'[t].reply \in {"ok", "refused"}
                 PROVE  (Settled(sync[t].sent.text))'
    BY DEF AnswersTold
  <2>2. \A e : e = sync'[t].sent.text => Settled(e)'
    BY <2>1
  <2> QED BY <2>2 DEF Settled, Taken
<1>0. SyncChange(t) /\ UNCHANGED scene
  BY SyncChanges, ServerGrows
<1>1. CASE sync'[t] = sync[t]
  <2>1. Awaiting(t) /\ sync[t].sent.kind = "result" /\ sync[t].reply \in {"ok", "refused"}
    BY <1>1 DEF Awaiting
  <2>2. t \in scene.tabs
    BY <2>1 DEF IInv, Awaiting
  <2>3. e \in Envelope
    BY <2>1, <2>2, SentTyped, SyncAssumption, <1>1
  <2>4. Settled(e)
    BY <2>1, <1>1 DEF AnswersTold
  <2> QED BY <2>3, <2>4, SettledStays
<1>2. CASE ServerReplies(t)
  <2> DEFINE m == sync[t].sent
  <2>1. Awaiting(t)
    BY <1>2 DEF ServerReplies, Unanswered
  <2>2. t \in scene.tabs
    BY <2>1 DEF IInv, Awaiting
  <2>3. sync[t] \in SyncState /\ m \in Message
    BY <2>1, <2>2, SentTyped
  <2>4. sync' = [sync EXCEPT ![t].reply = ReplyTo(m)] /\ Handle(m) /\ UNCHANGED late
    BY <1>2 DEF ServerReplies
  <2>5. sync'[t] = [sync[t] EXCEPT !.reply = ReplyTo(m)]
    BY <2>2, <2>4, TabFacts DEF TabTypes
  <2>6. sync'[t].sent = m /\ sync'[t].reply = ReplyTo(m)
    BY <2>3, <2>5 DEF SyncState
  <2> HIDE DEF m
  <2>7. m.kind = "result" /\ ReplyTo(m) \in {"ok", "refused"}
    BY <2>6
  <2>8. CASE ReplyTo(m) = "ok"
    <3>1. ServerTypes /\ late' \subseteq Message
      BY <2>2, <2>4, TabFacts DEF ServerTypes
    <3>2. content[m.text].signers \subseteq signed'[content[m.text].payload]
      BY <2>3, <2>4, <2>7, <2>8, <3>1, HandleTypes
    <3>3. content[e].signers \subseteq signed'[content[e].payload]
      BY <3>2, <2>6
    <3> QED BY <3>3 DEF Settled, Taken
  <2>9. CASE ReplyTo(m) = "refused"
    <3>1. e \in scene.illegal
      BY <2>6, <2>7, <2>9 DEF ReplyTo
    <3> QED BY <3>1, <1>0 DEF Settled
  <2> QED BY <2>7, <2>8, <2>9
<1>3. CASE Untold(sync'[t]) \/ sync'[t] = None
  BY <1>3 DEF Untold, Awaiting
<1> QED BY <1>0, <1>1, <1>2, <1>3 DEF SyncChange

\* settle() drops only what the server has or won't take.
LEMMA SettlesOnlySettled ==
  ASSUME IInv, AnswersTold, NEW t \in scene.tabs, ResultSettled(t)
  PROVE  Settled(sync[t].sent.text)
<1>1. /\ Awaiting(t) /\ sync[t].sent.kind = "result" /\ ~NotYet(sync[t].sent, sync[t].reply)
      /\ sync[t].reply \in {"ok", "refused", "stale", "notAllowed"}
  BY DEF ResultSettled, Answered
<1>2. CASE sync[t].reply \in {"ok", "refused"}
  BY <1>1, <1>2, TabFacts DEF AnswersTold
<1>3. CASE sync[t].reply \in {"stale", "notAllowed"}
  BY <1>1, <1>3 DEF NotYet, Settled
<1> QED BY <1>1, <1>2, <1>3

\* Every waiting removal is of a settled envelope, and stays so.
LEMMA RemovesSettledStep ==
  ASSUME IInv, AnswersTold, RemovesSettled, [Next]_vars
  PROVE  RemovesSettled'
<1> SUFFICES ASSUME NEW u \in Tab, NEW job \in ToSet(jobs'[u]), job.op = "remove"
             PROVE  Settled(job.envelope)'
  BY DEF RemovesSettled
<1>1. job \in ToSet(jobs[u]) \/ (u \in scene.tabs /\ ResultSettled(u) /\ job = Removing(sync[u].sent.text))
  <2>1. CASE UNCHANGED jobs
    BY <2>1
  <2>2. ASSUME NEW t \in scene.tabs, TabStep(t)
        PROVE  job \in ToSet(jobs[u]) \/ (u \in scene.tabs /\ ResultSettled(u) /\ job = Removing(sync[u].sent.text))
    <3>1. JobsChange(u)
      BY <2>2, JobsChanges
    <3>2. ResultSettled(u) => u \in scene.tabs
      BY DEF ResultSettled, Answered, Awaiting, IInv
    <3> QED BY <3>1, <3>2 DEF JobsChange
  <2>3. UNCHANGED jobs \/ \E t \in scene.tabs : TabStep(t)
    BY DEF Next, vars, moving, tabVars, LateLands, OtherPhone, Ages, Connects, Allow
  <2> QED BY <2>1, <2>2, <2>3
<1>2. CASE job \in ToSet(jobs[u])
  <2>1. jobs[u] \in Seq(Jobs)
    BY TypeParts DEF IInv, TabTypes
  <2>2. job \in Jobs
    BY <1>2, <2>1 DEF ToSet
  <2>3. job.envelope \in Envelope
    BY <2>2, SyncAssumption DEF Jobs
  <2>4. Settled(job.envelope)
    BY <1>2 DEF RemovesSettled
  <2> QED BY <2>3, <2>4, SettledStays
<1>3. CASE u \in scene.tabs /\ ResultSettled(u) /\ job = Removing(sync[u].sent.text)
  <2>1. Settled(sync[u].sent.text)
    BY <1>3, SettlesOnlySettled
  <2>2. sync[u].sent.text \in Envelope
    BY <1>3, SentTyped, SyncAssumption DEF ResultSettled, Answered
  <2>4. job.envelope = sync[u].sent.text
    BY <1>3 DEF Removing
  <2> QED BY <2>1, <2>2, <2>4, SettledStays
<1> QED BY <1>1, <1>2, <1>3
\* Which steps write to storage, and what the other steps leave of it.
LEMMA StorageChanges ==
  ASSUME IInv, [Next]_vars
  PROVE  \/ \E t \in scene.tabs, works \in BOOLEAN : Write(t, works)
         \/ \E t \in scene.tabs : Reload(t)
         \/ UNCHANGED <<memory, outbox, kept, fails>>
<1>1. ASSUME NEW t \in scene.tabs, TabStep(t)
      PROVE  \/ \E works \in BOOLEAN : Write(t, works)
             \/ Reload(t) \/ UNCHANGED <<memory, outbox, kept, fails>>
  BY <1>1
     DEF TabStep, SaveBoard, Submit, Approve, HearStorage, ServerReplies, ServerFails, allButSync,
     BoardTaken, BoardRefused, BoardDone, ResultSettled, NextInPass, Retries, Timer, Wakes, TimesOut,
     Hold, Release, SessionLoads, SessionGoes, restVars, bounds
<1>2. \/ \E t \in scene.tabs : TabStep(t)
      \/ UNCHANGED <<memory, outbox, kept, fails>>
  BY
     DEF Next, vars, moving, tabVars, restVars, bounds, LateLands, OtherPhone, Ages, Connects,
         Allow
<1> QED BY <1>1, <1>2

\* Until a write fails no tab keeps to its memory.
LEMMA MemoryStays ==
  ASSUME IInv, fails \in Nat, fails = 0 => \A u \in Tab : memory[u] = None, [Next]_vars
  PROVE  fails' \in Nat /\ (fails' = 0 => fails = 0 /\ \A u \in Tab : memory'[u] = None)
<1>1. ASSUME NEW t \in scene.tabs, NEW works \in BOOLEAN, Write(t, works)
      PROVE  fails' \in Nat /\ (fails' = 0 => fails = 0 /\ \A u \in Tab : memory'[u] = None)
  <2>1. fails' = IF works THEN fails ELSE fails + 1
    BY <1>1 DEF Write
  <2>2. fails' = 0 => fails = 0 /\ works
    BY <2>1
  <2>3. ASSUME fails = 0, works, NEW u \in Tab PROVE memory'[u] = None
    <3>1. t \in Tab /\ memory[t] = None /\ memory[u] = None
      BY <2>3, TabFacts
    <3>2. memory' = [memory EXCEPT ![t] = None]
      BY <1>1, <2>3, <3>1, WriteFacts
    <3> QED BY <3>1, <3>2, TabFacts DEF TabTypes
  <2> QED BY <2>1, <2>2, <2>3
<1>2. ASSUME NEW t \in scene.tabs, Reload(t)
      PROVE  fails' \in Nat /\ (fails' = 0 => fails = 0 /\ \A u \in Tab : memory'[u] = None)
  BY <1>2, TabFacts DEF Reload, TabTypes
<1> QED BY <1>1, <1>2, StorageChanges

\* A write drops an envelope from localStorage only for a removal.
LEMMA ResultsStayStep ==
  ASSUME IInv, fails = 0, fails' = 0, \A u \in Tab : memory[u] = None,
         RemovesSettled, ResultsStay, [Next]_vars
  PROVE  ResultsStay'
<1>0. kept \subseteq Ours /\ Ours \subseteq Envelope /\ UNCHANGED scene
  BY SyncAssumption, ServerGrows DEF IInv, TypeOK
<1>1. ASSUME NEW e \in kept, Contains(outbox', e) \/ ~Contains(outbox, e)
      PROVE  Contains(outbox', e) \/ Settled(e)'
  <2>1. Contains(outbox, e) \/ Settled(e)
    BY DEF ResultsStay, Settled
  <2> QED BY <1>0, <1>1, <2>1, SettledStays
<1>2. ASSUME UNCHANGED <<outbox, kept>> PROVE ResultsStay'
  BY <1>1, <1>2 DEF ResultsStay, Settled, Taken
<1>3. ASSUME NEW t \in scene.tabs, NEW works \in BOOLEAN, Write(t, works)
      PROVE  ResultsStay'
  <2> DEFINE job == Head(jobs[t])
             after == Changed(job, outbox)
  <2>1. works
    BY <1>3 DEF Write
  <2>2. t \in Tab /\ ResultsOf(t) = outbox /\ outbox \in Seq(Ours) /\ IsInjective(outbox)
    BY TabFacts DEF ResultsOf, TabTypes
  <2>3. /\ job \in Jobs /\ jobs[t] # <<>> /\ after \in Seq(Ours) /\ outbox' = after
    BY <1>3, <2>1, <2>2, WriteFacts
  <2>4. kept' = kept \cup ToSet(after)
    BY <1>3, <2>1, <2>2 DEF Write
  <2>5. job \in ToSet(jobs[t])
    BY <2>2, <2>3, TabFacts, ToSetFacts DEF TabTypes
  <2>6. \A e : Contains(outbox, e) /\ ~Contains(after, e) => job.op = "remove" /\ e = job.envelope
    BY <2>2, <2>3, ChangedFacts DEF Jobs
  <2> HIDE DEF after, job
  <2>7. ASSUME NEW e \in kept' PROVE Contains(outbox', e) \/ Settled(e)'
    <3>1. CASE e \in ToSet(after)
      BY <2>3, <3>1 DEF Contains, ToSet
    <3>2. CASE e \in kept /\ (Contains(outbox', e) \/ ~Contains(outbox, e))
      BY <3>2, <1>1
    <3>3. CASE e \in kept /\ Contains(outbox, e) /\ ~Contains(outbox', e)
      <4>1. job.op = "remove" /\ e = job.envelope
        BY <2>3, <2>6, <3>3
      <4>2. Settled(e)
        BY <4>1, <2>2, <2>5 DEF RemovesSettled
      <4> QED BY <4>2, <3>3, <1>0, SettledStays
    <3> QED BY <2>4, <3>1, <3>2, <3>3
  <2> QED BY <2>7 DEF ResultsStay, Settled, Taken
<1>4. ASSUME NEW t \in scene.tabs, Reload(t) PROVE ResultsStay'
  BY <1>2, <1>4 DEF Reload
<1> QED BY <1>2, <1>3, <1>4, StorageChanges

\* The storage's invariant holds at first.
LEMMA StoreInvInit ==
  ASSUME Init
  PROVE  StoreInv
BY DEF Init, StoreInv, AnswersTold, Awaiting, RemovesSettled, ToSet, ResultsStay

\* Every step keeps the storage's invariant.
LEMMA StoreInvNext ==
  ASSUME IInv, StoreInv, [Next]_vars
  PROVE  StoreInv'
<1>1. fails' \in Nat /\ (fails' = 0 => fails = 0 /\ \A u \in Tab : memory'[u] = None)
  BY MemoryStays DEF StoreInv
<1>2. ASSUME fails' = 0 PROVE AnswersTold' /\ RemovesSettled' /\ ResultsStay'
  BY <1>1, <1>2, AnswersToldStep, RemovesSettledStep, ResultsStayStep DEF StoreInv
<1> QED BY <1>1, <1>2 DEF StoreInv

\* While storage has refused no write, a result that reached localStorage leaves
\* it only once the server has its signatures or won't take it, however the tabs'
\* locks, answers and reloads interleave (results.ts; sync.ts: settle()).
THEOREM ResultsStayUntilAWriteFails == Spec => [](fails = 0 => ResultsStay)
<1>1. StoreInv => (fails = 0 => ResultsStay)
  BY DEF StoreInv
<1> QED BY <1>1, StoreInvInit, StoreInvNext, SyncIInv, PTL DEF Spec
-----------------------------------------------------------------------------
\* A device with one tab, whose lock is faster than the server's answers.
OneTabInTime == "slowLock" \notin scene.trouble /\ \E t \in Tab : scene.tabs = {t}

NoRemoval(t) == \A job \in ToSet(jobs[t]) : job.op # "remove"

\* A pass that skips results has another one to send, which no job is to remove,
\* and no removal waits where an answer says that a result is stale.
PassGoesOn(t) ==
  sync[t] # None =>
    /\ sync[t].stale # {} => NoRemoval(t) /\ \E e \in ToSet(ResultsOf(t)) : e \notin sync[t].stale
    /\ Awaiting(t) /\ sync[t].reply = "stale" => NoRemoval(t)

PassInv == OneTabInTime => \A t \in Tab : PassGoesOn(t)

\* nextResult() finds a result that the pass doesn't skip if there is one.
LEMMA FreshResult ==
  ASSUME NEW s, NEW queued \in Seq(Ours)
  PROVE  NextResult(s, queued) # None <=> \E e \in ToSet(queued) : e \notin s.stale
<1> DEFINE fresh == {i \in DOMAIN queued : queued[i] \notin s.stale}
<1>1. fresh # {} <=> \E e \in ToSet(queued) : e \notin s.stale
  BY DEF ToSet
<1>2. CASE fresh = {}
  BY <1>1, <1>2 DEF NextResult
<1>3. CASE fresh # {}
  <2>1. Min(fresh) \in fresh
    <3>1. fresh \subseteq Nat
      OBVIOUS
    <3> HIDE DEF fresh
    <3> QED BY <3>1, <1>3, MinIsLeast
  <2>2. NextResult(s, queued) = queued[Min(fresh)] /\ queued[Min(fresh)] \in Ours
    BY <1>3, <2>1 DEF NextResult
  <2> QED BY <1>1, <1>3, <2>2, SyncAssumption
<1> QED BY <1>2, <1>3

\* Where no removal waits a step takes nothing out of the only tab's queue, and
\* only a result that settles orders a removal.
LEMMA QueueGrows ==
  ASSUME IInv, [Next]_vars, NEW t \in Tab, scene.tabs = {t}, NoRemoval(t), sync'[t] # None
  PROVE  /\ ToSet(ResultsOf(t)) \subseteq ToSet(ResultsOf(t)')
         /\ NoRemoval(t)' \/ ResultSettled(t)
<1>1. ToSet(ResultsOf(t)) \subseteq ToSet(ResultsOf(t)')
  <2>1. ASSUME NEW works \in BOOLEAN, Write(t, works)
        PROVE  ToSet(ResultsOf(t)) \subseteq ToSet(ResultsOf(t)')
    <3> DEFINE job == Head(jobs[t])
               after == Changed(job, ResultsOf(t))
    <3>1. /\ job \in Jobs /\ jobs[t] # <<>> /\ after \in Seq(Ours) /\ ResultsOf(t)' = after
          /\ ResultsOf(t) \in Seq(Ours) /\ IsInjective(ResultsOf(t)) /\ jobs[t] \in Seq(Jobs)
      BY <2>1, WriteFacts, TabFacts DEF TabTypes
    <3>2. job \in ToSet(jobs[t])
      BY <3>1, ToSetFacts
    <3>3. job.op # "remove"
      BY <3>2 DEF NoRemoval
    <3>4. \A e : Contains(ResultsOf(t), e) => Contains(after, e)
      BY <3>1, <3>3, ChangedFacts DEF Jobs
    <3> HIDE DEF after
    <3> QED BY <3>1, <3>4 DEF Contains, ToSet
  <2>2. ~Reload(t)
    BY TabFacts DEF Reload, TabTypes
  <2>3. ASSUME UNCHANGED <<memory, outbox, kept, fails>>
        PROVE  ToSet(ResultsOf(t)) \subseteq ToSet(ResultsOf(t)')
    BY <2>3 DEF ResultsOf
  <2> QED BY <2>1, <2>2, <2>3, StorageChanges
<1>2. NoRemoval(t)' \/ ResultSettled(t)
  <2>1. UNCHANGED jobs \/ TabStep(t)
    BY DEF Next, vars, moving, tabVars, LateLands, OtherPhone, Ages, Connects, Allow
  <2>2. CASE UNCHANGED jobs
    BY <2>2 DEF NoRemoval
  <2>3. CASE TabStep(t)
    BY <2>3, JobsChanges DEF JobsChange, NoRemoval
  <2> QED BY <2>1, <2>2, <2>3
<1> QED BY <1>1, <1>2

\* Every step leaves a pass with a result to go on with.
LEMMA PassInvNext ==
  ASSUME IInv, PassInv, [Next]_vars
  PROVE  PassInv'
<1>0. UNCHANGED scene /\ IInv'
  BY ServerGrows, NextInv
<1> SUFFICES ASSUME OneTabInTime, NEW t \in Tab, scene.tabs = {t}, sync'[t] # None
             PROVE  PassGoesOn(t)'
  <2>1. \A u \in Tab : u \notin scene.tabs => sync'[u] = None
    BY <1>0 DEF IInv
  <2> QED BY <1>0, <2>1 DEF PassInv, OneTabInTime, PassGoesOn
<1>1. /\ SyncChange(t) /\ PassGoesOn(t)
      /\ sync[t] \in SyncState \cup {None} /\ ResultsOf(t) \in Seq(Ours)
  BY SyncChanges, TabFacts DEF PassInv
<1>2. NoRemoval(t) => /\ ToSet(ResultsOf(t)) \subseteq ToSet(ResultsOf(t)')
                      /\ NoRemoval(t)' \/ ResultSettled(t)
  BY QueueGrows
<1>3. ResultSettled(t) => /\ sync[t] # None /\ sync'[t].stale = {}
                          /\ sync[t].state = "sending" /\ sync'[t].state = "idle"
  <2> SUFFICES ASSUME ResultSettled(t)
               PROVE  /\ sync[t] # None /\ sync'[t].stale = {}
                      /\ sync[t].state = "sending" /\ sync'[t].state = "idle"
    OBVIOUS
  <2>1. Awaiting(t) /\ sync'[t] = NewPass(Idle(sync[t]))
    BY TabFacts DEF ResultSettled, Answered, TabTypes
  <2> QED BY <1>1, <2>1, IdleFacts, NewPassFacts DEF Awaiting
<1>4. CASE sync'[t] = sync[t]
  <2>1. ~ResultSettled(t)
    BY <1>3, <1>4
  <2> QED BY <1>1, <1>2, <1>4, <2>1 DEF PassGoesOn, Awaiting
<1>5. CASE ServerReplies(t)
  <2>1. /\ sync[t] # None /\ jobs[t] = <<>> /\ UNCHANGED <<jobs, memory, outbox>>
        /\ sync'[t] = [sync[t] EXCEPT !.reply = ReplyTo(sync[t].sent)]
    BY <1>5, TabFacts DEF ServerReplies, Unanswered, Awaiting, OneTabInTime, TabTypes
  <2>2. sync'[t].stale = sync[t].stale
    BY <1>1, <2>1 DEF SyncState
  <2>3. NoRemoval(t)' /\ ResultsOf(t)' = ResultsOf(t)
    BY <2>1 DEF NoRemoval, ToSet, ResultsOf
  <2> QED BY <1>1, <2>1, <2>2, <2>3 DEF PassGoesOn
<1>6. CASE Untold(sync'[t]) /\ SkipsChange(t)
  <2>1. ~(Awaiting(t)' /\ sync'[t].reply = "stale")
    BY <1>6 DEF Untold, Awaiting
  <2>2. CASE sync'[t].stale = {}
    BY <2>1, <2>2 DEF PassGoesOn
  <2>3. CASE sync[t] # None /\ sync'[t].stale = sync[t].stale /\ sync'[t].stale # {}
    <3>1. ~ResultSettled(t)
      BY <1>3, <2>3
    <3> QED BY <1>1, <1>2, <2>1, <2>3, <3>1 DEF PassGoesOn
  <2>4. CASE NextInPass(t) /\ sync'[t].stale = sync[t].stale \cup {sync[t].sent.text}
    <3>1. /\ Awaiting(t) /\ sync[t].reply = "stale" /\ UNCHANGED <<jobs, memory, outbox>>
          /\ NextResult(Skipping(sync[t]), ResultsOf(t)) # None
      BY <2>4 DEF NextInPass, Answered, MoreInPass, allButSync
    <3>2. NoRemoval(t)' /\ ResultsOf(t)' = ResultsOf(t)
      BY <1>1, <3>1 DEF PassGoesOn, Awaiting, NoRemoval, ResultsOf
    <3>3. Skipping(sync[t]).stale = sync'[t].stale
      BY <1>1, <2>4, <3>1 DEF Skipping, SyncState, Awaiting
    <3>4. \E e \in ToSet(ResultsOf(t)) : e \notin sync'[t].stale
      BY <1>1, <3>1, <3>3, FreshResult
    <3> QED BY <2>1, <3>2, <3>4 DEF PassGoesOn
  <2> QED BY <1>6, <2>2, <2>3, <2>4 DEF SkipsChange
<1> QED BY <1>1, <1>4, <1>5, <1>6 DEF SyncChange

\* In a device's one tab, whose lock is faster than the server's answers, a sync
\* that rests has sent all it has to send, as sync.ts says, whatever is stale,
\* fails, is lost, reloads or loses its session. With two tabs, or a slower lock,
\* it isn't so.
THEOREM OneTabRestsWhenDone == Spec => [](OneTabInTime => RestsWhenDone)
<1>1. Init => PassInv
  BY DEF Init, PassInv, PassGoesOn
<1>2. ASSUME IInv, PassInv, OneTabInTime PROVE RestsWhenDone
  <2> SUFFICES ASSUME NEW t \in Tab, AtRest(t), ToSend(t) PROVE FALSE
    BY DEF RestsWhenDone
  <2>1. sync[t] # None /\ t \in scene.tabs /\ PassGoesOn(t)
    BY <1>2 DEF AtRest, IInv, PassInv
  <2>2. boards[t].pending = None /\ NextResult(sync[t], SendableNow(t)) = None
    BY <1>2, IInvImplies DEF SyncInv, NothingForgotten
  <2>3. t \in enabled /\ ResultsOf(t) # <<>> /\ SendableNow(t) = ResultsOf(t)
    BY <2>2 DEF ToSend, SendableNow, Sendable
  <2>4. ResultsOf(t) \in Seq(Ours)
    BY <1>2, <2>1, TabFacts
  <2>5. \A e \in ToSet(ResultsOf(t)) : e \in sync[t].stale
    BY <2>2, <2>3, <2>4, FreshResult
  <2>6. ToSet(ResultsOf(t)) # {}
    <3>1. Head(ResultsOf(t)) \in Ours
      BY <2>3, <2>4
    <3> QED BY <2>3, <2>4, <3>1, ToSetFacts
  <2> QED BY <2>1, <2>5, <2>6 DEF PassGoesOn
<1> QED BY <1>1, <1>2, PassInvNext, SyncIInv, PTL DEF Spec
=============================================================================
