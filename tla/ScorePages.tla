----------------------------- MODULE ScorePages -----------------------------
(***************************************************************************)
(* The web client's scoring pages for one match of the API: the pad        *)
(* (ScoreEntry.tsx, useSubmitResult.ts), the page with the result's link   *)
(* (AwaitingValidation.tsx) and the one that the link opens                *)
(* (AcceptResult.tsx, ServerCheck.tsx), each on its device's stack of      *)
(* history entries.  An entry's scores are in its URL.  Devices 1 and 2    *)
(* are the players', any other a spectator's.                              *)
(*                                                                         *)
(* A result is named by its place in `results`, as its hash names it in    *)
(* the code.  Sending a board is one step here; MatchSync has the rest.    *)
(***************************************************************************)
EXTENDS ScoreRules

CONSTANTS
  Device,    \* players and spectators
  PadScenes  \* what may happen in one behaviour

Playing == {1, 2}

\* What an input of the pad holds.
Input == 0..99 \cup {Blank, Garbled}

\* A scene is a match, who is there, who of them opens it, what they type, the most results and the
\* most history entries that they go on from, and what happens besides: a
\* signing may fail, a page may reload, the player may use the strip or work on
\* while a submit signs, a device may have no signal, and a result may wait for
\* a day.  The approved pages of some devices get through to the API.
Happening == {"failure", "reload", "strip", "workOn", "offline", "day"}

ASSUME PagesAssumption ==
  /\ Playing \subseteq Device
  /\ \A s \in PadScenes :
       /\ s.bestOf \in {1, 3, 5, 7} /\ s.rated \in BOOLEAN
       /\ s.opens \subseteq s.who /\ s.checks \subseteq s.who /\ s.who \subseteq Device /\ s.may \subseteq Happening
       /\ s.typed \subseteq Input \X Input
       /\ s.results \in Nat /\ s.past \in Nat

VARIABLES
  padScene,
  results,  \* every result signed: its games and the result it replaces, or 0
  page,     \* each device's page: the route, its game and its URL's fragment
  past,     \* the history entries under it
  doing,    \* the mutation in flight: a submit or an approval
  outbox,   \* the envelopes each device has queued
  known,    \* what it last read of the match
  check,    \* the approved envelope it checks, and what FortyMM said
  board,    \* the games of the API's newest board
  signers   \* of each result the API holds, the sides that signed it

deviceVars == <<page, past, doing, known>>
apiVars == <<board, signers>>
pageVars == <<padScene, results, deviceVars, outbox, check, apiVars>>
-----------------------------------------------------------------------------
(* Fragments. *)

Draft(games, replaces) == [games |-> games, replaces |-> replaces, result |-> 0, by |-> <<>>]

\* The envelope of a result, with its signatures in order.
Signed(r, by) == [games |-> results[r].games, replaces |-> results[r].replaces, result |-> r, by |-> by]

\* replacesOf(): a change of a signed result corrects it.
replacesOf(fragment) == IF fragment.result = 0 THEN fragment.replaces ELSE fragment.result

BothSigned(fragment) == \A side \in Playing : \E n \in 1..Len(fragment.by) : fragment.by[n] = side

\* The loader opens a game up to one past the last.
LastGame(games) == IF Len(games) < padScene.bestOf THEN Len(games) + 1 ELSE padScene.bestOf

Pad(game, fragment) == [route |-> "pad", game |-> game, fragment |-> fragment]
Submission(envelope) == [route |-> "submission", game |-> 0, fragment |-> envelope]
Approval(envelope) == [route |-> "approval", game |-> 0, fragment |-> envelope]
MatchPage == [route |-> "match", game |-> 0, fragment |-> Draft(<<>>, 0)]

NoJob == [does |-> "nothing"]
-----------------------------------------------------------------------------
(* The API: what MatchResults has of one match, with the keys left out. *)

Taken == DOMAIN signers
Newest == IF Taken = {} THEN 0
        ELSE CHOOSE r \in Taken : \A q \in Taken : results[q].replaces # r

SidesNeeded(r) == IF ~padScene.rated /\ results[r].replaces = 0 THEN 1 ELSE 2
Final == Newest # 0 /\ Cardinality(signers[Newest]) >= SidesNeeded(Newest)

SidesOf(envelope) == {envelope.by[n] : n \in 1..Len(envelope.by)}

\* record_result() takes it: a retry, new signatures for the head, or a
\* result that replaces the head.
Takes(envelope) ==
  LET r == envelope.result IN
  IF r \in Taken THEN SidesOf(envelope) \subseteq signers[r] \/ r = Newest
  ELSE results[r].replaces = Newest

Record(envelope) ==
  signers' = [r \in Taken \cup {envelope.result} |->
    IF r # envelope.result THEN signers[r]
    ELSE SidesOf(envelope) \cup (IF r \in Taken THEN signers[r] ELSE {})]

\* What a read of the match finds: get_match().
Read == [games |-> IF Newest = 0 THEN board ELSE results[Newest].games,
         replaces |-> Newest, final |-> Final]
-----------------------------------------------------------------------------
(* A device's history. *)

\* The entry under the page.
Top(p) == past[p][Len(past[p])]

Under(p, entries) == past' = [past EXCEPT ![p] = entries]

Push(p, new) ==
  /\ Len(past[p]) < padScene.past
  /\ page' = [page EXCEPT ![p] = new] /\ Under(p, Append(past[p], page[p]))
Replace(p, new) == page' = [page EXCEPT ![p] = new] /\ UNCHANGED past

\* A person works on while a submit signs, and waits for an approval.
MayAct(p) ==
  /\ p \in padScene.who
  /\ \/ doing[p] = NoJob
     \/ doing[p].does = "submit" /\ "workOn" \in padScene.may

\* What it does leaves the page that a submit in flight left.
Touched(p) == doing' = [doing EXCEPT ![p] = IF @ = NoJob THEN @ ELSE [@ EXCEPT !.touched = TRUE]]

\* The approved page's check: ServerCheck reads the query of its envelope, and
\* listens once its verdict has rendered.
Checking(p, new) ==
  check' = [check EXCEPT ![p] =
    IF new.route = "approval" /\ BothSigned(new.fragment) /\ @.envelope # new.fragment
      THEN [envelope |-> new.fragment, said |-> "loading", listens |-> FALSE]
      ELSE [@ EXCEPT !.listens = FALSE]]

\* Whether the page shows the check that the device holds.
Shows(p) == page[p].route = "approval" /\ page[p].fragment = check[p].envelope

NoCheck == [envelope |-> Draft(<<>>, 0), said |-> "none", listens |-> FALSE]

PagesInit ==
  /\ padScene \in PadScenes
  /\ results = <<>>
  /\ page = [p \in Device |-> MatchPage] /\ past = [p \in Device |-> <<>>]
  /\ doing = [p \in Device |-> NoJob]
  /\ outbox = [p \in Device |-> <<>>]
  /\ known = [p \in Device |-> [games |-> <<>>, replaces |-> 0, final |-> FALSE]]
  /\ check = [p \in Device |-> NoCheck]
  /\ board = <<>> /\ signers = <<>>
-----------------------------------------------------------------------------
(* The pad. *)

Offline == "offline" \in padScene.may

\* saveBoard(): the board reaches the API now or, without signal, when another
\* has taken its place.  The API takes none once the match is final.
SaveBoard(games) ==
  board' \in (IF Final THEN {} ELSE {games}) \cup (IF Final \/ Offline THEN {board} ELSE {})

\* keepScoreTarget(): a draft of the server's games that corrects its result.
keepScoreTarget(found) == Pad(LastGame(found.games), Draft(found.games, found.replaces))

\* situation() offers to keep score until the match is final.
OffersScore(found) == ~found.final

\* What ScoreLink opens the pad by: a new read or, without signal, the one that
\* the page shows.
Opened(p) == {Read} \cup (IF Offline THEN {known[p]} ELSE {})

\* Keep score.
KeepScore(p) ==
  /\ MayAct(p) /\ p \in padScene.opens /\ page[p].route = "match"
  /\ \E found \in Opened(p) :
       /\ known' = IF Offline THEN [known EXCEPT ![p] = found] ELSE known
       /\ OffersScore(found)
       /\ Push(p, keepScoreTarget(found))
  /\ Touched(p)
  /\ UNCHANGED <<padScene, results, outbox, check, apiVars>>

\* show(): the games go into the URL of the game to show next.
Show(p, games, game) ==
  LET new == Pad(game, Draft(games, replacesOf(page[p].fragment))) IN
  /\ IF game = page[p].game THEN Replace(p, new) ELSE Push(p, new)
  /\ SaveBoard(games)
  /\ Touched(p)
  /\ UNCHANGED <<padScene, results, known, outbox, check, signers>>

\* Saves a score: planPress().
Save(p) ==
  /\ MayAct(p) /\ page[p].route = "pad"
  /\ LET games == page[p].fragment.games
         game == page[p].game
         length == IF game > Len(games) THEN game ELSE Len(games)
     IN \E typed \in padScene.typed :
          LET press == planPress(games, p \in Playing, game, typed, padScene.bestOf) IN
          /\ press.does = "save"
          /\ Show(p, [n \in 1..length |-> IF n = game THEN typed
                                     ELSE IF n <= Len(games) THEN games[n] ELSE NoGame],
                  IF press.next = 0 THEN game ELSE press.next)

\* Only the last game clears.
Clear(p) ==
  /\ MayAct(p) /\ page[p].route = "pad"
  /\ LET games == page[p].fragment.games
         game == page[p].game
     IN /\ game = Len(games)
        /\ Show(p, SubSeq(games, 1, Len(games) - 1), game)

\* The strip's links, to each game that may open.
Strip(p) ==
  /\ MayAct(p) /\ "strip" \in padScene.may /\ page[p].route = "pad"
  /\ \E game \in 1..LastGame(page[p].fragment.games) \ {page[p].game} :
       Push(p, Pad(game, page[p].fragment))
  /\ Touched(p)
  /\ UNCHANGED <<padScene, results, known, outbox, check, apiVars>>

Back(p) ==
  /\ MayAct(p) /\ Len(past[p]) > 0
  /\ page' = [page EXCEPT ![p] = Top(p)]
  /\ Under(p, SubSeq(past[p], 1, Len(past[p]) - 1))
  /\ Checking(p, Top(p))
  /\ Touched(p)
  /\ UNCHANGED <<padScene, results, known, outbox, apiVars>>

\* Submit puts the games in the URL before it signs.
Drafted(p, new) == page' = [page EXCEPT ![p] = new]

Submit(p) ==
  /\ MayAct(p) /\ page[p].route = "pad" /\ doing[p] = NoJob
  /\ Len(results) < padScene.results
  /\ LET replaces == replacesOf(page[p].fragment) IN
     \E typed \in padScene.typed :
       LET press == planPress(page[p].fragment.games, p \in Playing, page[p].game, typed, padScene.bestOf) IN
       /\ press.does = "submit"
       /\ Drafted(p, Pad(page[p].game, Draft(press.games, replaces)))
       /\ SaveBoard(press.games)
       /\ doing' = [doing EXCEPT ![p] =
            [does |-> "submit", games |-> press.games, replaces |-> replaces,
             game |-> page[p].game, touched |-> FALSE]]
  /\ UNCHANGED <<padScene, results, past, known, outbox, check, signers>>

\* queueResult(): the same envelope twice waits once.
Queued(queue, envelope) ==
  IF \E n \in 1..Len(queue) : queue[n] = envelope THEN queue ELSE Append(queue, envelope)

\* Mutant of QueueSigned: leaves a correction's first result out.
QueueSignedOnce(p, envelope) ==
  outbox' = [outbox EXCEPT ![p] = IF envelope.replaces = 0 THEN @ ELSE Queued(@, envelope)]

QueueSigned(p, envelope) == outbox' = [outbox EXCEPT ![p] = Queued(@, envelope)]

\* Mutant of AfterSigning: goes straight to the submission.
AfterSigningAtOnce(p, game, envelope) ==
  page' = [page EXCEPT ![p] = Submission(envelope)] /\ Under(p, Append(past[p], page[p]))

\* The pad that Back returns to holds the signed result.
AfterSigning(p, game, envelope) ==
  page' = [page EXCEPT ![p] = Submission(envelope)] /\ Under(p, Append(past[p], Pad(game, envelope)))

\* The device key signed: onSuccess of useSubmitResult().
Sign(p) ==
  /\ doing[p].does = "submit" /\ Len(results) < padScene.results
  /\ results' = Append(results, [games |-> doing[p].games, replaces |-> doing[p].replaces])
  /\ LET r == Len(results) + 1
         envelope == [games |-> doing[p].games, replaces |-> doing[p].replaces, result |-> r, by |-> <<p>>]
     IN /\ AfterSigning(p, doing[p].game, envelope)
        /\ QueueSigned(p, envelope)
        /\ Checking(p, Submission(envelope))
  /\ SaveBoard(doing[p].games)
  /\ doing' = [doing EXCEPT ![p] = NoJob]
  /\ UNCHANGED <<padScene, known, signers>>

\* NoSigningKey, or the key store failed: the page says so.
SigningFails(p) ==
  /\ "failure" \in padScene.may /\ doing[p] # NoJob
  /\ doing' = [doing EXCEPT ![p] = NoJob]
  /\ UNCHANGED <<padScene, results, page, past, known, outbox, check, apiVars>>

\* A reload keeps the history and the outbox, and forgets the mutation and the
\* query of the check.
Reload(p) ==
  /\ p \in padScene.who /\ "reload" \in padScene.may
  /\ doing[p] # NoJob \/ check[p].said # "none"
  /\ doing' = [doing EXCEPT ![p] = NoJob]
  /\ check' = [check EXCEPT ![p] =
       IF Shows(p) THEN [@ EXCEPT !.said = "loading", !.listens = FALSE] ELSE NoCheck]
  /\ UNCHANGED <<padScene, results, page, past, known, outbox, apiVars>>

BackToScores(p) ==
  /\ MayAct(p) /\ page[p].route = "submission"
  /\ Push(p, Pad(1, page[p].fragment))
  /\ Touched(p)
  /\ UNCHANGED <<padScene, results, known, outbox, check, apiVars>>
-----------------------------------------------------------------------------
(* The link of a result. *)

\* A device's camera opens the link that another one shows, or a message has
\* it, in a tab of its own.  It sends nothing.
OpenLink(p) ==
  /\ p \in padScene.who /\ doing[p] = NoJob
  /\ \E q \in Device \ {p} :
       /\ page[q].route \in {"submission", "approval"}
       /\ page[p] # Approval(page[q].fragment)
       /\ page' = [page EXCEPT ![p] = Approval(page[q].fragment)]
       /\ Checking(p, Approval(page[q].fragment))
  /\ past' = [past EXCEPT ![p] = <<>>]
  /\ UNCHANGED <<padScene, results, doing, known, outbox, apiVars>>

\* approvalFor(), of an account that may score the match.  `counts` says that
\* the page has read of a final result.
approvalFor(p, envelope, counts) ==
  IF counts /\ ~BothSigned(envelope) THEN "final"
  ELSE CASE p \notin Playing -> "not-yours"
         [] p \in Playing /\ p \notin SidesOf(envelope) -> "approve"
         [] p \in SidesOf(envelope) /\ ~BothSigned(envelope) -> "waiting"
         [] OTHER -> "send"

\* What the page of a link's result offers, besides what it says: Result().
Offers(p, counts) ==
  (IF approvalFor(p, page[p].fragment, counts) = "approve" THEN {"approve"} ELSE {})
    \cup (IF p \in Playing /\ ~counts THEN {"edit"} ELSE {})

\* Until FortyMM answers the page's read, or without signal, nothing is final.
PageReads == {FALSE, Final}

\* Approve, which `approving` lets through once.
Approve(p) ==
  /\ MayAct(p) /\ doing[p] = NoJob
  /\ page[p].route = "approval" /\ \E counts \in PageReads : "approve" \in Offers(p, counts)
  /\ doing' = [doing EXCEPT ![p] = [does |-> "approve"]]
  /\ UNCHANGED <<padScene, results, page, past, known, outbox, check, apiVars>>

\* The signature is there: the link's result waits before the approved one,
\* and the approved one takes its place in the URL.
Approved(p) ==
  /\ doing[p].does = "approve"
  /\ LET link == page[p].fragment
         approved == [link EXCEPT !.by = Append(@, p)]
     IN /\ outbox' = [outbox EXCEPT ![p] = Queued(Queued(@, link), approved)]
        /\ Replace(p, Approval(approved))
        /\ Checking(p, Approval(approved))
  /\ doing' = [doing EXCEPT ![p] = NoJob]
  /\ UNCHANGED <<padScene, results, known, apiVars>>

\* Edit scores opens the linked result, unchanged.
EditScores(p) ==
  /\ MayAct(p) /\ page[p].route = "approval"
  /\ \E counts \in PageReads : "edit" \in Offers(p, counts)
  /\ Push(p, Pad(1, page[p].fragment))
  /\ Checking(p, Pad(1, page[p].fragment))
  /\ Touched(p)
  /\ UNCHANGED <<padScene, results, known, outbox, apiVars>>
-----------------------------------------------------------------------------
(* What reaches FortyMM. *)

Waits(p, envelope) == \E n \in 1..Len(outbox[p]) : outbox[p][n] = envelope

\* The check sends the approved envelope once this device's earlier results
\* have gone, or after ten seconds.
SendCheck(p) ==
  /\ p \in padScene.checks /\ check[p].said = "loading"
  /\ IF Takes(check[p].envelope) THEN Record(check[p].envelope) ELSE UNCHANGED signers
  /\ check' = [check EXCEPT ![p].said = IF Takes(check[p].envelope) THEN "taken" ELSE "stale"]
  /\ UNCHANGED <<padScene, results, deviceVars, outbox, board>>

\* approvalCheckQuery() gives its verdict by the outbox as it is then.
Verdict(p) ==
  /\ check[p].said \in {"taken", "stale"}
  /\ check' = [check EXCEPT ![p].said =
       CASE @ = "taken" -> "accepted"
         [] @ = "stale" /\ Waits(p, check[p].envelope) -> "waiting"
         [] OTHER -> "refused",
       ![p].listens = FALSE]
  /\ UNCHANGED <<padScene, results, deviceVars, outbox, apiVars>>

\* checkIfSent()
Recheck(p, sent) ==
  IF sent THEN [check[p] EXCEPT !.listens = TRUE, !.said = "loading"]
  ELSE [check[p] EXCEPT !.listens = TRUE]

\* Verdict's effect runs after it rendered: it looks, then listens.
Watch(p) ==
  /\ Shows(p) /\ ~check[p].listens /\ check[p].said = "waiting"
  /\ check' = [check EXCEPT ![p] = Recheck(p, ~Waits(p, check[p].envelope))]
  /\ UNCHANGED <<padScene, results, deviceVars, outbox, apiVars>>

\* Takes an envelope out of the outbox, which a page that waits hears.
Settle(p, n) ==
  /\ outbox' = [outbox EXCEPT ![p] = SubSeq(@, 1, n - 1) \o SubSeq(@, n + 1, Len(@))]
  /\ check' = [check EXCEPT ![p] =
       IF @.said = "waiting" /\ @.listens /\ @.envelope = outbox[p][n]
         THEN [@ EXCEPT !.said = "loading"] ELSE @]

\* MatchSync's pass sends the oldest result that isn't stale.
Send(p) ==
  /\ \E n \in 1..Len(outbox[p]) :
       /\ Takes(outbox[p][n])
       /\ \A earlier \in 1..n - 1 : ~Takes(outbox[p][earlier])
       /\ Record(outbox[p][n])
       /\ Settle(p, n)
  /\ UNCHANGED <<padScene, results, deviceVars, board>>

\* A result that is still stale after a day is refused for good.
GiveUp(p) ==
  /\ "day" \in padScene.may
  /\ \E n \in 1..Len(outbox[p]) : ~Takes(outbox[p][n]) /\ Settle(p, n)
  /\ UNCHANGED <<padScene, results, deviceVars, apiVars>>

PagesNext ==
  \E p \in Device :
    \/ KeepScore(p) \/ Save(p) \/ Clear(p) \/ Strip(p) \/ Back(p)
    \/ Submit(p) \/ Sign(p) \/ SigningFails(p) \/ Reload(p) \/ BackToScores(p)
    \/ OpenLink(p) \/ Approve(p) \/ Approved(p) \/ EditScores(p)
    \/ SendCheck(p) \/ Verdict(p) \/ Watch(p) \/ Send(p) \/ GiveUp(p)

PagesSpec == PagesInit /\ [][PagesNext]_pageVars
-----------------------------------------------------------------------------
Results == 1..Len(results)
Boards == {page[p].fragment.games : p \in Device} \cup {board} \cup {results[r].games : r \in Results}

\* The state has its shape, no page opens a game ahead of an empty one, and a
\* board has no gap and only final scores: the pad's loader and its Clear game.
PagesTypeOK ==
  /\ padScene \in PadScenes
  /\ \A p \in Device :
       /\ page[p].route \in {"match", "pad", "submission", "approval"}
       /\ page[p].route = "pad" => page[p].game \in 1..LastGame(page[p].fragment.games)
       /\ doing[p].does \in {"nothing", "submit", "approve"}
       /\ check[p].said \in {"none", "loading", "taken", "stale", "accepted", "waiting", "refused"}
  /\ \A games \in Boards : Len(games) <= padScene.bestOf /\ \A n \in 1..Len(games) : games[n] # NoGame /\ checkGame(games[n])
  /\ Taken \subseteq Results

\* Every result that a pad submits is one that check_ending() takes, whatever
\* was entered, changed and cleared before: planPress() and reviewBoard().
SubmitsEndings == \A r \in Results : check_ending(results[r].games, padScene.bestOf)

\* A result names an earlier one, and a change of a submitted result names that
\* result: the page that Back returns to from a submission, and the one that
\* its link opens, hold the signed result, so a change corrects it
\* rather than replacing nothing.
BackHoldsTheSigned ==
  /\ \A r \in Results : results[r].replaces < r
  /\ \A p \in Device : page[p].route = "submission" =>
       /\ Len(past[p]) > 0 /\ Top(p).route = "pad"
       /\ replacesOf(Top(p).fragment) = page[p].fragment.result

\* A submit keeps the deciding score in the URL until its player works on, so
\* a failed signing or a reload loses none of it.
DecidingScoreKept ==
  \A p \in Device : (doing[p].does = "submit" /\ ~doing[p].touched) =>
    page[p].fragment = Draft(doing[p].games, doing[p].replaces)

\* No envelope, on a page or in an outbox, has one side's signature twice.
SignsOnce ==
  \A p \in Device :
    \A envelope \in {page[p].fragment} \cup {outbox[p][n] : n \in 1..Len(outbox[p])} :
      Cardinality(SidesOf(envelope)) = Len(envelope.by)

\* What a queued result replaces is at FortyMM or on its way there, so that
\* everyone's corrections can land: each signing queues its result.
NothingOrphaned ==
  "day" \notin padScene.may =>
    \A r \in Results :
      r \in Taken \/ \E p \in Device : \E n \in 1..Len(outbox[p]) : outbox[p][n].result = r

\* An approval that the page says this device keeps sending is in its outbox:
\* the page checks again once it was sent, whatever happened between the
\* check's answer and the moment the page listens.
WaitingIsQueued ==
  \A p \in Device : (check[p].said = "waiting" /\ check[p].listens) => Waits(p, check[p].envelope)

\* What a pad submits is an ending, survives a failed signing, and is what a
\* change made after Back corrects.
PadInv ==
  /\ PagesTypeOK /\ SubmitsEndings /\ BackHoldsTheSigned /\ DecidingScoreKept

\* A link's result is signed once by a side, comes with what it replaces, and
\* is waited for while it's queued.
LinksInv == SignsOnce /\ NothingOrphaned /\ WaitingIsQueued
=============================================================================
