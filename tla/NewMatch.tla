------------------------------ MODULE NewMatch ------------------------------
(***************************************************************************)
(* The web client's New match page (NewMatch.tsx, setup.ts and             *)
(* OpponentPicker.tsx) in one tab: a form whose press of Start sends a     *)
(* match with an id of its own, its answer, which may be lost, and the     *)
(* pages that it opens.  The API makes a match of an id once and refuses   *)
(* merged players.  React renders after a press that sends, so a second    *)
(* press may see the form from before the first.                           *)
(*                                                                         *)
(* A navigation is pending until its page's chunk and loader are there,    *)
(* and the page before it stays in use.  One that another navigation       *)
(* overtakes ends when that one does, and without an error (TanStack       *)
(* Router).  A person leaves at the step that shows where they             *)
(* went, so a press that start()'s own navigation overtakes is no step.    *)
(***************************************************************************)
EXTENDS Naturals, FiniteSets

CONSTANTS
  ownPlayer, Opponent, Nobody,  \* players
  Length, Word,           \* lengths of a match and words to search for
  MaxPresses, MaxEdits, MaxTyped,  \* bound one behaviour
  NewScenes               \* what happens in one: a set of sets of NewHappening

NewHappening == {"lost", "merge", "leave", "search", "save"}

ASSUME NewAssumption ==
  /\ ownPlayer \notin Opponent /\ Nobody \notin Opponent \cup {ownPlayer}
  /\ {MaxPresses, MaxEdits, MaxTyped} \subseteq Nat
  /\ \A s \in NewScenes : s \subseteq NewHappening

VARIABLES
  newScene,
  setup,    \* the form: opponent, bestOf, rated, attempt and what its Start says
  drawn,    \* the form that the buttons on the screen were made from
  posting,  \* what start() waits for: step and request
  matches,  \* the API's matches: requests by id
  gone,     \* the players merged away
  picker,   \* the picker's screen, its search and the control with focus
  players,  \* the opponents list: who it shows, and whether it's out of date
  place,    \* the page: the form, a match, its pad or elsewhere
  read,     \* the match page's read of the match: its games, if it's kept
  kept,     \* the games that the pad saved
  count     \* presses, edits and words so far, and the ids that the presses
            \* sent since one had other details

newVars == <<newScene, setup, drawn, posting, matches, gone, picker, players, place, read, kept, count>>

NoAttempt == [id |-> 0, bestOf |-> 0, rated |-> FALSE, players |-> <<Nobody, Nobody>>]
NoPost == [step |-> "none", request |-> NoAttempt]
Unread == [is |-> FALSE, games |-> 0]
-----------------------------------------------------------------------------
(* The form (setup.ts).                                                    *)

initialSetup == [opponent |-> Nobody, bestOf |-> 5, rated |-> FALSE, attempt |-> NoAttempt, submit |-> "idle"]

\* Mutant of sameDetails: every press is another match.
sameDetailsNever(a, b) == FALSE

sameDetails(a, b) == a.id # 0 /\ [a EXCEPT !.id = 0] = [b EXCEPT !.id = 0]

pick(s, p) == [s EXCEPT !.opponent = p, !.submit = "idle"]

clearOpponent(s) == [s EXCEPT !.opponent = Nobody, !.rated = FALSE]

start(s, freshId) ==
  IF s.opponent = Nobody THEN [s EXCEPT !.submit = "needsOpponent"]
  ELSE LET details == [id |-> freshId, bestOf |-> s.bestOf, rated |-> s.rated, players |-> <<ownPlayer, s.opponent>>] IN
       [s EXCEPT !.submit = "starting",
                 !.attempt = IF sameDetails(s.attempt, details) THEN s.attempt ELSE details]

\* The API's create_match(): found, made or refused.
Made(id) == \E m \in matches : m.id = id
Playable(request) == \A n \in 1..2 : request.players[n] \notin gone
-----------------------------------------------------------------------------
NewInit ==
  /\ newScene \in NewScenes
  /\ setup = initialSetup /\ drawn = initialSetup
  /\ posting = NoPost /\ matches = {} /\ gone = {}
  /\ picker = [screen |-> "recent", text |-> "", term |-> "", timer |-> FALSE, wants |-> "none", focus |-> "page"]
  /\ players = [shows |-> Opponent, old |-> FALSE]
  /\ place = "form" /\ read = Unread /\ kept = 0
  /\ count = [presses |-> 0, edits |-> 0, typed |-> 0, last |-> NoAttempt, ids |-> {}]

\* The reducer's new form, rendered at once or after the press.
Dispatch(s) == setup' = s /\ drawn' = s
DispatchOnly(s) == setup' = s /\ UNCHANGED drawn
MayEdit == place = "form" /\ drawn = setup /\ count.edits < MaxEdits

\* React renders the form.
Render ==
  /\ drawn # setup /\ drawn' = setup
  /\ UNCHANGED <<newScene, setup, posting, matches, gone, picker, players, place, read, kept, count>>

\* An edit of the form: its length or, with an opponent, whether it's rated.
BestOfField ==
  /\ MayEdit
  /\ \E n \in Length \ {setup.bestOf} : Dispatch([setup EXCEPT !.bestOf = n])
  /\ count' = [count EXCEPT !.edits = @ + 1]
  /\ UNCHANGED <<newScene, posting, matches, gone, picker, players, place, read, kept>>

RatedField ==
  /\ MayEdit /\ setup.opponent # Nobody
  /\ Dispatch([setup EXCEPT !.rated = ~@])
  /\ count' = [count EXCEPT !.edits = @ + 1]
  /\ UNCHANGED <<newScene, posting, matches, gone, picker, players, place, read, kept>>

\* The ref that a press sets at once.
sending == posting.step # "none"

\* The press's request, in the count of one setup's ids.
CountSend(request) ==
  count' = [count EXCEPT !.presses = @ + 1, !.last = [request EXCEPT !.id = 0],
              !.ids = IF count.last = [request EXCEPT !.id = 0] THEN @ \cup {request.id} ELSE {request.id}]

\* start() in NewMatch.tsx: the press sees the form on the screen, and the
\* reducer the newest.  Without signal it renders before the next press.
Start ==
  LET next == start(drawn, count.presses + 1)
      new == start(setup, count.presses + 1) IN
  /\ place = "form" /\ count.presses < MaxPresses /\ ~sending
  /\ \/ /\ next.submit = "starting" /\ CountSend(next.attempt)
        /\ posting' = [step |-> "sent", request |-> next.attempt] /\ DispatchOnly(new)
     \/ /\ "lost" \in newScene /\ next.submit = "starting" /\ CountSend(next.attempt)
        /\ Dispatch([new EXCEPT !.submit = "offline"]) /\ UNCHANGED posting
     \/ /\ next.submit # "starting" /\ Dispatch(new)
        /\ count' = [count EXCEPT !.presses = @ + 1] /\ UNCHANGED posting
  /\ UNCHANGED <<newScene, matches, gone, picker, players, place, read, kept>>

\* POST /v1/matches.
Create ==
  /\ posting.step = "sent"
  /\ \/ /\ Made(posting.request.id) \/ Playable(posting.request)
        /\ matches' = IF Made(posting.request.id) THEN matches ELSE matches \cup {posting.request}
        /\ posting' = [posting EXCEPT !.step = "made"]
     \/ /\ ~Made(posting.request.id) /\ ~Playable(posting.request)
        /\ posting' = [posting EXCEPT !.step = "refused"] /\ UNCHANGED matches
  /\ UNCHANGED <<newScene, setup, drawn, gone, picker, players, place, read, kept, count>>

\* The request or its answer is lost.
CreateLost ==
  /\ "lost" \in newScene /\ posting.step \in {"sent", "made", "refused"}
  /\ posting' = NoPost /\ Dispatch([setup EXCEPT !.submit = "offline"])
  /\ UNCHANGED <<newScene, matches, gone, picker, players, place, read, kept, count>>

\* ~left.current: the form is mounted.
Opens == place = "form"

\* The create answered.  start() looks at `left` this once, and begins to open
\* the match, whose loader reads it.
OpenMatch ==
  /\ posting.step = "made"
  /\ players' = [players EXCEPT !.old = TRUE]
  /\ IF Opens THEN posting' = [posting EXCEPT !.step = "opening"] /\ read' = [is |-> TRUE, games |-> kept]
     ELSE posting' = NoPost /\ UNCHANGED read
  /\ UNCHANGED <<newScene, setup, drawn, matches, gone, picker, place, kept, count>>

\* The match opened, or the page that the person left for did.  Either way
\* start() goes on to the pad.
MatchOpens ==
  /\ posting.step = "opening" /\ posting' = [posting EXCEPT !.step = "scoring"]
  /\ place' = IF place = "form" THEN "match" ELSE place
  /\ UNCHANGED <<newScene, setup, drawn, matches, gone, picker, players, read, kept, count>>

\* removeQueries() once the pad's navigation ends.
AfterPad == Unread

OpenPad ==
  /\ posting.step = "scoring" /\ posting' = NoPost
  /\ place' = "pad" /\ read' = AfterPad
  /\ UNCHANGED <<newScene, setup, drawn, matches, gone, picker, players, kept, count>>

\* The pad's navigation ends with the one that overtook it.
PadOvertaken ==
  /\ posting.step = "overtaken" /\ posting' = NoPost /\ read' = AfterPad
  /\ UNCHANGED <<newScene, setup, drawn, matches, gone, picker, players, place, kept, count>>

\* The pad saves a game.  The match page opens again and reads the match.
SaveGame ==
  /\ "save" \in newScene /\ place = "pad" /\ kept < 2 /\ kept' = kept + 1
  /\ UNCHANGED <<newScene, setup, drawn, posting, matches, gone, picker, players, place, read, count>>

ShowMatch ==
  /\ place = "pad" /\ kept > 0 /\ place' = "shown"
  /\ read' = IF read.is THEN read ELSE [is |-> TRUE, games |-> kept]
  /\ UNCHANGED <<newScene, setup, drawn, posting, matches, gone, picker, players, kept, count>>

\* A refusal's opponents list is read again.
AfterRefusal == [players EXCEPT !.old = TRUE]

Refused ==
  /\ posting.step = "refused" /\ posting' = NoPost
  /\ players' = AfterRefusal /\ Dispatch([setup EXCEPT !.submit = "refused"])
  /\ UNCHANGED <<newScene, matches, gone, picker, place, read, kept, count>>

\* GET /v1/matches/opponents: the players that no merge replaced.
opponentsQuery ==
  /\ players.old /\ players' = [shows |-> Opponent \ gone, old |-> FALSE]
  /\ UNCHANGED <<newScene, setup, drawn, posting, matches, gone, picker, place, read, kept, count>>

Merge ==
  /\ "merge" \in newScene /\ \E p \in Opponent \ gone : gone' = gone \cup {p}
  /\ UNCHANGED <<newScene, setup, drawn, posting, matches, picker, players, place, read, kept, count>>

\* Cancel, another link or Back, from the form, or from the match or another
\* page while the pad's navigation is pending, which it then overtakes.
Leave ==
  /\ "leave" \in newScene
  /\ place \in {"form", "match"} \/ posting.step = "scoring"
  /\ place' = "elsewhere"
  /\ posting' = IF posting.step = "scoring" THEN [posting EXCEPT !.step = "overtaken"] ELSE posting
  /\ UNCHANGED <<newScene, setup, drawn, matches, gone, picker, players, read, kept, count>>
-----------------------------------------------------------------------------
(* The picker: the control pressed goes, and the one that replaced it takes *)
(* the focus as it mounts (useFocusOnMount).                               *)

\* A control that mounts takes the focus if it's the one wanted.
Mounted(screen, wants) ==
  LET control == CASE screen = "picked" -> "change" [] screen = "recent" -> "searchAll" [] OTHER -> "none" IN
  [picker EXCEPT !.screen = screen,
     !.wants = IF wants = control THEN "none" ELSE wants,
     !.focus = IF screen = "search" THEN "searchInput" ELSE IF wants = control THEN control ELSE "page"]

Pick ==
  /\ MayEdit /\ picker.screen # "picked"
  /\ \E p \in players.shows :
       Dispatch(pick(setup, p)) /\ picker' = Mounted("picked", "change")
  /\ count' = [count EXCEPT !.edits = @ + 1]
  /\ UNCHANGED <<newScene, posting, matches, gone, players, place, read, kept>>

Change ==
  /\ MayEdit /\ picker.screen = "picked"
  /\ Dispatch(clearOpponent(setup)) /\ picker' = Mounted("recent", "searchAll")
  /\ count' = [count EXCEPT !.edits = @ + 1]
  /\ UNCHANGED <<newScene, posting, matches, gone, players, place, read, kept>>

SearchAll ==
  /\ "search" \in newScene /\ place = "form" /\ picker.screen = "recent"
  /\ picker' = [Mounted("search", picker.wants) EXCEPT !.text = "", !.term = "", !.timer = TRUE]
  /\ UNCHANGED <<newScene, setup, drawn, posting, matches, gone, players, place, read, kept, count>>

SearchBack ==
  /\ place = "form" /\ picker.screen = "search" /\ picker' = Mounted("recent", "searchAll")
  /\ UNCHANGED <<newScene, setup, drawn, posting, matches, gone, players, place, read, kept, count>>

\* A key starts the wait again, so only the last text is searched for.
AfterKey(w) == [picker EXCEPT !.text = w, !.timer = TRUE]

Type ==
  /\ place = "form" /\ picker.screen = "search" /\ count.typed < MaxTyped
  /\ \E w \in Word \ {picker.text} : picker' = AfterKey(w)
  /\ count' = [count EXCEPT !.typed = @ + 1]
  /\ UNCHANGED <<newScene, setup, drawn, posting, matches, gone, players, place, read, kept>>

SearchTimer ==
  /\ picker.screen = "search" /\ picker.timer
  /\ picker' = [picker EXCEPT !.term = picker.text, !.timer = FALSE]
  /\ UNCHANGED <<newScene, setup, drawn, posting, matches, gone, players, place, read, kept, count>>

NewNext ==
  \/ Render \/ BestOfField \/ RatedField
  \/ Start \/ Create \/ CreateLost \/ OpenMatch \/ MatchOpens \/ OpenPad \/ PadOvertaken \/ SaveGame \/ ShowMatch \/ Refused
  \/ opponentsQuery \/ Merge \/ Leave
  \/ Pick \/ Change \/ SearchAll \/ SearchBack \/ Type \/ SearchTimer

NewSpec == NewInit /\ [][NewNext]_newVars
-----------------------------------------------------------------------------
(* Properties.                                                             *)

NewTypeOK ==
  /\ setup.opponent \in Opponent \cup {Nobody} /\ setup.attempt.id \in 0..MaxPresses
  /\ setup.submit \in {"idle", "needsOpponent", "starting", "offline", "refused"}
  /\ setup.rated => setup.opponent # Nobody
  /\ posting.step \in {"none", "sent", "made", "refused", "opening", "scoring", "overtaken"}
  /\ gone \subseteq Opponent /\ players.shows \subseteq Opponent
  /\ place \in {"form", "match", "pad", "shown", "elsewhere"}
  /\ picker.screen = "picked" <=> setup.opponent # Nobody

\* However often Start is pressed without a change of the form, before React
\* renders, after a lost answer or without signal, the API makes one match
\* (setup.ts attempt, NewMatch.tsx sending).
OneMatchEachSetup == Cardinality({m \in matches : m.id \in count.ids}) <= 1

\* A match that the API refused as its opponent had merged is answered with a
\* list that doesn't offer that opponent again.
RefusedIsNotOffered ==
  setup.submit = "refused" /\ ~players.old => setup.attempt.players[2] \notin players.shows

\* start() is past its look at `left`, and no leave has overtaken its pad.
Opening == posting.step \in {"opening", "scoring"}

\* A create that answers after the person left opens nothing, then or later,
\* and so does one whose pad a leave overtakes.  (The comment at `left` says no
\* more.  A person who leaves while the match opens, after the answer, is taken
\* to its pad all the same.)
LeftOpensNothing ==
  [][place = "elsewhere" /\ ~Opening => (place = "elsewhere" /\ ~Opening)']_newVars

\* The match page shows the games that its pad saved, and not its loader's
\* read from before the pad, whose Keep score would drop them.
ShowsTheSaves == place = "shown" => read.games = kept

\* A search that waits for nothing is of the text in the field.
SearchesTheText == picker.screen = "search" /\ ~picker.timer => picker.term = picker.text

\* One match for one set-up, of whom and what the page shows, and the app goes
\* there only if the person was still on the form when the answer came.
NewSafe ==
  /\ [](NewTypeOK /\ OneMatchEachSetup /\ ShowsTheSaves
        /\ RefusedIsNotOffered /\ SearchesTheText)
  /\ LeftOpensNothing
=============================================================================
