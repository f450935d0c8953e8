------------------------------- MODULE Arcade -------------------------------
(***************************************************************************)
(* One session of the arcade (jmmjouer/arcade.c, arcade_run): the player   *)
(* is identified, chooses games in a menu until he quits, and the result   *)
(* of each game is added to his map of scores.                             *)
(*                                                                         *)
(* The program is sequential and driven by standard input.  Input is       *)
(* modelled line by line, with the parts of a line that matter: a line     *)
(* longer than a buffer leaves its rest for the next prompt, an empty line *)
(* makes clean_stdin() swallow the line after it, and at end of file a     *)
(* prompt keeps the content of its variable, which is undefined as long as *)
(* nothing was read into it.                                               *)
(***************************************************************************)
EXTENDS MapGameScore

CONSTANTS UserNames,   \* what can be typed as a name (at most 49 characters)
          Overlong,    \* the names that are the start of a longer line
          Known,       \* the names record_find_joueur_from_name() finds
          Record,      \* the map of scores of each of them
          Functions,   \* the games' start functions
          Outcomes,    \* the scores each of them may return
          LongGames,   \* the game names of MAX_NAME_GAME_LEN characters or more
          GameLists,   \* what game_loader_get_names() may give
          Anonymous,   \* the name of the -a option
          NoName, NoFunction,
          MaxRefusals, MaxParties   \* bounds of the model

\* One entry of the loader: a name and the function found under it, which is
\* missing when the plugin did not export it.
Entry == [name: GameNames, ptr: Functions \cup {NoFunction}]

\* A record line holds at most 49 characters, the name and two flags, so a
\* name that fills the 49 characters of the prompt is never found.  The
\* record's own maps are built with map_game_score_insert().
ASSUME SessionAssumption ==
    /\ Anonymous \in UserNames /\ NoName \notin UserNames
    /\ Overlong \subseteq UserNames /\ Known \subseteq UserNames
    /\ Known \cap Overlong = {}
    /\ NoFunction \notin Functions
    /\ LongGames \subseteq GameNames
    /\ Record \in [Known -> Seq(Pair)]
    /\ \A n \in Known : KeysUnique(Record[n])
    /\ Outcomes \in [Functions -> SUBSET Score]
    /\ \A l \in GameLists : l \in Seq(Entry) /\ Len(l) >= 2
    /\ MaxRefusals \in Nat /\ MaxParties \in Nat

VARIABLES
    games,     \* the loader's entries, in the order of the menu
    phase,     \* where arcade_run() is
    name,      \* joueur.user.pname
    scores,    \* joueur.map_score
    tryName,   \* try_name, the buffer of the name prompt
    residue,   \* first character left in stdin by the last name line
    eof,       \* stdin is at end of file
    asked,     \* the current prompt's variable holds an answer it rejected
    choice,    \* the entry of the menu being played
    heap,      \* live allocations: name buffers and maps of scores
    origin,    \* where the player comes from                    (history)
    consent,   \* what the last confirmation was read from       (history)
    refused,   \* confirmations answered no                      (history)
    parties,   \* games started                                  (history)
    played     \* sum of the results returned, by game name      (history)

player  == <<name, scores, origin>>
input   == <<tryName, residue, eof, asked>>
history == <<refused, parties, played>>
vars == <<games, phase, player, input, choice, heap, consent, history>>

Chars == {"y", "n", "newline", "other"}

Init ==
    /\ games \in GameLists
    /\ phase = "start" /\ name = NoName /\ scores = <<>> /\ origin = "none"
    /\ tryName = NoName /\ residue = "none" /\ eof = FALSE /\ asked = FALSE
    /\ choice = 1
    /\ heap = [names |-> 0, maps |-> 0]
    /\ consent = "none" /\ refused = 0 /\ parties = 0
    /\ played = [g \in GameNames |-> NoScore]

-----------------------------------------------------------------------------
(* Identification *)

\* Option -a: no question asked.
StartAnonymous ==
    /\ phase = "start"
    /\ phase' = "menu"
    /\ name' = Anonymous /\ scores' = <<>> /\ origin' = "anonymous"
    /\ heap' = [names |-> heap.names + 1, maps |-> heap.maps + 1]
    /\ UNCHANGED <<games, input, choice, consent, history>>

StartIdentification ==
    /\ phase = "start"
    /\ phase' = "identify"
    /\ UNCHANGED <<games, player, input, choice, heap, consent, history>>

\* fgets(): a full line, the start of a long line, or nothing at end of file,
\* which leaves try_name as it was: undefined the first time.
ReadName(n) ==
    \/ /\ ~eof
       /\ residue' \in IF n \in Overlong THEN Chars ELSE {"none"}
       /\ UNCHANGED eof
    \/ /\ tryName # NoName => n = tryName
       /\ eof' = TRUE /\ residue' = "none"

\* The record has the player: name and map come with it.
WelcomeBack(n) ==
    /\ phase = "identify" /\ n \in Known
    /\ ReadName(n)
    /\ phase' = "menu"
    /\ name' = n /\ scores' = Record[n] /\ origin' = "record"
    /\ heap' = [names |-> heap.names + 1, maps |-> heap.maps + 1]
    /\ tryName' = n /\ asked' = FALSE
    /\ UNCHANGED <<games, choice, consent, history>>

\* A faulty variant: the answer of the lookup is not looked at.
NotFoundUnchecked(n) ==
    /\ phase = "identify"
    /\ ReadName(n)
    /\ phase' = "confirm"
    /\ heap' = [heap EXCEPT !.maps = @ + 1]
    /\ tryName' = n /\ asked' = FALSE
    /\ UNCHANGED <<games, player, choice, consent, history>>

\* An invalid joueur comes back: no name, but a map of its own.
NotFound(n) ==
    /\ phase = "identify" /\ n \notin Known
    /\ ReadName(n)
    /\ phase' = "confirm"
    /\ heap' = [heap EXCEPT !.maps = @ + 1]
    /\ tryName' = n /\ asked' = FALSE
    /\ UNCHANGED <<games, player, choice, consent, history>>

\* scanf("%c") then clean_stdin(): the character comes from the rest of the
\* name's line, else from a line, else from a variable nothing was read into.
ReadChar(c) ==
    /\ residue' = "none"
    /\ asked' = (c \notin {"y", "n"})
    /\ \/ residue # "none" /\ c = residue /\ consent' = "residue" /\ UNCHANGED eof
       \/ residue = "none" /\ ~eof /\ consent' = "typed" /\ UNCHANGED eof
       \/ /\ residue = "none" /\ (asked => c = "other")
          /\ consent' = "garbage" /\ eof' = TRUE

\* A faulty variant: joueur_init() over the invalid joueur, not deleted.
RenewedWithoutDelete(h) == [names |-> h.names + 1, maps |-> h.maps + 1]

\* The heap after joueur_delete(&joueur) and joueur_init(&joueur, ...).
Renewed(h) == [names |-> h.names + 1, maps |-> h.maps]

ConfirmYes ==
    /\ phase = "confirm" /\ ReadChar("y")
    /\ phase' = "menu"
    /\ name' = tryName /\ scores' = <<>> /\ origin' = "new"
    /\ heap' = Renewed(heap)
    /\ UNCHANGED <<games, tryName, choice, history>>

\* The loop starts again; the next lookup overwrites the invalid joueur,
\* whose map is never deleted.
ConfirmNo ==
    /\ phase = "confirm" /\ refused < MaxRefusals /\ ReadChar("n")
    /\ phase' = "identify"
    /\ refused' = refused + 1
    /\ UNCHANGED <<games, player, tryName, choice, heap, parties, played>>

ConfirmAgain ==
    /\ phase = "confirm"
    /\ \E c \in Chars \ {"y", "n"} : ReadChar(c)
    /\ UNCHANGED <<games, phase, player, tryName, choice, heap, history>>

-----------------------------------------------------------------------------
(* The menu *)

NbGames == Len(games)

\* scanf("%d") then clean_stdin(): the number on a line, or, when there is
\* none, what choice_game held: undefined until a number was read, and a
\* rejected one afterwards.  NbGames + 3 stands for every number that is not
\* an entry of the menu.
ReadChoice(v) ==
    \/ v \in 0..(NbGames + 3) /\ ~eof /\ UNCHANGED eof
    \/ /\ v \in IF asked THEN {NbGames + 3} ELSE 0..(NbGames + 3)
       /\ eof' \in {eof, TRUE}

\* print_game_menu() asks again.
MenuAgain ==
    /\ phase = "menu"
    /\ ReadChoice(NbGames + 3)
    /\ asked' = TRUE
    /\ UNCHANGED <<games, phase, player, tryName, residue, choice, heap, consent, history>>

ShowScores ==
    /\ phase = "menu"
    /\ ReadChoice(NbGames + 1)
    /\ asked' = FALSE
    /\ UNCHANGED <<games, phase, player, tryName, residue, choice, heap, consent, history>>

\* The player and his map are deleted: nothing goes back to the record.
Quit ==
    /\ phase = "menu"
    /\ ReadChoice(NbGames + 2)
    /\ phase' = "done" /\ asked' = FALSE
    /\ heap' = [names |-> heap.names - 1, maps |-> heap.maps - 1]
    /\ name' = NoName /\ scores' = <<>>
    /\ UNCHANGED <<games, tryName, residue, choice, origin, consent, history>>

\* game_loader_get_ptr_game(): the function of the first entry of that name.
FunctionOf(n) ==
    LET first == CHOOSE i \in DOMAIN games :
                    /\ games[i].name = n
                    /\ \A j \in DOMAIN games : games[j].name = n => i <= j
    IN  games[first].ptr

\* run_game() up to the call of the game: the user_t passed to it holds a copy
\* of the name.  A missing function is logged, and called all the same.
Play(i) ==
    /\ phase = "menu" /\ parties < MaxParties
    /\ ReadChoice(i - 1) \/ ReadChoice(NbGames)
    /\ choice' = i /\ asked' = FALSE
    /\ parties' = parties + 1
    /\ heap' = [heap EXCEPT !.names = @ + 1]
    /\ phase' = IF FunctionOf(games[i].name) \in Functions THEN "playing" ELSE "crashed"
    /\ UNCHANGED <<games, player, tryName, residue, consent, refused, played>>

\* Faulty variants: the result replaces the previous score; the defeats are
\* left out.
CreditReplaces(previous, r) == [r EXCEPT !.draw = previous.draw]
CreditWins(previous, r) == [previous EXCEPT !.win = Plus(@, r.win)]

\* previous_scores.nb_win += ..., previous_scores.nb_lost += ...
Credit(previous, r) ==
    [previous EXCEPT !.win = Plus(@, r.win), !.lost = Plus(@, r.lost)]

Tally(sum, r) == [win  |-> Plus(sum.win, r.win),
                  lost |-> Plus(sum.lost, r.lost),
                  draw |-> Plus(sum.draw, r.draw)]

\* The game returns: the user_t is deleted and the map updated, unless the
\* name of the game is too long for a pair of the map, which is asserted.
GameReturns(r) ==
    LET n == games[choice].name IN
    /\ phase = "playing" /\ r \in Outcomes[FunctionOf(n)]
    /\ heap' = [heap EXCEPT !.names = @ - 1]
    /\ IF n \in LongGames
       THEN phase' = "aborted" /\ UNCHANGED <<scores, played>>
       ELSE /\ phase' = "menu"
            /\ scores' = Insert(scores, n, Credit(GetFromName(scores, n), r))
            /\ played' = [played EXCEPT ![n] = Tally(@, r)]
    /\ UNCHANGED <<games, name, origin, input, choice, consent, refused, parties>>

\* The session is over, or the model's bound on refusals is reached.
Ended ==
    /\ \/ phase \in {"done", "crashed", "aborted"}
       \/ phase = "confirm" /\ refused = MaxRefusals
    /\ UNCHANGED vars

Next ==
    \/ StartAnonymous \/ StartIdentification
    \/ \E n \in UserNames : WelcomeBack(n) \/ NotFound(n)
    \/ ConfirmYes \/ ConfirmNo \/ ConfirmAgain
    \/ MenuAgain \/ ShowScores \/ Quit
    \/ \E i \in DOMAIN games : Play(i)
    \/ \E r \in Score : GameReturns(r)
    \/ Ended

Spec == Init /\ [][Next]_vars

-----------------------------------------------------------------------------
(* Properties *)

Phases == {"start", "identify", "confirm", "menu", "playing",
           "done", "crashed", "aborted"}

\* Every variable has its type.
TypeOK ==
    /\ games \in GameLists /\ phase \in Phases
    /\ name \in UserNames \cup {NoName} /\ scores \in Seq(Pair)
    /\ origin \in {"none", "record", "new", "anonymous"}
    /\ tryName \in UserNames \cup {NoName} /\ residue \in Chars \cup {"none"}
    /\ eof \in BOOLEAN /\ asked \in BOOLEAN
    /\ choice \in DOMAIN games
    /\ heap \in [names: Nat, maps: Nat]
    /\ consent \in {"none", "typed", "residue", "garbage"}
    /\ refused \in 0..MaxRefusals /\ parties \in 0..MaxParties
    /\ played \in [GameNames -> Score]

\* The player is identified and his map of scores exists.
Identified == phase \in {"menu", "playing", "crashed", "aborted"}

\* The map the session started with.
Opening == IF origin = "record" THEN Record[name] ELSE <<>>

\* What run_game() accumulates (arcade.c:177-183): whatever the order of the
\* games, and whatever the map held before, the victories and defeats of a
\* game are those of the record plus all those its parties returned.
ScoreConservation ==
    Identified => \A g \in GameNames :
        LET now == GetFromName(scores, g)  before == GetFromName(Opening, g)
        IN  /\ now.win = Plus(before.win, played[g].win)
            /\ now.lost = Plus(before.lost, played[g].lost)

\* The list behind the map never holds the same game twice, so that a search
\* by name cannot return a stale score (map_game_score.c:188-216).
ScoresAreAMap == KeysUnique(scores)

\* A player enters the menu as new only when the record does not know him, so
\* that an empty map never hides recorded scores, and only after a yes, typed
\* unless the line of his name was too long or stdin at its end; a player of
\* the record enters it under a name it knows (arcade.c:200-228).
NoShadowedPlayer ==
    /\ origin = "record" /\ Identified => name \in Known
    /\ origin = "new" => tryName \notin Known
    /\ origin = "new" /\ Identified => name = tryName
    /\ origin = "new" => consent = "typed" \/ tryName \in Overlong \/ eof

\* What is allocated: the player's name and map, the copy of the name a game
\* holds, and one map for each refused confirmation, which nothing can free
\* any more: joueur_delete() is called on the accepted joueur only
\* (arcade.c:200-221).
HeapBalance ==
    /\ heap.names = (IF Identified THEN 1 ELSE 0)
                     + (IF phase \in {"playing", "crashed"} THEN 1 ELSE 0)
    /\ heap.maps = refused + (IF Identified \/ phase = "confirm" THEN 1 ELSE 0)

-----------------------------------------------------------------------------
(* The session as a ledger of victories and defeats *)

LedgerOf(map) ==
    [g \in GameNames |-> [win  |-> GetFromName(map, g).win,
                          lost |-> GetFromName(map, g).lost]]

LedgerStatus ==
    IF Identified THEN "open" ELSE IF phase = "done" THEN "closed" ELSE "none"

\* The victories and defeats one party of one of the games can return.
Returned ==
    {[win |-> r.win, lost |-> r.lost] : r \in UNION {Outcomes[f] : f \in Functions}}

Ledger == INSTANCE ScoreLedger WITH
    Results  <- Returned,
    Openings <- {LedgerOf(Record[n]) : n \in Known} \cup {LedgerOf(<<>>)},
    status   <- LedgerStatus,
    ledger   <- LedgerOf(scores)

\* The arcade implements the ledger: one party credits one line, once.
ImplementsLedger == Ledger!Spec

\* What the code does not do: the draws a party returns are results as well
\* ("nb of draw", score_game.h), and are counted in the player's scores.
DrawsCounted ==
    Identified => \A g \in GameNames :
        GetFromName(scores, g).draw =
            Plus(GetFromName(Opening, g).draw, played[g].draw)
=============================================================================
