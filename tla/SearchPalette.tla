---------------------------- MODULE SearchPalette ---------------------------
(* The desktop client's search palette, GlobalSearchModal.tsx: what is     *)
(* typed is searched for after a pause, a new letter starts the pause      *)
(* anew, and the answers of the searches under way arrive in any order,    *)
(* also after the palette was closed. The palette stays mounted while      *)
(* somebody is signed in; whether it is open is kept by App.tsx.           *)
EXTENDS Naturals

CONSTANTS
    Word,       \* what may be typed
    MaxAsked    \* bound on the searches under way

ASSUME PaletteAssumption == MaxAsked \in Nat \ {0} /\ "" \notin Word

VARIABLES
    isOpen,     \* whether the palette is shown
    query,      \* what is typed, "" for nothing
    timer,      \* what is searched for after the pause, "" for nothing
    asked,      \* how many searches for a word are under way
    loading,    \* whether "Searching..." is shown
    results     \* the word whose matches are shown, "" for none

paletteVars == <<isOpen, query, timer, asked, loading, results>>

PaletteInit ==
    /\ isOpen = FALSE /\ query = "" /\ timer = "" /\ results = "" /\ loading = FALSE
    /\ asked = [w \in Word |-> 0]

(* The top bar's search button.                                            *)
OpenPalette ==
    /\ ~isOpen
    /\ isOpen' = TRUE
    /\ UNCHANGED <<query, timer, asked, loading, results>>

(* Mutant of ClosePalette: what was found is cleared, what was typed not.  *)
ClosePaletteKeepsQuery ==
    /\ isOpen
    /\ isOpen' = FALSE /\ results' = "" /\ timer' = ""
    /\ UNCHANGED <<query, asked, loading>>

(* Escape, Ctrl+K, the backdrop, or a match that is followed: what was     *)
(* typed and found is cleared, and the pause ends without a search.        *)
ClosePalette ==
    /\ isOpen
    /\ isOpen' = FALSE /\ query' = "" /\ results' = "" /\ timer' = ""
    /\ UNCHANGED <<asked, loading>>

Type(w) ==
    /\ isOpen /\ w # query
    /\ query' = w /\ timer' = w
    /\ results' = IF w = "" THEN "" ELSE results
    /\ UNCHANGED <<isOpen, asked, loading>>

Asked(w) == asked[w] > 0

(* The pause is over, and the search starts.                               *)
StartSearch(w) ==
    /\ timer = w
    /\ \A v \in Word : asked[v] < MaxAsked
    /\ timer' = "" /\ loading' = TRUE
    /\ asked' = [asked EXCEPT ![w] = @ + 1]
    /\ UNCHANGED <<isOpen, query, results>>

(* A search ends; without a server it finds built-in data. What it found   *)
(* is shown, whatever is typed by now.                                     *)
EndSearch(w) ==
    /\ Asked(w)
    /\ asked' = [asked EXCEPT ![w] = @ - 1]
    /\ results' = w /\ loading' = FALSE
    /\ UNCHANGED <<isOpen, query, timer>>

(* A match is followed: its section is shown and the palette closed.       *)
FollowMatch ==
    /\ results # ""
    /\ ClosePalette

(* The session ends and another begins: the palette is mounted anew, open  *)
(* if it was open; answers under way reach nobody.                         *)
MountAgain ==
    /\ query' = "" /\ timer' = "" /\ results' = "" /\ loading' = FALSE
    /\ asked' = [w \in Word |-> 0]
    /\ UNCHANGED isOpen

PaletteNext ==
    \/ OpenPalette
    \/ ClosePalette
    \/ \E w \in Word \cup {""} : Type(w)
    \/ \E w \in Word : StartSearch(w) \/ EndSearch(w)
    \/ FollowMatch
    \/ MountAgain

(* Timers run out, and a call to the server is answered or fails.          *)
PaletteFairness ==
    \A w \in Word : WF_paletteVars(StartSearch(w)) /\ WF_paletteVars(EndSearch(w))

PaletteSpec == PaletteInit /\ [][PaletteNext]_paletteVars /\ PaletteFairness

(* Queries and results are of words or empty; searches are counted.        *)
PaletteTypeOK ==
    /\ isOpen \in BOOLEAN /\ loading \in BOOLEAN
    /\ query \in Word \cup {""} /\ timer \in Word \cup {""} /\ results \in Word \cup {""}
    /\ asked \in [Word -> 0 .. MaxAsked]

(* A word stands in the palette, nothing is shown yet and no search for    *)
(* another word is under way.                                              *)
Standing(w) ==
    query = w /\ results = "" /\ \A v \in Word \ {w} : ~Asked(v)

(* A word that is left standing gets its matches, however often the        *)
(* palette was closed, opened and mounted before, and whether or not the   *)
(* server answers. (With a search for another word under way they need not *)
(* stay: a late answer replaces them.)                                     *)
QueryGetsAnswered == \A w \in Word : Standing(w) ~> results = w \/ query # w
=============================================================================
