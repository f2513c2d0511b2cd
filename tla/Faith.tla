------------------------------- MODULE Faith -------------------------------
(***************************************************************************)
(* The Faith plugin: the session of plugins/faith and the process of       *)
(* cmd/sysc-plugin-faith with its loader of translations, its commentary   *)
(* requests and its saver.                                                 *)
(*                                                                         *)
(* A verse is its place in the canon and a translation is the set of the   *)
(* verses it carries.  References are single verses; a note is the verse   *)
(* it is about; a prayer is a model value.  The bag keeps the prayers that *)
(* are left of the round: their shuffled order is a choice at each draw.   *)
(* The refresh interval passes at any time while no panel is open.  The    *)
(* bar, the browser and the texts are left out.                            *)
(***************************************************************************)
EXTENDS Absent, Naturals, FiniteSets, FiniteSetsExt

CONSTANTS Translations,   \* sets of verses
          First,          \* the translation of the default settings
          ChapterLength,  \* verses of a chapter
          Pool,           \* the devotional verses
          Common,         \* prayers of every tradition
          Own,            \* prayers of the one other tradition
          FaithClicks,      \* bound: what the user does
          FaithTroubles,    \* bound: failures and crashes
          FaithTicks        \* bound: midnights, and intervals that pass

Modes == {"pool", "daily", "bible"}
Settings == [translation : Translations, mode : Modes, commentary : BOOLEAN, wide : BOOLEAN]
DefaultSettings == [translation |-> First, mode |-> "pool", commentary |-> TRUE, wide |-> FALSE]

Chapter(v) == (v - 1) \div ChapterLength

\* What the session, the saver and the loader keep.
Bags == [wide : BOOLEAN, left : SUBSET (Common \cup Own), last : Common \cup Own \cup {None}]
Sessions ==
  [settings : Settings, bible : Translations, gen : Nat, ref : Nat, panels : Nat,
   status : {"off", "loading", "ready", "none", "unavailable"}, note : Nat \cup {None},
   noteGen : Nat, bag : Bags, day : Nat, ending : BOOLEAN, fetch : BOOLEAN, save : BOOLEAN]
Saves == [ref : Nat, bag : Bags]
Loads == [id : Translations, gen : Nat]
LoadsDone == [id : Translations, gen : Nat, read : BOOLEAN]

\* Every translation carries a verse of each chapter the pool is from (pool_test.go:30-38
\* asks for the very verses).
FaithAssumption ==
  /\ First \in Translations /\ \A t \in Translations : t # {} /\ t \subseteq Nat
  /\ ChapterLength \in Nat \ {0} /\ Cardinality(Common) > 1
  /\ Pool # {} /\ Pool \subseteq Nat /\ IsFiniteSet(Pool)
  /\ \A t \in Translations, v \in Pool : \E w \in t : Chapter(w) = Chapter(v)
  /\ {FaithClicks, FaithTroubles, FaithTicks} \subseteq Nat
  /\ None \notin Nat \cup Bags \cup Sessions \cup Saves \cup Loads \cup LoadsDone

VARIABLES store,      \* the keys of the host: ref and bag
          wanted,     \* the settings the host keeps
          session,    \* Session, or None while no process runs
          fetches,    \* the requests for a note that are under way
          loader,     \* translations, the load under way, translationResults
          saver,      \* pending, and the bag of the write under way
          today,      \* the date
          drawn,      \* history: the bag after the latest draw
          faithLimits  \* what is left of the bounds

faithVars == <<store, wanted, session, fetches, loader, saver, today, drawn, faithLimits>>

\* Settings with one of them changed.
Other(s) ==
  {[s EXCEPT !.translation = t] : t \in Translations} \cup {[s EXCEPT !.mode = m] : m \in Modes}
    \cup {[s EXCEPT !.commentary = ~@], [s EXCEPT !.wide = ~@]}

NoSave == [pending |-> None, bag |-> None]
NoLoads == [waiting |-> None, loading |-> None, done |-> None]

----------------------------------------------------------------------------
(* Verses *)

\* Bible.Resolve: the verse, the next one of its chapter, or the last one of it.
Resolve(bible, v) ==
  LET here == {w \in bible : Chapter(w) = Chapter(v)}
      beyond == {w \in here : w >= v} IN
  IF here = {} THEN None ELSE IF beyond # {} THEN Min(beyond) ELSE Max(here)

\* Pool.Daily and Pool.Random.
Daily(day) ==
  CHOOSE v \in Pool : Cardinality({w \in Pool : w < v}) = day % Cardinality(Pool)
Others(v) == IF Cardinality(Pool) < 2 THEN Pool ELSE Pool \ {v}

\* The verses pick may choose.
Picks(u) ==
  LET wishes == CASE u.settings.mode = "daily" -> {Daily(today)}
                  [] u.settings.mode = "bible" -> u.bible
                  [] OTHER -> Others(u.ref) IN
  UNION {LET w == Resolve(u.bible, v) IN IF w = None THEN Others(u.ref) ELSE {w} : v \in wishes}

----------------------------------------------------------------------------
(* What an event does to the session: u carries the effects fetch and save *)

\* commentaryRequest: with no panel open the note waits for PanelOpened.
RequestNote(u) ==
  [u EXCEPT !.noteGen = @ + 1, !.note = None,
            !.status = IF u.settings.commentary THEN "loading" ELSE "off",
            !.fetch = u.settings.commentary /\ u.panels > 0]

Moved(u, v) == [RequestNote([u EXCEPT !.ref = v]) EXCEPT !.save = TRUE]

\* pick and what follows it.
PickedOnes(u) == {Moved([u EXCEPT !.day = today], v) : v \in Picks(u)}

\* The effects are performed: a fetch starts, the latest state waits for the saver.
Becomes(u) ==
  /\ session' = [u EXCEPT !.fetch = FALSE, !.save = FALSE]
  /\ fetches' = IF u.fetch THEN fetches \cup {[gen |-> u.noteGen, ref |-> u.ref]} ELSE fetches
  /\ saver' = IF u.save THEN [saver EXCEPT !.pending = [ref |-> u.ref, bag |-> u.bag]] ELSE saver

Alive == session # None /\ ~session.ending
FaithClick == faithLimits.clicks > 0 /\ faithLimits' = [faithLimits EXCEPT !.clicks = @ - 1]
Time == faithLimits.ticks > 0 /\ faithLimits' = [faithLimits EXCEPT !.ticks = @ - 1]
Trouble == faithLimits.troubles > 0 /\ faithLimits' = [faithLimits EXCEPT !.troubles = @ - 1]

\* The panel's buttons: the verse before, the one after, a cross-reference, a new one.
Neighbours(u) ==
  LET before == {w \in u.bible : w < u.ref}
      beyond == {w \in u.bible : w > u.ref} IN
  (IF before = {} THEN {} ELSE {Max(before)}) \cup (IF beyond = {} THEN {} ELSE {Min(beyond)})

Read ==
  /\ Alive /\ session.panels > 0 /\ FaithClick
  /\ \/ \E v \in Neighbours(session) \cup (session.bible \ {session.ref}) : Becomes(Moved(session, v))
     \/ \E u \in PickedOnes(session) : Becomes(u)
  /\ UNCHANGED <<store, wanted, loader, today, drawn>>

\* Bag.Draw: a refill when the round is over or the tradition is another, and it does
\* not start with the prayer just drawn.
PrayerPool(wide) == IF wide THEN Common \cup Own ELSE Common
Draws(bag, wide) ==
  LET again == bag.wide # wide \/ bag.left = {}
      left == IF again THEN PrayerPool(wide) ELSE bag.left IN
  {[wide |-> wide, left |-> left \ {p}, last |-> p] :
     p \in IF again THEN left \ {bag.last} ELSE left}

Pray ==
  /\ Alive /\ FaithClick
  /\ \E bag \in Draws(session.bag, session.settings.wide) :
       /\ Becomes([session EXCEPT !.bag = bag, !.save = TRUE])
       /\ drawn' = bag
  /\ UNCHANGED <<store, wanted, loader, today>>

PanelOpened(u) ==
  LET v == [u EXCEPT !.panels = @ + 1] IN
  IF v.panels = 1 /\ v.settings.commentary /\ v.status \notin {"ready", "none"} THEN RequestNote(v) ELSE v

OpenPanel ==
  /\ Alive /\ session.panels < 2 /\ FaithClick
  /\ Becomes(PanelOpened(session)) /\ UNCHANGED <<store, wanted, loader, today, drawn>>

ClosePanel ==
  /\ Alive /\ session.panels > 0 /\ FaithClick
  /\ Becomes([session EXCEPT !.panels = @ - 1]) /\ UNCHANGED <<store, wanted, loader, today, drawn>>

\* As CommentaryResult, but an answer for a verse the panel has left is taken.
TakesLate(u, f, answer) ==
  [u EXCEPT !.status = answer, !.note = IF answer = "ready" THEN f.ref ELSE @]

\* CommentaryResult: an answer that is not to the latest request changes nothing.
CommentaryResult(u, f, answer) ==
  IF f.gen # u.noteGen \/ ~u.settings.commentary THEN u
  ELSE [u EXCEPT !.status = answer, !.note = IF answer = "ready" THEN f.ref ELSE @]

NoteArrives ==
  /\ Alive
  /\ \E f \in fetches, answer \in {"ready", "none", "unavailable"} :
       /\ IF answer = "unavailable" THEN Trouble ELSE UNCHANGED faithLimits
       /\ session' = CommentaryResult(session, f, answer)
       /\ fetches' = fetches \ {f}
  /\ UNCHANGED <<store, wanted, loader, saver, today, drawn>>

\* Tick: a new day in daily mode, the interval in the others while no panel is open.
Tick ==
  /\ Alive
  /\ IF session.settings.mode = "daily" THEN today # session.day /\ UNCHANGED faithLimits
     ELSE session.panels = 0 /\ Time
  /\ \E u \in PickedOnes(session) : Becomes(u)
  /\ UNCHANGED <<store, wanted, loader, today, drawn>>

\* ApplySettings.
ApplySettings(u, chosen) ==
  LET v == [u EXCEPT !.settings = chosen,
                     !.gen = IF chosen.translation # u.settings.translation THEN @ + 1 ELSE @] IN
  IF chosen.mode # u.settings.mode THEN PickedOnes(v)
  ELSE IF chosen.commentary # u.settings.commentary THEN {RequestNote(v)} ELSE {v}

\* As Queued, but a load that waits keeps its place.
KeepsWaiting(request) == IF loader.waiting = None THEN [loader EXCEPT !.waiting = request] ELSE loader

\* LoadTranslationEffect: the newest load takes the place of the one that waits.
Queued(request) == [loader EXCEPT !.waiting = request]

\* The session takes the settings u is of, and the loader the load they ask for.
TakesSettings(before, u) ==
  /\ Becomes(u)
  /\ loader' = IF u.gen = before.gen THEN loader
               ELSE Queued([id |-> u.settings.translation, gen |-> u.gen])

SettingsChanged ==
  /\ Alive /\ FaithClick /\ wanted' \in Other(wanted)
  /\ \E u \in ApplySettings(session, wanted') : TakesSettings(session, u)
  /\ UNCHANGED <<store, today, drawn>>

----------------------------------------------------------------------------
(* The loader of translations *)

Load ==
  /\ Alive
  /\ \/ /\ loader.waiting # None /\ loader.loading = None
        /\ loader' = [loader EXCEPT !.loading = loader.waiting, !.waiting = None]
        /\ UNCHANGED faithLimits
     \/ /\ loader.loading # None /\ loader.done = None
        /\ \E read \in BOOLEAN :
             /\ IF read THEN UNCHANGED faithLimits ELSE Trouble
             /\ loader' = [loader EXCEPT !.loading = None,
                             !.done = [id |-> loader.loading.id, gen |-> loader.loading.gen,
                                       read |-> read]]
  /\ UNCHANGED <<store, wanted, session, fetches, saver, today, drawn>>

\* The verse on the new translation: itself, its neighbour, or another.
OnBible(u) ==
  LET v == Resolve(u.bible, u.ref) IN
  IF v = u.ref THEN {u}
  ELSE IF v # None THEN {Moved(u, v)}
  ELSE {IF w.ref = u.ref THEN [u EXCEPT !.day = today] ELSE w : w \in PickedOnes(u)}

\* TranslationLoaded: only the newest; one that failed leaves the settings at the Bible.
TranslationLoaded ==
  /\ Alive /\ loader.done # None /\ loader' = [loader EXCEPT !.done = None]
  /\ LET r == loader.done IN
     IF r.gen # session.gen \/ r.id # session.settings.translation THEN Becomes(session)
     ELSE IF ~r.read THEN Becomes([session EXCEPT !.settings.translation = session.bible])
     ELSE \E u \in OnBible([session EXCEPT !.bible = r.id]) : Becomes(u)
  /\ UNCHANGED <<store, wanted, today, drawn, faithLimits>>

----------------------------------------------------------------------------
(* The saver, the end and the start of the process *)

\* drain: one key after the other; a key the host refuses is left as it was.
Drain ==
  /\ session # None
  /\ \/ /\ saver.bag = None /\ saver.pending # None
        /\ saver' = [pending |-> None, bag |-> saver.pending.bag]
        /\ \/ store' = [store EXCEPT !.ref = saver.pending.ref] /\ UNCHANGED faithLimits
           \/ Trouble /\ UNCHANGED store
     \/ /\ saver.bag # None /\ saver' = [saver EXCEPT !.bag = None]
        /\ \/ store' = [store EXCEPT !.bag = saver.bag] /\ UNCHANGED faithLimits
           \/ Trouble /\ UNCHANGED store
  /\ UNCHANGED <<wanted, session, fetches, loader, today, drawn>>

\* flush: the write under way ends, and what waits is written.
Flushed == saver = NoSave

\* HostShutdown: the loop ends, and the process when all is flushed.
FaithShuts ==
  /\ Alive /\ FaithClick /\ session' = [session EXCEPT !.ending = TRUE]
  /\ fetches' = {} /\ loader' = NoLoads /\ UNCHANGED <<store, wanted, saver, today, drawn>>

End ==
  /\ session # None /\ session' = None
  /\ IF session.ending /\ Flushed THEN UNCHANGED faithLimits ELSE Trouble
  /\ fetches' = {} /\ loader' = NoLoads /\ saver' = NoSave
  /\ UNCHANGED <<store, wanted, today, drawn>>

\* NewSession and Restore, with the default settings.
NoBag == [wide |-> FALSE, left |-> {}, last |-> None]
Fresh(ref) ==
  [settings |-> DefaultSettings, bible |-> First, gen |-> 0, ref |-> ref, panels |-> 0,
   status |-> "off", note |-> None, noteGen |-> 0, bag |-> NoBag, day |-> today,
   ending |-> FALSE, fetch |-> FALSE, save |-> FALSE]

Restored(u) ==
  LET v == IF store.ref = None THEN None ELSE Resolve(u.bible, store.ref) IN
  [u EXCEPT !.bag = IF store.bag = None THEN NoBag ELSE store.bag,
            !.ref = IF v = None THEN @ ELSE v]

\* The host's settings are the first message of a process.
FaithStarts ==
  /\ session = None
  /\ \E v \in Pool :
       LET before == Restored(Fresh(Resolve(First, v))) IN
       \E u \in ApplySettings(before, wanted) : TakesSettings(before, u)
  /\ UNCHANGED <<store, wanted, today, drawn, faithLimits>>

Midnight ==
  /\ Time /\ today' = today + 1
  /\ UNCHANGED <<store, wanted, session, fetches, loader, saver, drawn>>

FaithInit ==
  /\ store = [ref |-> None, bag |-> None] /\ wanted = DefaultSettings
  /\ session = None /\ fetches = {} /\ loader = NoLoads /\ saver = NoSave
  /\ today = 0 /\ drawn = NoBag
  /\ faithLimits = [clicks |-> FaithClicks, troubles |-> FaithTroubles, ticks |-> FaithTicks]

Panel == Read \/ OpenPanel \/ ClosePanel
Events == NoteArrives \/ Tick \/ SettingsChanged \/ TranslationLoaded
FaithNext == Panel \/ Pray \/ Events \/ Load \/ Drain \/ FaithShuts \/ End \/ FaithStarts \/ Midnight

FaithSpec == FaithInit /\ [][FaithNext]_faithVars

----------------------------------------------------------------------------
(* Properties *)

\* A note under the verse is a note on that verse of the translation shown, however late
\* the answers come and whatever moved the verse (FetchCommentaryEffect, session.go:21-22).
NoteIsOfVerse ==
  session # None /\ session.status = "ready" =>
    session.note = session.ref /\ session.ref \in session.bible

\* A panel that says "Loading…" waits for an answer that will come: the request of its
\* verse is under way.
LoadingIsFetched ==
  Alive /\ session.panels > 0 /\ session.status = "loading" =>
    [gen |-> session.noteGen, ref |-> session.ref] \in fetches

\* The translation of the settings is the one shown, or the newest load of it is on its way.
TranslationSettles ==
  Alive /\ session.settings.translation # session.bible =>
    \E r \in {loader.waiting, loader.loading, loader.done} \ {None} :
      r.gen = session.gen /\ r.id = session.settings.translation

\* While no write fails and the process does not crash, the bag goes on where it was after
\* a restart: no prayer comes twice in a round (Bag, bag.go:9-11).
BagSurvives ==
  faithLimits.troubles = FaithTroubles /\ drawn # NoBag =>
    IF session = None THEN store.bag = drawn ELSE session.bag = drawn

\* The four of them (session.go, bag.go, main.go).
VersesAreServed == NoteIsOfVerse /\ LoadingIsFetched /\ TranslationSettles /\ BagSurvives

=============================================================================
