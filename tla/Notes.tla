------------------------------- MODULE Notes -------------------------------
(* The editing session of plugins/notes: the notes of one folder, the         *)
(* Document that the panel and every sticky share, saving, conflicts, renames *)
(* and deletes, and another app (Obsidian) that works in the same folder.  A  *)
(* session runs on the plugin's event loop, so each event is one step.        *)
(* SaveIfUnchanged compares a file again just before it commits: a save is as *)
(* if at that moment.  Favourites, search, sorting, sizes and the Scratchpad  *)
(* are left out.                                                              *)
EXTENDS Naturals, FiniteSets

CONSTANTS Names,      \* file names
          Texts,      \* what a note can say
          NotesMax,   \* bound: what the user does
          OutsideMax, \* bound: what the other app does
          None

VARIABLES
  note,     \* the folder and the Session
  windows,  \* the panel, and the notes that are on a sticky
  fresh,    \* notes typed in since the last tick: autosaveDelay may not have passed
  acts,     \* history: the user's acts so far
  outside,  \* history: the other app's
  mine,     \* history: per note, what the user typed and nothing has saved
  others    \* history: per note, whether Notes has not read, or has read but not
            \* shown, what the other app wrote

notesHistory == <<acts, outside, mine, others>>
notesVars == <<note, windows, fresh, notesHistory>>

Empty == "empty"
Bodies == Texts \cup {Empty}
NoDoc == [body |-> None, disk |-> None, dirty |-> FALSE, error |-> None, conflict |-> None,
          missing |-> FALSE]
Opened(body) == [NoDoc EXCEPT !.body = body, !.disk = body]
IsOpen(s, n) == s.docs[n] # NoDoc
Gone(s, n) == s.files[n] = None
Changed(s, n) == s.files[n] # s.docs[n].disk
Drop(s, n) == [s EXCEPT !.docs[n] = NoDoc]

\* An empty file is no conflict to show.
Shown(body) == IF body = Empty THEN None ELSE body

-----------------------------------------------------------------------------
(* Saving, to a folder that takes writes (ok) or does not.                 *)

\* As Flushed, but the file is not compared with what was read.
Overwrites(s, n, ok) ==
  IF s.docs[n].dirty /\ ~s.docs[n].missing /\ ~Gone(s, n)
  THEN [file |-> s.docs[n].body, doc |-> Opened(s.docs[n].body)]
  ELSE [file |-> s.files[n], doc |-> s.docs[n]]

Flushed(s, n, ok) ==
  LET d == s.docs[n]
      failed(doc) == [file |-> s.files[n], doc |-> doc]
  IN IF ~d.dirty \/ d.missing THEN failed(d)
     ELSE IF Gone(s, n) THEN failed([d EXCEPT !.missing = TRUE, !.error = "missing"])
     ELSE IF Changed(s, n)
     THEN failed([d EXCEPT !.conflict = Shown(s.files[n]), !.error = "changed"])
     ELSE IF ok THEN [file |-> d.body, doc |-> Opened(d.body)]
     ELSE failed([d EXCEPT !.error = "failed"])

SaveSome(s, names, ok) ==
  [s EXCEPT !.files = [n \in Names |-> IF n \in names THEN Flushed(s, n, ok).file ELSE @[n]],
            !.docs = [n \in Names |-> IF n \in names THEN Flushed(s, n, ok).doc ELSE @[n]]]
SaveAll(s, ok) == SaveSome(s, Names, ok)
Fails(s, n, ok) == Flushed(s, n, ok).doc.dirty

\* flushAllLocked takes the documents in any order and stops at the first that fails.
FlushAll(s, ok) ==
  LET bad == {n \in Names : Fails(s, n, ok)}
  IN {SaveSome(s, IF bad = {} THEN Names ELSE m, ok) :
        m \in {k \in SUBSET Names : bad # {} => Cardinality(k \cap bad) = 1}}

-----------------------------------------------------------------------------
(* The other calls of the Session.                                         *)

Ensure(s, n) == IF IsOpen(s, n) \/ Gone(s, n) THEN s ELSE [s EXCEPT !.docs[n] = Opened(s.files[n])]

\* commitTitleLocked: a typed title becomes the file's name.
CommitTitle(s, ok) ==
  LET old == s.selected
      new == s.draft
      t == [SaveSome(s, {old}, ok) EXCEPT !.draft = None]
  IN IF new = None \/ old = None \/ new = old THEN [s |-> [s EXCEPT !.draft = None], ok |-> TRUE]
     ELSE IF Fails(s, old, ok) THEN [s |-> SaveSome(s, {old}, ok), ok |-> FALSE]
     ELSE IF ~ok \/ Gone(t, old) \/ ~Gone(t, new)
     THEN [s |-> [t EXCEPT !.docs[old].error = "failed"], ok |-> FALSE]
     ELSE [s |-> [t EXCEPT !.files = [@ EXCEPT ![new] = t.files[old], ![old] = None],
                           !.docs = [@ EXCEPT ![new] = t.docs[old], ![old] = NoDoc],
                           !.blank = @ \ {old}, !.selected = new, !.renamed = <<old, new>>],
           ok |-> TRUE]

\* discardBlankLocked: notes that New made and nobody wrote in are removed.
StaysBlank(s, n) == s.files[n] = Empty /\ ~s.docs[n].dirty /\ s.docs[n].body \in {None, Empty}
DiscardBlank(s, keep, ok) ==
  LET dead == IF ok THEN {n \in s.blank \ {keep} : StaysBlank(s, n)} ELSE {}
  IN [s EXCEPT !.blank = @ \cap {keep},
               !.files = [n \in Names |-> IF n \in dead THEN None ELSE @[n]],
               !.docs = [n \in Names |-> IF n \in dead THEN NoDoc ELSE @[n]],
               !.selected = IF @ \in dead THEN None ELSE @]

Idle(s, n) == ~s.docs[n].dirty /\ s.docs[n].conflict = None /\ s.docs[n].error = None
DropIdle(s) ==
  [s EXCEPT !.docs = [n \in Names |-> IF n # s.selected /\ Idle(s, n) THEN NoDoc ELSE @[n]]]

Select(s, name, ok) ==
  LET t == CommitTitle(SaveAll(s, ok), ok)
      u == Ensure(DiscardBlank(t.s, name, ok), name)
  IN IF ~t.ok THEN t.s
     ELSE IF ~IsOpen(u, name) THEN u
     ELSE DropIdle([u EXCEPT !.selected = name, !.pending = None])

Create(s, name, body, ok) ==
  LET t == CommitTitle(SaveAll(s, ok), ok)
  IN IF ~t.ok \/ ~ok \/ ~Gone(t.s, name) THEN t.s
     ELSE [DiscardBlank([t.s EXCEPT !.files[name] = body], name, ok) EXCEPT
             !.docs[name] = Opened(body), !.selected = name, !.pending = None,
             !.blank = IF body = Empty THEN @ \cup {name} ELSE @]

Type(s, n, body) ==
  [s EXCEPT !.docs[n].body = body, !.docs[n].dirty = (body # s.docs[n].disk), !.docs[n].error = None]

Reload(s, n) ==
  IF Gone(s, n) THEN s
  ELSE [s EXCEPT !.docs[n] = [Opened(s.files[n]) EXCEPT !.missing = s.docs[n].missing]]

KeepLocal(s, n) ==
  IF Gone(s, n) THEN [s EXCEPT !.docs[n].error = "failed"]
  ELSE [s EXCEPT !.docs[n].disk = s.files[n], !.docs[n].conflict = None,
                 !.docs[n].dirty = TRUE, !.docs[n].error = None]

\* Save here: it never replaces a file.
Restore(s, n, ok) ==
  IF ~Gone(s, n)
  THEN [s EXCEPT !.docs[n].missing = FALSE, !.docs[n].disk = s.files[n],
                 !.docs[n].conflict = Shown(s.files[n]), !.docs[n].error = "changed"]
  ELSE IF ok THEN [s EXCEPT !.files[n] = s.docs[n].body, !.docs[n] = Opened(s.docs[n].body)]
  ELSE [s EXCEPT !.docs[n].error = "failed"]

Discard(s, n) == [Drop(s, n) EXCEPT !.blank = @ \ {n}, !.selected = None, !.draft = None]

ConfirmDelete(s, ok) ==
  LET t == SaveAll(s, ok)
      n == s.pending
      mine0 == s.selected = n
  IN IF ~ok \/ Gone(t, n) THEN t
     ELSE [Drop(t, n) EXCEPT !.files[n] = None, !.pending = None,
                             !.selected = IF mine0 THEN None ELSE @, !.draft = IF mine0 THEN None ELSE @]

\* Tick: each open note against its file, then autosave of those that are due.
Ticked(s, n, due, ok) ==
  LET d == [s.docs[n] EXCEPT !.missing = FALSE, !.error = IF s.docs[n].missing THEN None ELSE @]
      unsure == [s EXCEPT !.docs[n] = d]
  IN IF ~IsOpen(s, n) THEN [file |-> s.files[n], doc |-> NoDoc]
     ELSE IF Gone(s, n)
     THEN [file |-> None, doc |-> [s.docs[n] EXCEPT !.missing = TRUE, !.error = "missing"]]
     ELSE IF ~Changed(s, n)
     THEN IF n \in due THEN Flushed(unsure, n, ok) ELSE [file |-> s.files[n], doc |-> d]
     ELSE [file |-> s.files[n],
           doc |-> IF d.dirty THEN [d EXCEPT !.conflict = Shown(s.files[n]), !.error = "changed"]
                   ELSE [d EXCEPT !.body = s.files[n], !.disk = s.files[n]]]

-----------------------------------------------------------------------------
(* What every event ends with: the windows are drawn.                      *)

Snap(s) ==
  LET n == s.selected
  IN IF n # None /\ ~s.docs[n].dirty /\ ~Gone(s, n) /\ Changed(s, n)
     THEN [s EXCEPT !.docs[n] = [Opened(s.files[n]) EXCEPT !.missing = s.docs[n].missing]]
     ELSE s

\* Document, for each sticky.
Documents(s, stickies) ==
  [s EXCEPT !.docs = [n \in Names |->
     LET d == Ensure(s, n).docs[n]
     IN IF n \notin stickies THEN @[n]
        ELSE IF Gone(s, n) \/ s.files[n] = d.disk THEN d
        ELSE IF d.dirty THEN [d EXCEPT !.conflict = Shown(s.files[n])]
        ELSE [d EXCEPT !.body = s.files[n], !.disk = s.files[n]]]]

\* In any order.
Draw(s, w) ==
  IF w.panel THEN {Documents(Snap(s), w.stickies), Snap(Documents(s, w.stickies))}
  ELSE {Documents(s, w.stickies)}

\* A rename takes the stickies with it.
Retarget(s, names) ==
  IF s.renamed # <<>> /\ s.renamed[1] \in names
  THEN (names \ {s.renamed[1]}) \cup {s.renamed[2]} ELSE names

\* Where what is now note n was before.
Was(s, n) ==
  IF s.renamed = <<>> THEN n
  ELSE IF n = s.renamed[2] THEN s.renamed[1] ELSE IF n = s.renamed[1] THEN None ELSE n

\* The event ends with session s and windows w; the user has given up the
\* texts of the notes in dropped.
Ends(s, w, dropped) ==
  LET win == [w EXCEPT !.stickies = Retarget(s, @)]
  IN /\ \E drawn \in Draw([s EXCEPT !.renamed = <<>>], win) : note' = drawn
     /\ windows' = win
     /\ mine' = [n \in Names |->
          LET m == IF Was(s, n) = None \/ n \in dropped THEN None ELSE mine[Was(s, n)]
          IN IF note'.files[n] = m \/ (m = Empty /\ Gone(note', n)) THEN None ELSE m]
     /\ others' = [n \in Names |->
          LET o == IF Was(s, n) = None THEN None ELSE others[Was(s, n)]
          IN IF o = None \/ note'.files[n] \in {None, note'.docs[n].body, note'.docs[n].conflict}
             THEN None
             ELSE IF note'.files[n] = note'.docs[n].disk THEN "unshown" ELSE o]

-----------------------------------------------------------------------------
(* Events.                                                                 *)

UserActs == acts < NotesMax /\ acts' = acts + 1

\* A control of the panel: handlePanel first takes a snapshot.
PanelActs == UserActs /\ windows.panel /\ UNCHANGED <<fresh, outside>>
Seen == Snap(note)

SelectNote ==
  /\ PanelActs
  /\ \E n \in Names, ok \in BOOLEAN : ~Gone(note, n) /\ Ends(Select(Seen, n, ok), windows, {})

\* New, Enter in the search box, an import of the clipboard, a capture.
NewNote ==
  /\ UserActs
  /\ \E n \in Names, body \in Bodies, ok \in BOOLEAN :
       LET s == Create(Seen, n, body, ok)
           new == Gone(Seen, n) /\ ~Gone(s, n) /\ s.renamed \notin Names \X {n}
       IN Ends(s, windows, IF new THEN {n} ELSE {})
  /\ UNCHANGED <<fresh, outside>>

TypesIn(s, n, body) ==
  /\ \E drawn \in Draw(Type(s, n, body), windows) : note' = drawn
  /\ mine' = [mine EXCEPT ![n] = IF body = s.docs[n].disk THEN None ELSE body]
  /\ others' = [m \in Names |->
       IF others[m] = None \/ note'.files[m] \in {None, note'.docs[m].body, note'.docs[m].conflict}
       THEN None ELSE IF note'.files[m] = note'.docs[m].disk THEN "unshown" ELSE others[m]]
  /\ fresh' = fresh \cup {n}
  /\ UNCHANGED <<windows, outside>>
TypeInPanel ==
  UserActs /\ windows.panel /\ note.selected # None /\ \E b \in Bodies : TypesIn(Seen, note.selected, b)
TypeInSticky ==
  UserActs /\ \E n \in windows.stickies, b \in Bodies :
    IsOpen(Ensure(note, n), n) /\ TypesIn(Ensure(note, n), n, b)

TypeTitle ==
  /\ PanelActs
  /\ note.selected # None
  /\ \E t \in Names : Ends([Seen EXCEPT !.draft = t], windows, {})
EnterTitle ==
  /\ PanelActs
  /\ note.selected # None
  /\ \E t \in Names, ok \in BOOLEAN :
       Ends(CommitTitle([Seen EXCEPT !.draft = t], ok).s, windows, {})
SaveNow ==
  /\ PanelActs
  /\ \E ok \in BOOLEAN :
       LET t == CommitTitle(Seen, ok)
       IN Ends(IF t.ok THEN SaveSome(t.s, {t.s.selected}, ok) ELSE t.s, windows, {})

\* The banners of a note that has changed, or is gone.
Resolve ==
  /\ PanelActs
  /\ note.selected # None
  /\ LET n == note.selected
         d == note.docs[n]
     IN \/ d.conflict # None /\ Ends(Reload(Seen, n), windows, IF Gone(Seen, n) THEN {} ELSE {n})
        \/ d.conflict # None /\ Ends(KeepLocal(Seen, n), windows, {})
        \/ d.missing /\ \E ok \in BOOLEAN : Ends(Restore(Seen, n, ok), windows, {})
        \/ d.missing /\ Ends(Discard(Seen, n), windows, {n})

ProposeDelete ==
  /\ PanelActs
  /\ note.selected # None
  /\ Ends([Seen EXCEPT !.pending = note.selected], windows, {})
DeleteNote ==
  /\ PanelActs
  /\ note.pending # None /\ note.selected # None
  /\ \E ok \in BOOLEAN :
       LET s == ConfirmDelete(Seen, ok)
       IN Ends(s, windows, IF s.pending = None THEN {note.pending} ELSE {})

OpenPanel ==
  UserActs /\ ~windows.panel /\ Ends(note, [windows EXCEPT !.panel = TRUE], {}) /\ UNCHANGED <<fresh, outside>>
\* Close: a pending title, every note, and what stayed blank.
ClosePanel ==
  /\ PanelActs
  /\ \E ok \in BOOLEAN : \E s \in FlushAll(CommitTitle(note, ok).s, ok) :
       Ends(DiscardBlank(s, None, ok), [windows EXCEPT !.panel = FALSE], {})
OpenSticky ==
  /\ PanelActs
  /\ note.selected # None
  /\ LET s == Seen
     IN Ends([s EXCEPT !.blank = @ \ {s.selected}], [windows EXCEPT !.stickies = @ \cup {s.selected}], {})
CloseSticky ==
  /\ UserActs
  /\ \E n \in windows.stickies, ok \in BOOLEAN :
       Ends(SaveSome(note, {n}, ok), [windows EXCEPT !.stickies = @ \ {n}], {})
  /\ UNCHANGED <<fresh, outside>>

\* Any change of the settings opens the folder anew.
SetStore ==
  /\ UserActs
  /\ \E ok \in BOOLEAN : \E s \in FlushAll(note, ok) :
       Ends(IF \E n \in Names : s.docs[n].dirty THEN s
            ELSE [s EXCEPT !.docs = [n \in Names |-> NoDoc], !.selected = None, !.draft = None],
            windows, {})
  /\ UNCHANGED <<fresh, outside>>

\* Every second while a window is open.
Tick ==
  /\ windows.panel \/ windows.stickies # {}
  /\ \E late \in SUBSET fresh, ok \in BOOLEAN :
       LET t(n) == Ticked(note, n, Names \ late, ok)
       IN Ends([note EXCEPT !.files = [n \in Names |-> t(n).file], !.docs = [n \in Names |-> t(n).doc]],
               windows, {})
  /\ fresh' = {}
  /\ UNCHANGED <<acts, outside>>

\* The other app writes, moves or deletes a file.
Outside ==
  /\ outside < OutsideMax
  /\ outside' = outside + 1
  /\ \E n \in Names, body \in Bodies \cup {None} :
       /\ body # note.files[n]
       /\ note' = [note EXCEPT !.files[n] = body]
       /\ others' = [others EXCEPT ![n] = IF body \in Texts \ {note.docs[n].disk} THEN "unread" ELSE None]
       /\ mine' = [mine EXCEPT ![n] = IF body = @ THEN None ELSE @]
  /\ UNCHANGED <<windows, fresh, acts>>

-----------------------------------------------------------------------------
NotesInit ==
  /\ \E files \in [Names -> Bodies \cup {None}] :
       note = [files |-> files, docs |-> [n \in Names |-> NoDoc], selected |-> None, draft |-> None,
               pending |-> None, blank |-> {}, renamed |-> <<>>]
  /\ windows = [panel |-> TRUE, stickies |-> {}] /\ fresh = {}
  /\ acts = 0 /\ outside = 0
  /\ mine = [n \in Names |-> None] /\ others = [n \in Names |-> None]

Panel ==
  \/ SelectNote \/ NewNote \/ TypeInPanel \/ TypeTitle \/ EnterTitle \/ SaveNow
  \/ Resolve \/ ProposeDelete \/ DeleteNote \/ OpenPanel \/ ClosePanel
NotesNext == Panel \/ TypeInSticky \/ OpenSticky \/ CloseSticky \/ SetStore \/ Tick \/ Outside

NotesSpec == NotesInit /\ [][NotesNext]_notesVars /\ WF_notesVars(Tick)

-----------------------------------------------------------------------------
(* Properties.                                                             *)

\* What the user has typed stays in the editor, to be saved, until it is in the
\* file or the user gives it up: whatever fails, whatever another app does,
\* whichever windows show it, and wherever a rename takes it.  (A note created
\* or renamed to the name of a missing note takes its place: its text is lost.)
TypedKept == \A n \in Names : mine[n] # None => note.docs[n].dirty /\ note.docs[n].body = mine[n]

\* A step of Notes takes away what is in a file, by no rename or delete.
Replaces(n) ==
  /\ outside' = outside
  /\ note.files[n] # None /\ note'.files[n] # note.files[n]
  /\ ~\E m \in Names : note.files[m] = None /\ note'.files[m] = note.files[n]
  /\ note.pending # n

\* Notes replaces nothing that another app wrote and Notes has not read.
UnreadStays == \A n \in Names : others[n] = "unread" => ~Replaces(n)

\* "If both apps changed the same note, the editor asks whether to Reload file
\* or Keep mine" (README.md:29): Notes replaces nothing that another app wrote
\* and the user has not been shown.
BothChangedAsks == [][\A n \in Names : others[n] # None => ~Replaces(n)]_notesVars

\* "A typed title becomes a rename, then every note is saved" (notes.go:669):
\* with every window closed, a note that is not saved says why.
ClosedIsSaved ==
  ~windows.panel /\ windows.stickies = {} => \A n \in Names : note.docs[n].dirty => note.docs[n].error # None
=============================================================================
