---------------------------- MODULE RecentImages ----------------------------
(***************************************************************************)
(* The phone's pictures in Phone Connect: the scan of the mounted phone,   *)
(* its thumbnail cache, the picture in the screen of the phone's mockup    *)
(* and the private copies that an open or a share hands out                *)
(* (src/plugins/kdeconnect, src/cmd/sysc-plugin-kdeconnect).               *)
(*                                                                         *)
(* Which phone is mounted, and when, is the module KdeConnect: here the    *)
(* phone Selected stays mounted.  The phones are of one kind, so they      *)
(* share one mockup.  A file's version is its time of change and its       *)
(* content; the plugin's own cache directory can be written.               *)
(***************************************************************************)
EXTENDS Absent, Naturals, Sequences, FiniteSets, SequencesExt

CONSTANTS Photos,       \* paths of pictures on the mounted phone
          Phones,       \* how many phones are read, in the daemon's order
          Selected,     \* the phone that is mounted
          MaxRecent,    \* pictures of the grid
          ChangesMax,   \* bound: pictures and covers that change
          CopiesMax    \* bound: staged copies

TTL == 1                \* recentImageStageTTL, in units of the clock

ASSUME RecentAssumption ==
  /\ {Phones, MaxRecent, ChangesMax, CopiesMax} \subseteq Nat
  /\ Selected \in 1..Phones
  /\ IsFiniteSet(Photos)

VARIABLES files,    \* the phone: each picture's version, 0 when it is absent
          covers,   \* what each phone plays: the version of its cover, 0 for none
          thumbs,   \* the cache: [path, at, of], the content `of` under the key of `at`
          scan,     \* the scan in progress: [todo, done, opened], or None; done is
                    \* a sequence of [path, saw, of]: the time seen, the content shown
          svc,      \* [gridded, empty, newest]: the mode, idleScanEmpty, the last scan's first
          art,      \* each phone's MockupArt, or None
          live,     \* the composites in mockupArtDir
          grid,     \* the pictures of the panel, like scan.done
          stages,   \* goroutines that stage a copy: path -> the copy in the making, 0 before it, or None
          age,      \* the age of each copy ever made, in order
          copies,   \* [kept, armed, handed]: the copies on disk, with a timer, handed out
          changes   \* what is left of the bound

recentVars == <<files, covers, thumbs, scan, svc, art, live, grid, stages, age, copies, changes>>
photoVars == <<thumbs, scan, svc, art, live, grid>>
copyVars == <<stages, age, copies>>

-----------------------------------------------------------------------------
(* The phone *)

\* A picture is taken or touched (it is then the newest), or removed.
Touch(p) ==
  /\ changes > 0 /\ changes' = changes - 1
  /\ \E v \in {0, ChangesMax + 2 - changes} : files' = [files EXCEPT ![p] = v]
  /\ UNCHANGED <<covers, photoVars, copyVars>>

\* A phone plays something else, or stops.
Play(d) ==
  /\ changes > 0 /\ changes' = changes - 1
  /\ \E v \in {0, ChangesMax + 2 - changes} : covers' = [covers EXCEPT ![d] = v]
  /\ UNCHANGED <<files, photoVars, copyVars>>

-----------------------------------------------------------------------------
(* The mockup: a new composite replaces the earlier ones of the kind. *)

Cover(d) == IF covers[d] = 0 THEN None ELSE <<d, covers[d]>>

\* The directory after a composite was asked for (composeMockup).
Composed(disk, picture) == IF picture \in disk THEN disk ELSE {picture}

\* Every phone's cover is read and composed, in the daemon's order (fetchMedia).
ReadCovers ==
  /\ art' = [d \in 1..Phones |-> Cover(d)]
  /\ live' = FoldLeft(LAMBDA disk, d : IF covers[d] = 0 THEN disk ELSE Composed(disk, Cover(d)),
                      live, [d \in 1..Phones |-> d])

Pictured(newest) ==
  /\ live' = Composed(live, newest)
  /\ art' = [art EXCEPT ![Selected] = newest]

\* The newest picture stands in where no cover landed (applyIdleMockup).
IdleArt(newest) ==
  IF newest = None \/ (art[Selected] # None /\ art[Selected] \in live)
  THEN UNCHANGED <<live, art>> ELSE Pictured(newest)

-----------------------------------------------------------------------------
(* The scan *)

\* find's listing, newest first and cut to the first n.
Newest(n) ==
  LET found == {p \in Photos : files[p] # 0}
      length == IF Cardinality(found) < n THEN Cardinality(found) ELSE n
  IN  {listing \in [1..length -> found] :
         /\ IsInjective(listing)
         /\ \A i \in 1..length, p \in found :
              files[p] > files[listing[i]] => \E j \in 1..(i - 1) : listing[j] = p}

\* Without a grid the newest picture alone is wanted, for the mockup.
Listed == Newest(IF svc.gridded THEN MaxRecent ELSE 1)

\* The file opens, as a plain file under the mount.
Opens(p) == files[p] # 0

\* The phones are read and the phone's files listed.  A user's refresh also
\* forgets that the last listing found nothing.
Scan(byUser) ==
  /\ scan = None
  /\ ReadCovers
  /\ LET empty == svc.empty /\ ~byUser
     IN  IF ~svc.gridded /\ empty
         THEN /\ svc' = [svc EXCEPT !.empty = TRUE, !.newest = None]
              /\ grid' = <<>>
              /\ UNCHANGED scan
         ELSE /\ svc' = [svc EXCEPT !.empty = empty, !.newest = None]
              /\ \E listing \in Listed :
                   scan' = [todo |-> listing, done |-> <<>>, opened |-> 0]
              /\ UNCHANGED grid
  /\ UNCHANGED <<files, covers, thumbs, copyVars, changes>>

\* As Hit, but the key is the path alone.
HitByPath(p) == {t \in thumbs : t.path = p}

\* What the cache holds under the key of the path and its time of change.
Hit(p) == {t \in thumbs : t.path = p /\ t.at = files[p]}

Drops == scan' = [scan EXCEPT !.todo = Tail(@), !.opened = 0]
Takes(p, saw, of) ==
  scan' = [todo |-> Tail(scan.todo), opened |-> 0,
           done |-> Append(scan.done, [path |-> p, saw |-> saw, of |-> of])]

\* The next picture is opened and its time of change read; one that is gone drops out.
Open ==
  /\ scan # None /\ scan.todo # <<>> /\ scan.opened = 0
  /\ LET p == Head(scan.todo) IN
       \/ ~Opens(p) /\ Drops
       \/ Opens(p) /\ \E t \in Hit(p) : Takes(p, files[p], t.of)
       \/ Opens(p) /\ Hit(p) = {} /\ scan' = [scan EXCEPT !.opened = files[p]]
  /\ UNCHANGED <<files, covers, thumbs, svc, art, live, grid, copyVars, changes>>

\* It is decoded from its path again, and stored under the key of the time read
\* before.  One that does not decode drops out, as one that is gone by now.
Decode ==
  /\ scan # None /\ scan.opened # 0
  /\ LET p == Head(scan.todo) IN
       \/ Drops /\ UNCHANGED thumbs
       \/ /\ Opens(p)
          /\ thumbs' = thumbs \cup {[path |-> p, at |-> scan.opened, of |-> files[p]]}
          /\ Takes(p, scan.opened, files[p])
  /\ UNCHANGED <<files, covers, svc, art, live, grid, copyVars, changes>>

\* The scan ends: the grid is published, and the mockup gets the newest picture.
Publish ==
  /\ scan # None /\ scan.todo = <<>>
  /\ LET newest == IF scan.done = <<>> THEN None
                   ELSE <<scan.done[1].path, scan.done[1].saw>>
     IN  /\ IdleArt(newest)
         /\ svc' = [svc EXCEPT !.newest = newest, !.empty = ~@ /\ ~svc.gridded /\ newest = None]
         /\ grid' = IF svc.gridded THEN scan.done ELSE <<>>
  /\ scan' = None
  /\ UNCHANGED <<files, covers, thumbs, copyVars, changes>>

-----------------------------------------------------------------------------
(* The copies *)

\* Open or share: a picture the grid still has is staged in a goroutine.
Press(p) ==
  /\ Len(age) + Cardinality({q \in Photos : stages[q] = 0}) < CopiesMax
  /\ \E i \in DOMAIN grid : grid[i].path = p
  /\ stages[p] = None
  /\ stages' = [stages EXCEPT ![p] = 0]
  /\ UNCHANGED <<files, covers, photoVars, age, copies, changes>>

\* As Pruned, but every staged copy goes.
PrunesAll(kept) == {}

\* Copies left over past their time are removed with the next stage.
Pruned(kept) == {c \in kept : age[c] <= TTL}

\* The picture is opened, the old copies pruned and a directory made.
Stage(p) ==
  /\ stages[p] = 0
  /\ \/ ~Opens(p) /\ stages' = [stages EXCEPT ![p] = None] /\ UNCHANGED <<age, copies>>
     \/ /\ Opens(p)
        /\ age' = Append(age, 0)
        /\ copies' = [copies EXCEPT !.kept = Pruned(@) \cup {Len(age) + 1}]
        /\ stages' = [stages EXCEPT ![p] = Len(age) + 1]
  /\ UNCHANGED <<files, covers, photoVars, changes>>

\* The copy is whole: its timer is armed and it is opened or shared.  Or the read
\* failed, and its directory goes.
Finish(p) ==
  /\ stages[p] \notin {None, 0}
  /\ \/ copies' = [copies EXCEPT !.armed = @ \cup {stages[p]}, !.handed = @ \cup {stages[p]}]
     \/ copies' = [copies EXCEPT !.kept = @ \ {stages[p]}]
  /\ stages' = [stages EXCEPT ![p] = None]
  /\ UNCHANGED <<files, covers, photoVars, age, changes>>

\* Time passes; a stage is done long before a copy's time is over.
Pass ==
  /\ \A p \in Photos : stages[p] = None
  /\ \A c \in copies.armed : age[c] < TTL
  /\ \E c \in DOMAIN age : age[c] <= TTL
  /\ age' = [c \in DOMAIN age |-> IF age[c] > TTL THEN age[c] ELSE age[c] + 1]
  /\ UNCHANGED <<files, covers, photoVars, stages, copies, changes>>

\* A copy's timer.
Expire(c) ==
  /\ c \in copies.armed /\ age[c] >= TTL
  /\ copies' = [copies EXCEPT !.kept = @ \ {c}, !.armed = @ \ {c}]
  /\ UNCHANGED <<files, covers, photoVars, stages, age, changes>>

\* The plugin ends and is started again.  Its timers are lost; a copy in the making
\* is removed or left, as its goroutine gets to it or not.
Restart ==
  /\ changes > 0 /\ changes' = changes - 1
  /\ \E left \in SUBSET ({stages[p] : p \in Photos} \ {None, 0}) :
       copies' = [copies EXCEPT !.kept = @ \ left, !.armed = {}]
  /\ stages' = [p \in Photos |-> None]
  /\ art' = [d \in 1..Phones |-> None]
  /\ scan' = None /\ grid' = <<>> /\ svc' = [svc EXCEPT !.empty = FALSE, !.newest = None]
  /\ UNCHANGED <<files, covers, thumbs, live, age>>

-----------------------------------------------------------------------------
RecentInit ==
  /\ files = [p \in Photos |-> 0] /\ covers = [d \in 1..Phones |-> 0]
  /\ thumbs = {} /\ scan = None /\ grid = <<>>
  /\ \E gridded \in BOOLEAN : svc = [gridded |-> gridded, empty |-> FALSE, newest |-> None]
  /\ art = [d \in 1..Phones |-> None] /\ live = {}
  /\ stages = [p \in Photos |-> None] /\ age = <<>>
  /\ copies = [kept |-> {}, armed |-> {}, handed |-> {}]
  /\ changes = ChangesMax

RecentNext ==
  \/ \E p \in Photos : Touch(p) \/ Press(p) \/ Stage(p) \/ Finish(p)
  \/ \E d \in 1..Phones : Play(d)
  \/ \E byUser \in BOOLEAN : Scan(byUser)
  \/ Open \/ Decode \/ Publish
  \/ Pass \/ (\E c \in DOMAIN age : Expire(c)) \/ Restart

RecentSpec == RecentInit /\ [][RecentNext]_recentVars

-----------------------------------------------------------------------------
\* A picture of the grid is never older than the file its scan saw: a touched file
\* gets a new thumbnail, also when it changes between the two reads of a scan, and
\* whatever the cache kept of earlier scans.
GridIsFresh == \A i \in DOMAIN grid : grid[i].of >= grid[i].saw

\* A copy handed to a viewer or to a phone is there for its whole time, whatever is
\* staged, pruned or restarted meanwhile.
HandedStays == \A c \in copies.handed : age[c] < TTL => c \in copies.kept

\* When a scan found a picture, the mockup of the phone it came from has one to show,
\* though the cover of another phone removed the composite it had.
MockupHasPicture == scan = None /\ svc.newest # None => art[Selected] \in live

\* What is on the disk for the user is there: the copies that were handed out stay for
\* their time, and the mockup has its picture (recent.go, mockup.go).
CopiesAndCovers == HandedStays /\ MockupHasPicture
=============================================================================
