-------------------------- MODULE RecentImagesProofs --------------------------
(***************************************************************************)
(* The pictures of Phone Connect, for any pictures, any number of phones,  *)
(* of changes and of copies: the grid is fresh, the copies that were       *)
(* handed out stay for their time, and the mockup has its picture.         *)
(***************************************************************************)
EXTENDS RecentImages, FiniteSetTheorems, SequenceTheorems, TLAPS

Entry == [path : Photos, saw : Nat, of : Nat]
ScanRecord == [todo : Seq(Photos), done : Seq(Entry), opened : Nat]

(***************************************************************************)
(* The grid.  A thumbnail is stored under a time that was read before its  *)
(* content: it is as new as its key because versions only grow, except     *)
(* that a picture may be gone in between.                                  *)
(***************************************************************************)
ScanTypeOK ==
  /\ files \in [Photos -> Nat]
  /\ changes \in Nat
  /\ thumbs \subseteq [path : Photos, at : Nat, of : Nat]
  /\ scan # None => scan \in ScanRecord
  /\ grid \in Seq(Entry)

\* Versions yet to come are above every one there is.
VersionsBelow == \A p \in Photos : files[p] < ChangesMax + 2 - changes

ThumbsFresh == \A t \in thumbs : t.of >= t.at
Fresh(pictures) == \A i \in 1..Len(pictures) : pictures[i].of >= pictures[i].saw

\* The picture that is open is the next one; its file is gone, or as new.
OpenedIsNext ==
  scan # None /\ scan.opened # 0 =>
    /\ scan.todo # <<>>
    /\ scan.opened < ChangesMax + 2 - changes
    /\ files[Head(scan.todo)] = 0 \/ files[Head(scan.todo)] >= scan.opened

GridInv ==
  /\ ScanTypeOK
  /\ changes <= ChangesMax
  /\ VersionsBelow
  /\ ThumbsFresh
  /\ OpenedIsNext
  /\ scan # None => Fresh(scan.done)
  /\ Fresh(grid)

\* The listing of a scan is a sequence of pictures.
LEMMA Bounds == ChangesMax \in Nat /\ MaxRecent \in Nat /\ IsFiniteSet(Photos)
BY RecentAssumption

LEMMA ListingIsSeq == ASSUME NEW listing \in Listed PROVE listing \in Seq(Photos)
<1> DEFINE n == IF svc.gridded THEN MaxRecent ELSE 1
           found == {p \in Photos : files[p] # 0}
           length == IF Cardinality(found) < n THEN Cardinality(found) ELSE n
<1>1. IsFiniteSet(found)
  BY FS_Subset, Bounds
<1>2. length \in Nat
  BY <1>1, FS_CardinalityType, Bounds
<1>3. listing \in [1..length -> found]
  BY DEF Listed, Newest
<1>4. listing \in [1..length -> Photos]
  BY <1>3
<1>5. QED
  <2> HIDE DEF n, found, length
  <2>1. [1..length -> Photos] \in {[1..m -> Photos] : m \in Nat}
    BY <1>2
  <2>2. QED
    BY <1>4, <2>1, SeqDef, Zenon

LEMMA GridInit == RecentInit => GridInv
<1> SUFFICES ASSUME RecentInit PROVE GridInv
  OBVIOUS
<1>1. grid = <<>> /\ thumbs = {} /\ scan = None /\ changes = ChangesMax
  BY DEF RecentInit
<1>2. files \in [Photos -> Nat] /\ \A p \in Photos : files[p] = 0
  BY DEF RecentInit
<1>3. Fresh(grid) /\ grid \in Seq(Entry)
  BY <1>1 DEF Fresh
<1>4. QED
  BY <1>1, <1>2, <1>3, Bounds
     DEF GridInv, ScanTypeOK, VersionsBelow, ThumbsFresh, OpenedIsNext

\* The phone changes a picture: its version is above all that were ever read.
LEMMA TouchStep ==
  ASSUME GridInv, NEW p \in Photos, Touch(p)
  PROVE  GridInv'
<1>1. /\ changes \in Nat /\ changes > 0 /\ changes' = changes - 1
      /\ UNCHANGED <<thumbs, scan, grid>>
  BY DEF Touch, GridInv, ScanTypeOK, photoVars
<1>2. PICK v \in {0, ChangesMax + 2 - changes} : files' = [files EXCEPT ![p] = v]
  BY DEF Touch
<1>3. ScanTypeOK' /\ changes' <= ChangesMax /\ VersionsBelow'
  <2>1. /\ files \in [Photos -> Nat] /\ changes \in Nat /\ changes <= ChangesMax
        /\ \A q \in Photos : files[q] < ChangesMax + 2 - changes
    BY DEF GridInv, ScanTypeOK, VersionsBelow
  <2>2. files' \in [Photos -> Nat] /\ changes' \in Nat /\ changes' <= ChangesMax
    BY <1>1, <1>2, <2>1, Bounds
  <2>3. VersionsBelow'
    BY <1>1, <1>2, <2>1, Bounds DEF VersionsBelow
  <2>4. QED
    BY <1>1, <2>2, <2>3 DEF GridInv, ScanTypeOK
<1>4. ThumbsFresh' /\ Fresh(grid)' /\ (scan # None => Fresh(scan.done))'
  BY <1>1 DEF GridInv, ThumbsFresh, Fresh
<1>5. OpenedIsNext'
  <2> SUFFICES ASSUME scan # None, scan.opened # 0
               PROVE  /\ scan.todo # <<>>
                      /\ scan.opened < ChangesMax + 2 - changes'
                      /\ files'[Head(scan.todo)] = 0 \/ files'[Head(scan.todo)] >= scan.opened
    BY <1>1 DEF OpenedIsNext
  <2>1. /\ scan.todo # <<>> /\ scan.todo \in Seq(Photos) /\ scan.opened \in Nat
        /\ scan.opened < ChangesMax + 2 - changes
        /\ files[Head(scan.todo)] = 0 \/ files[Head(scan.todo)] >= scan.opened
    BY DEF GridInv, OpenedIsNext, ScanTypeOK, ScanRecord
  <2>2. Head(scan.todo) \in Photos
    BY <2>1, HeadTailProperties
  <2>3. QED
    <3>1. files \in [Photos -> Nat] /\ changes <= ChangesMax
      BY DEF GridInv, ScanTypeOK
    <3>2. \/ files'[Head(scan.todo)] = files[Head(scan.todo)]
          \/ files'[Head(scan.todo)] = 0
          \/ files'[Head(scan.todo)] = ChangesMax + 2 - changes
      BY <1>2, <2>2, <3>1
    <3>3. QED
      BY <1>1, <2>1, <2>2, <3>1, <3>2, Bounds
<1>6. QED
  BY <1>3, <1>4, <1>5 DEF GridInv

LEMMA DropsOpened == scan \in ScanRecord /\ Drops => scan'.opened = 0
BY DEF ScanRecord, Drops

LEMMA OpenStep == GridInv /\ Open => GridInv'
<1> SUFFICES ASSUME GridInv, Open PROVE GridInv'
  OBVIOUS
<1> DEFINE p == Head(scan.todo)
<1>1. /\ scan # None /\ scan.todo # <<>> /\ scan.opened = 0
      /\ UNCHANGED <<files, changes, thumbs, grid>>
  BY DEF Open
<1>2. scan \in ScanRecord /\ p \in Photos /\ Tail(scan.todo) \in Seq(Photos) /\ files[p] \in Nat
  BY <1>1, HeadTailProperties DEF GridInv, ScanTypeOK, ScanRecord
<1>3. \/ Drops
      \/ \E t \in thumbs : t.at = files[p] /\ Takes(p, files[p], t.of)
      \/ files[p] # 0 /\ scan' = [scan EXCEPT !.opened = files[p]]
  BY DEF Open, Opens, Hit
<1>4. scan' \in ScanRecord /\ Fresh(scan'.done)
  <2>1. CASE Drops
    BY <1>1, <1>2, <2>1 DEF Drops, ScanRecord, GridInv, Fresh
  <2>2. ASSUME NEW t \in thumbs, t.at = files[p], Takes(p, files[p], t.of)
        PROVE  scan' \in ScanRecord /\ Fresh(scan'.done)
    <3> DEFINE e == [path |-> p, saw |-> files[p], of |-> t.of]
    <3>1. e \in Entry /\ e.of >= e.saw
      BY <1>2, <2>2 DEF Entry, GridInv, ThumbsFresh, ScanTypeOK
    <3>2. scan.done \in Seq(Entry) /\ Fresh(scan.done)
      BY <1>1, <1>2 DEF GridInv, ScanRecord
    <3>3. Append(scan.done, e) \in Seq(Entry) /\ Fresh(Append(scan.done, e))
      <4> HIDE DEF e
      <4> QED
        BY <3>1, <3>2, AppendProperties DEF Fresh
    <3>4. QED
      BY <1>2, <2>2, <3>3 DEF Takes, ScanRecord
  <2>3. CASE scan' = [scan EXCEPT !.opened = files[p]]
    BY <1>1, <1>2, <2>3 DEF ScanRecord, GridInv, Fresh
  <2>4. QED
    BY <1>3, <2>1, <2>2, <2>3
<1>5. OpenedIsNext'
  <2>1. CASE Drops \/ \E t \in thumbs : Takes(p, files[p], t.of)
    <3>1. CASE Drops
      BY <1>2, <3>1, DropsOpened DEF OpenedIsNext
    <3>2. CASE \E t \in thumbs : Takes(p, files[p], t.of)
      BY <3>2 DEF Takes, OpenedIsNext
    <3>3. QED
      BY <2>1, <3>1, <3>2
  <2>2. CASE scan' = [scan EXCEPT !.opened = files[p]]
    BY <1>1, <1>2, <2>2 DEF OpenedIsNext, ScanRecord, GridInv, VersionsBelow
  <2>3. QED
    BY <1>3, <2>1, <2>2
<1>6. QED
  BY <1>1, <1>4, <1>5 DEF GridInv, ScanTypeOK, VersionsBelow, ThumbsFresh

LEMMA DecodeStep == GridInv /\ Decode => GridInv'
<1> SUFFICES ASSUME GridInv, Decode PROVE GridInv'
  OBVIOUS
<1> DEFINE p == Head(scan.todo)
           e == [path |-> p, saw |-> scan.opened, of |-> files[p]]
           t == [path |-> p, at |-> scan.opened, of |-> files[p]]
<1>1. scan # None /\ scan.opened # 0 /\ UNCHANGED <<files, changes, grid>>
  BY DEF Decode
<1>2. /\ scan \in ScanRecord /\ p \in Photos /\ Tail(scan.todo) \in Seq(Photos)
      /\ files[p] = 0 \/ files[p] >= scan.opened
      /\ files[p] \in Nat /\ scan.opened \in Nat
      /\ scan.done \in Seq(Entry) /\ Fresh(scan.done)
  BY <1>1, HeadTailProperties DEF GridInv, OpenedIsNext, ScanTypeOK, ScanRecord
<1>3. \/ Drops /\ UNCHANGED thumbs
      \/ /\ files[p] # 0
         /\ thumbs' = thumbs \cup {t}
         /\ Takes(p, scan.opened, files[p])
  BY DEF Decode, Opens
<1>4. OpenedIsNext'
  <2>1. CASE Drops
    BY <1>2, <2>1, DropsOpened DEF OpenedIsNext
  <2>2. CASE Takes(p, scan.opened, files[p])
    BY <2>2 DEF Takes, OpenedIsNext
  <2>3. QED
    BY <1>3, <2>1, <2>2
<1>5. CASE Drops /\ UNCHANGED thumbs
  <2>1. scan' \in ScanRecord /\ scan'.done = scan.done
    BY <1>2, <1>5 DEF Drops, ScanRecord
  <2>2. QED
    BY <1>1, <1>2, <1>4, <1>5, <2>1 DEF GridInv, ScanTypeOK, VersionsBelow, ThumbsFresh
<1>6. CASE /\ files[p] # 0
           /\ thumbs' = thumbs \cup {t}
           /\ Takes(p, scan.opened, files[p])
  <2>1. e \in Entry /\ e.of >= e.saw /\ t.of >= t.at /\ t \in [path : Photos, at : Nat, of : Nat]
    BY <1>2, <1>6 DEF Entry
  <2>2. Append(scan.done, e) \in Seq(Entry) /\ Fresh(Append(scan.done, e))
    <3> HIDE DEF e
    <3> QED
      BY <1>2, <2>1, AppendProperties DEF Fresh
  <2>3. scan' \in ScanRecord /\ scan'.done = Append(scan.done, e)
    BY <1>2, <1>6, <2>2 DEF Takes, ScanRecord
  <2>4. ThumbsFresh' /\ thumbs' \subseteq [path : Photos, at : Nat, of : Nat]
    <3> HIDE DEF t
    <3> QED
      BY <1>6, <2>1 DEF GridInv, ThumbsFresh, ScanTypeOK
  <2>5. QED
    BY <1>1, <1>4, <2>2, <2>3, <2>4 DEF GridInv, ScanTypeOK, VersionsBelow
<1>7. QED
  BY <1>3, <1>5, <1>6

\* A scan starts with nothing done, and ends with its pictures in the grid.
LEMMA ScanStep ==
  ASSUME GridInv, NEW byUser \in BOOLEAN, Scan(byUser)
  PROVE  GridInv'
<1>1. UNCHANGED <<files, changes, thumbs>>
  BY DEF Scan
<1>2. \/ grid' = <<>> /\ UNCHANGED scan
      \/ /\ UNCHANGED grid
         /\ \E listing \in Listed : scan' = [todo |-> listing, done |-> <<>>, opened |-> 0]
  BY DEF Scan
<1>3. Fresh(<<>>) /\ <<>> \in Seq(Entry)
  BY DEF Fresh
<1>4. CASE grid' = <<>> /\ UNCHANGED scan
  BY <1>1, <1>3, <1>4
     DEF GridInv, ScanTypeOK, VersionsBelow, ThumbsFresh, OpenedIsNext, Fresh
<1>5. CASE /\ UNCHANGED grid
           /\ \E listing \in Listed : scan' = [todo |-> listing, done |-> <<>>, opened |-> 0]
  <2>1. PICK listing \in Listed : scan' = [todo |-> listing, done |-> <<>>, opened |-> 0]
    BY <1>5
  <2>2. scan' \in ScanRecord /\ Fresh(scan'.done) /\ scan'.opened = 0
    BY <1>3, <2>1, ListingIsSeq DEF ScanRecord
  <2>3. QED
    BY <1>1, <1>5, <2>2
       DEF GridInv, ScanTypeOK, VersionsBelow, ThumbsFresh, OpenedIsNext
<1>6. QED
  BY <1>2, <1>4, <1>5

LEMMA PublishStep == GridInv /\ Publish => GridInv'
<1> SUFFICES ASSUME GridInv, Publish PROVE GridInv'
  OBVIOUS
<1>1. /\ UNCHANGED <<files, changes, thumbs>>
      /\ scan # None /\ scan' = None
      /\ grid' = scan.done \/ grid' = <<>>
  BY DEF Publish
<1>2. grid' \in Seq(Entry) /\ Fresh(grid')
  <2>1. scan.done \in Seq(Entry) /\ Fresh(scan.done)
    BY <1>1 DEF GridInv, ScanTypeOK, ScanRecord
  <2>2. <<>> \in Seq(Entry) /\ Fresh(<<>>)
    BY DEF Fresh
  <2>3. QED
    BY <1>1, <2>1, <2>2
<1>3. QED
  BY <1>1, <1>2 DEF GridInv, ScanTypeOK, VersionsBelow, ThumbsFresh, OpenedIsNext

LEMMA RestartStep == GridInv /\ Restart => GridInv'
<1> SUFFICES ASSUME GridInv, Restart PROVE GridInv'
  OBVIOUS
<1>1. /\ changes > 0 /\ changes' = changes - 1
      /\ scan' = None /\ grid' = <<>> /\ UNCHANGED <<files, thumbs>>
  BY DEF Restart
<1>2. Fresh(grid') /\ grid' \in Seq(Entry)
  BY <1>1 DEF Fresh
<1>3. QED
  BY <1>1, <1>2, Bounds
     DEF GridInv, ScanTypeOK, VersionsBelow, ThumbsFresh, OpenedIsNext

\* The copies and the covers are apart from the grid, but for the bound.
LEMMA ElseStep ==
  ASSUME GridInv, UNCHANGED <<files, thumbs, scan, grid>>,
         changes' = changes \/ (changes > 0 /\ changes' = changes - 1)
  PROVE  GridInv'
<1>1. ScanTypeOK' /\ changes' <= ChangesMax
  BY Bounds DEF GridInv, ScanTypeOK
<1>2. VersionsBelow'
  BY Bounds DEF GridInv, ScanTypeOK, VersionsBelow
<1>3. ThumbsFresh' /\ (scan # None => Fresh(scan.done))' /\ Fresh(grid)'
  BY DEF GridInv, ThumbsFresh, Fresh
<1>4. OpenedIsNext'
  BY Bounds DEF GridInv, ScanTypeOK, OpenedIsNext, ScanRecord
<1>5. QED
  BY <1>1, <1>2, <1>3, <1>4 DEF GridInv

LEMMA GridNext == GridInv /\ [RecentNext]_recentVars => GridInv'
<1> SUFFICES ASSUME GridInv, [RecentNext]_recentVars PROVE GridInv'
  OBVIOUS
<1>1. ASSUME NEW p \in Photos, Touch(p) PROVE GridInv'
  BY <1>1, TouchStep
<1>2. ASSUME NEW byUser \in BOOLEAN, Scan(byUser) PROVE GridInv'
  BY <1>2, ScanStep
<1>3. CASE Open
  BY <1>3, OpenStep
<1>4. CASE Decode
  BY <1>4, DecodeStep
<1>5. CASE Publish
  BY <1>5, PublishStep
<1>6. CASE Restart
  BY <1>6, RestartStep
<1>7. ASSUME NEW p \in Photos, Press(p) \/ Stage(p) \/ Finish(p) PROVE GridInv'
  BY <1>7, ElseStep DEF Press, Stage, Finish, photoVars
<1>8. ASSUME NEW d \in 1..Phones, Play(d) PROVE GridInv'
  BY <1>8, ElseStep DEF Play, photoVars
<1>9. CASE Pass \/ (\E c \in DOMAIN age : Expire(c)) \/ UNCHANGED recentVars
  BY <1>9, ElseStep DEF Pass, Expire, photoVars, recentVars
<1>10. QED
  BY <1>1, <1>2, <1>3, <1>4, <1>5, <1>6, <1>7, <1>8, <1>9 DEF RecentNext

\* No picture of the grid is older than the file its scan saw, whatever changes
\* between the reads of a scan and whatever the cache kept.
THEOREM FreshGrid == RecentSpec => []GridIsFresh
<1>1. GridInv => GridIsFresh
  BY LenProperties DEF GridInv, GridIsFresh, Fresh, ScanTypeOK
<1>2. QED
  BY <1>1, GridInit, GridNext, PTL DEF RecentSpec
-----------------------------------------------------------------------------
(***************************************************************************)
(* The copies.  A copy in the making is younger than any that is pruned,   *)
(* and is not yet one of those handed out, so a read that fails or a       *)
(* restart takes none of those away.                                       *)
(***************************************************************************)
Making(p) == stages[p] \notin {None, 0}

CopyTypeOK ==
  /\ age \in Seq(Nat)
  /\ stages \in [Photos -> Nat \cup {None}]
  /\ copies \in [kept : SUBSET Nat, armed : SUBSET Nat, handed : SUBSET (1..Len(age))]

InTheMaking ==
  \A p \in Photos : Making(p) =>
    /\ stages[p] \in 1..Len(age)
    /\ age[stages[p]] = 0
    /\ stages[p] \in copies.kept
    /\ stages[p] \notin copies.handed
    /\ \A q \in Photos : stages[q] = stages[p] => q = p

CopyInv == CopyTypeOK /\ InTheMaking /\ HandedStays

LEMMA CopyInit == RecentInit => CopyInv
<1> SUFFICES ASSUME RecentInit PROVE CopyInv
  OBVIOUS
<1>1. /\ stages = [p \in Photos |-> None] /\ age = <<>>
      /\ copies = [kept |-> {}, armed |-> {}, handed |-> {}]
  BY DEF RecentInit
<1>2. QED
  BY <1>1 DEF CopyInv, CopyTypeOK, InTheMaking, Making, HandedStays

\* A press asks for a copy, and a copy that is not made ends its goroutine.
LEMMA NoCopyStep ==
  ASSUME CopyInv, NEW p \in Photos, NEW s \in {None, 0},
         stages' = [stages EXCEPT ![p] = s], UNCHANGED <<age, copies>>
  PROVE  CopyInv'
<1>1. CopyTypeOK'
  BY DEF CopyInv, CopyTypeOK
<1>2. InTheMaking'
  BY DEF CopyInv, CopyTypeOK, InTheMaking, Making
<1>3. QED
  BY <1>1, <1>2 DEF CopyInv, HandedStays

LEMMA StageStep ==
  ASSUME CopyInv, NEW p \in Photos, Stage(p)
  PROVE  CopyInv'
<1> DEFINE new == Len(age) + 1
<1>1. CASE stages' = [stages EXCEPT ![p] = None] /\ UNCHANGED <<age, copies>>
  BY <1>1, NoCopyStep
<1>2. CASE /\ age' = Append(age, 0)
           /\ copies' = [copies EXCEPT !.kept = Pruned(@) \cup {new}]
           /\ stages' = [stages EXCEPT ![p] = new]
  <2>1. /\ age \in Seq(Nat) /\ Len(age) \in Nat
        /\ stages \in [Photos -> Nat \cup {None}]
        /\ copies \in [kept : SUBSET Nat, armed : SUBSET Nat, handed : SUBSET (1..Len(age))]
    BY LenProperties DEF CopyInv, CopyTypeOK
  <2>2. /\ age' \in Seq(Nat) /\ Len(age') = new
        /\ \A c \in 1..Len(age) : age'[c] = age[c]
        /\ age'[new] = 0
    BY <1>2, <2>1, AppendProperties
  <2>3. /\ copies'.kept = {c \in copies.kept : age[c] <= TTL} \cup {new}
        /\ copies'.handed = copies.handed
        /\ copies'.armed = copies.armed
        /\ copies' \in [kept : SUBSET Nat, armed : SUBSET Nat, handed : SUBSET (1..Len(age'))]
    BY <1>2, <2>1, <2>2 DEF Pruned
  <2>4. CopyTypeOK'
    BY <1>2, <2>1, <2>2, <2>3 DEF CopyTypeOK
  <2>5. InTheMaking'
    <3> SUFFICES ASSUME NEW q \in Photos, Making(q)'
                 PROVE  /\ stages'[q] \in 1..Len(age')
                        /\ age'[stages'[q]] = 0
                        /\ stages'[q] \in copies'.kept
                        /\ stages'[q] \notin copies'.handed
                        /\ \A r \in Photos : stages'[r] = stages'[q] => r = q
      BY DEF InTheMaking
    <3>1. \A r \in Photos : stages'[r] = IF r = p THEN new ELSE stages[r]
      BY <1>2, <2>1
    <3>2. \A r \in Photos : Making(r) => stages[r] \in 1..Len(age)
      BY DEF CopyInv, InTheMaking
    <3>3. CASE q = p
      <4>1. stages'[q] = new /\ \A r \in Photos : stages'[r] = new => r = p
        BY <2>1, <3>1, <3>2, <3>3 DEF Making
      <4>2. QED
        BY <2>1, <2>2, <2>3, <3>3, <4>1
    <3>4. CASE q # p
      <4>1. /\ stages'[q] = stages[q] /\ stages[q] \in 1..Len(age) /\ age[stages[q]] = 0
            /\ stages[q] \in copies.kept /\ stages[q] \notin copies.handed
            /\ \A r \in Photos : stages[r] = stages[q] => r = q
        BY <3>1, <3>4 DEF CopyInv, InTheMaking, Making
      <4>2. QED
        BY <2>1, <2>2, <2>3, <3>1, <3>4, <4>1 DEF TTL
    <3>5. QED
      BY <3>3, <3>4
  <2>6. HandedStays'
    <3> SUFFICES ASSUME NEW c \in copies'.handed, age'[c] < TTL
                 PROVE  c \in copies'.kept
      BY DEF HandedStays
    <3>1. c \in 1..Len(age) /\ c \in copies.handed /\ age[c] < TTL /\ age[c] \in Nat
      BY <2>1, <2>2, <2>3
    <3>2. c \in copies.kept
      BY <3>1 DEF CopyInv, HandedStays
    <3>3. QED
      BY <2>3, <3>1, <3>2 DEF TTL
  <2>7. QED
    BY <2>4, <2>5, <2>6 DEF CopyInv
<1>3. QED
  BY <1>1, <1>2 DEF Stage

\* A copy that is whole is handed out; one that is not was nobody's.
LEMMA FinishStep ==
  ASSUME CopyInv, NEW p \in Photos, Finish(p)
  PROVE  CopyInv'
<1>1. /\ Making(p) /\ UNCHANGED age /\ stages' = [stages EXCEPT ![p] = None]
  BY DEF Finish, Making
<1>2. /\ age \in Seq(Nat) /\ stages \in [Photos -> Nat \cup {None}]
      /\ copies \in [kept : SUBSET Nat, armed : SUBSET Nat, handed : SUBSET (1..Len(age))]
      /\ stages[p] \in 1..Len(age) /\ stages[p] \in copies.kept /\ stages[p] \notin copies.handed
      /\ \A q \in Photos : stages[q] = stages[p] => q = p
  BY <1>1 DEF CopyInv, CopyTypeOK, InTheMaking
<1>3. /\ copies' \in [kept : SUBSET Nat, armed : SUBSET Nat, handed : SUBSET (1..Len(age))]
      /\ \/ copies'.kept = copies.kept /\ copies'.handed = copies.handed \cup {stages[p]}
         \/ copies'.kept = copies.kept \ {stages[p]} /\ copies'.handed = copies.handed
  <2>1. stages[p] \in Nat
    BY <1>2, LenProperties
  <2>2. CASE copies' = [copies EXCEPT !.armed = @ \cup {stages[p]}, !.handed = @ \cup {stages[p]}]
    <3>1. /\ copies'.kept = copies.kept /\ copies'.armed = copies.armed \cup {stages[p]}
          /\ copies'.handed = copies.handed \cup {stages[p]}
      BY <1>2, <2>2
    <3>2. QED
      BY <1>2, <2>1, <2>2, <3>1
  <2>3. CASE copies' = [copies EXCEPT !.kept = @ \ {stages[p]}]
    BY <1>2, <2>3
  <2>4. QED
    BY <2>2, <2>3 DEF Finish
<1>4. CopyTypeOK'
  BY <1>1, <1>2, <1>3 DEF CopyTypeOK
<1>5. InTheMaking'
  BY <1>1, <1>2, <1>3 DEF CopyInv, InTheMaking, Making
<1>6. HandedStays'
  BY <1>1, <1>2, <1>3 DEF CopyInv, HandedStays
<1>7. QED
  BY <1>4, <1>5, <1>6 DEF CopyInv

\* Nothing is in the making while time passes.
LEMMA PassStep == CopyInv /\ Pass => CopyInv'
<1> SUFFICES ASSUME CopyInv, Pass PROVE CopyInv'
  OBVIOUS
<1>1. /\ UNCHANGED <<stages, copies>> /\ \A p \in Photos : ~Making(p)
      /\ age' = [c \in DOMAIN age |-> IF age[c] > TTL THEN age[c] ELSE age[c] + 1]
      /\ age \in Seq(Nat)
  BY DEF Pass, Making, CopyInv, CopyTypeOK
<1>2. /\ Len(age') = Len(age) /\ age' \in Seq(Nat)
      /\ \A c \in 1..Len(age) : age[c] \in Nat /\ (age'[c] < TTL => age[c] < TTL)
  <2>1. Len(age) \in Nat /\ DOMAIN age = 1..Len(age) /\ \A c \in 1..Len(age) : age[c] \in Nat
    BY <1>1, LenProperties, ElementOfSeq
  <2>2. age' \in [1..Len(age) -> Nat]
    BY <1>1, <2>1
  <2>3. age' \in Seq(Nat) /\ Len(age') = Len(age)
    <3>1. [1..Len(age) -> Nat] \in {[1..n -> Nat] : n \in Nat}
      BY <2>1
    <3>2. age' \in Seq(Nat)
      BY <2>2, <3>1, SeqDef, Zenon
    <3>3. DOMAIN age' = 1..Len(age') /\ Len(age') \in Nat
      BY <3>2, LenProperties
    <3>4. QED
      BY <2>1, <2>2, <3>2, <3>3
  <2>4. QED
    BY <1>1, <2>1, <2>3 DEF TTL
<1>3. CopyTypeOK'
  BY <1>1, <1>2 DEF CopyInv, CopyTypeOK
<1>4. InTheMaking'
  BY <1>1 DEF InTheMaking, Making
<1>5. HandedStays'
  BY <1>1, <1>2 DEF CopyInv, CopyTypeOK, HandedStays
<1>6. QED
  BY <1>3, <1>4, <1>5 DEF CopyInv

\* A timer takes a copy whose time is over.
LEMMA ExpireStep ==
  ASSUME CopyInv, NEW c \in DOMAIN age, Expire(c)
  PROVE  CopyInv'
<1>1. /\ age[c] >= TTL /\ UNCHANGED <<stages, age>>
      /\ copies' = [copies EXCEPT !.kept = @ \ {c}, !.armed = @ \ {c}]
  BY DEF Expire
<1>2. copies \in [kept : SUBSET Nat, armed : SUBSET Nat, handed : SUBSET (1..Len(age))]
  BY DEF CopyInv, CopyTypeOK
<1>3. /\ copies' \in [kept : SUBSET Nat, armed : SUBSET Nat, handed : SUBSET (1..Len(age))]
      /\ copies'.kept = copies.kept \ {c} /\ copies'.handed = copies.handed
  BY <1>1, <1>2
<1>4. \A k \in Nat : k < TTL => ~(k >= TTL)
  BY DEF TTL
<1>5. CopyTypeOK'
  BY <1>1, <1>3 DEF CopyInv, CopyTypeOK
<1>6. InTheMaking'
  BY <1>1, <1>3 DEF CopyInv, InTheMaking, Making, TTL
<1>7. HandedStays'
  <2> SUFFICES ASSUME NEW d \in copies.handed, age[d] < TTL PROVE d \in copies'.kept
    BY <1>1, <1>3 DEF HandedStays
  <2>1. d \in copies.kept /\ age[d] \in Nat
    BY <1>2, ElementOfSeq DEF CopyInv, CopyTypeOK, HandedStays
  <2>2. QED
    BY <1>1, <1>3, <1>4, <2>1
<1>8. QED
  BY <1>5, <1>6, <1>7 DEF CopyInv

\* Only copies in the making go with their goroutines.
LEMMA RestartCopies == CopyInv /\ Restart => CopyInv'
<1> SUFFICES ASSUME CopyInv, Restart PROVE CopyInv'
  OBVIOUS
<1>1. PICK left \in SUBSET ({stages[p] : p \in Photos} \ {None, 0}) :
        copies' = [copies EXCEPT !.kept = @ \ left, !.armed = {}]
  BY DEF Restart
<1>2. stages' = [p \in Photos |-> None] /\ UNCHANGED age
  BY DEF Restart
<1>3. copies \in [kept : SUBSET Nat, armed : SUBSET Nat, handed : SUBSET (1..Len(age))]
  BY DEF CopyInv, CopyTypeOK
<1>4. /\ copies' \in [kept : SUBSET Nat, armed : SUBSET Nat, handed : SUBSET (1..Len(age))]
      /\ copies'.kept = copies.kept \ left /\ copies'.handed = copies.handed
  BY <1>1, <1>3
<1>5. left \cap copies.handed = {}
  BY <1>1 DEF CopyInv, InTheMaking, Making
<1>6. CopyTypeOK' /\ InTheMaking'
  BY <1>2, <1>4 DEF CopyInv, CopyTypeOK, InTheMaking, Making
<1>7. HandedStays'
  BY <1>2, <1>4, <1>5 DEF CopyInv, HandedStays
<1>8. QED
  BY <1>6, <1>7 DEF CopyInv

LEMMA CopyNext == CopyInv /\ [RecentNext]_recentVars => CopyInv'
<1> SUFFICES ASSUME CopyInv, [RecentNext]_recentVars PROVE CopyInv'
  OBVIOUS
<1>1. ASSUME NEW p \in Photos, Press(p) PROVE CopyInv'
  BY <1>1, NoCopyStep DEF Press
<1>2. ASSUME NEW p \in Photos, Stage(p) PROVE CopyInv'
  BY <1>2, StageStep
<1>3. ASSUME NEW p \in Photos, Finish(p) PROVE CopyInv'
  BY <1>3, FinishStep
<1>4. CASE Pass
  BY <1>4, PassStep
<1>5. ASSUME NEW c \in DOMAIN age, Expire(c) PROVE CopyInv'
  BY <1>5, ExpireStep
<1>6. CASE Restart
  BY <1>6, RestartCopies
<1>7. ASSUME UNCHANGED copyVars PROVE CopyInv'
  BY <1>7 DEF copyVars, CopyInv, CopyTypeOK, InTheMaking, Making, HandedStays
<1>8. ASSUME NEW p \in Photos, Touch(p) PROVE UNCHANGED copyVars
  BY <1>8 DEF Touch
<1>9. ASSUME NEW d \in 1..Phones, Play(d) PROVE UNCHANGED copyVars
  BY <1>9 DEF Play
<1>10. ASSUME NEW byUser \in BOOLEAN, Scan(byUser) PROVE UNCHANGED copyVars
  BY <1>10 DEF Scan
<1>11. ASSUME Open \/ Decode \/ Publish \/ UNCHANGED recentVars PROVE UNCHANGED copyVars
  BY <1>11 DEF Open, Decode, Publish, recentVars, copyVars
<1>12. QED
  BY <1>1, <1>2, <1>3, <1>4, <1>5, <1>6, <1>7, <1>8, <1>9, <1>10, <1>11 DEF RecentNext

\* A copy handed out is there for its whole time: neither a later stage, a read that
\* fails, a timer nor a restart removes it.
THEOREM CopiesStay == RecentSpec => []HandedStays
<1>1. CopyInv => HandedStays
  BY DEF CopyInv
<1>2. QED
  BY <1>1, CopyInit, CopyNext, PTL DEF RecentSpec
-----------------------------------------------------------------------------
(***************************************************************************)
(* The mockup.  Only the reading of the covers can take the picture away,  *)
(* and it begins a scan, which forgets the picture until it ends.          *)
(***************************************************************************)
ArtTypeOK ==
  /\ DOMAIN art = 1..Phones
  /\ DOMAIN svc = {"gridded", "empty", "newest"}

ArtInv == ArtTypeOK /\ (svc.newest # None => art[Selected] \in live)

LEMMA ArtInit == RecentInit => ArtInv
<1> SUFFICES ASSUME RecentInit PROVE ArtInv
  OBVIOUS
<1>1. art = [d \in 1..Phones |-> None]
  BY DEF RecentInit
<1>2. PICK gridded \in BOOLEAN : svc = [gridded |-> gridded, empty |-> FALSE, newest |-> None]
  BY DEF RecentInit
<1>3. QED
  BY <1>1, <1>2 DEF ArtInv, ArtTypeOK

LEMMA ArtPublish == ArtInv /\ Publish => ArtInv'
<1> SUFFICES ASSUME ArtInv, Publish PROVE ArtInv'
  OBVIOUS
<1> DEFINE newest == IF scan.done = <<>> THEN None ELSE <<scan.done[1].path, scan.done[1].saw>>
<1>1. /\ IdleArt(newest)
      /\ svc' = [svc EXCEPT !.newest = newest, !.empty = ~@ /\ ~svc.gridded /\ newest = None]
  BY DEF Publish
<1> HIDE DEF newest
<1>2. svc'.newest = newest /\ DOMAIN svc' = DOMAIN svc
  BY <1>1 DEF ArtInv, ArtTypeOK
<1>3. CASE Pictured(newest)
  <2>1. art' = [art EXCEPT ![Selected] = newest] /\ newest \in live'
    BY <1>3 DEF Pictured, Composed
  <2>2. Selected \in DOMAIN art
    BY RecentAssumption DEF ArtInv, ArtTypeOK
  <2>3. QED
    BY <1>2, <2>1, <2>2 DEF ArtInv, ArtTypeOK
<1>4. CASE UNCHANGED <<live, art>> /\ (newest = None \/ art[Selected] \in live)
  BY <1>2, <1>4 DEF ArtInv, ArtTypeOK
<1>5. QED
  BY <1>1, <1>3, <1>4 DEF IdleArt

LEMMA ArtNext == ArtInv /\ [RecentNext]_recentVars => ArtInv'
<1> SUFFICES ASSUME ArtInv, [RecentNext]_recentVars PROVE ArtInv'
  OBVIOUS
<1>1. CASE Publish
  BY <1>1, ArtPublish
<1>2. ASSUME NEW byUser \in BOOLEAN, Scan(byUser) PROVE ArtInv'
  <2>1. art' = [d \in 1..Phones |-> Cover(d)]
    BY <1>2 DEF Scan, ReadCovers
  <2>2. \E b \in BOOLEAN : svc' = [svc EXCEPT !.empty = b, !.newest = None]
    BY <1>2 DEF Scan
  <2>3. QED
    BY <2>1, <2>2 DEF ArtInv, ArtTypeOK
<1>3. CASE Restart
  <2>1. /\ art' = [d \in 1..Phones |-> None]
        /\ svc' = [svc EXCEPT !.empty = FALSE, !.newest = None]
    BY <1>3 DEF Restart
  <2>2. QED
    BY <2>1 DEF ArtInv, ArtTypeOK
<1>4. ASSUME UNCHANGED <<svc, art, live>> PROVE ArtInv'
  BY <1>4 DEF ArtInv, ArtTypeOK
<1>5. ASSUME NEW p \in Photos, Touch(p) \/ Press(p) \/ Stage(p) \/ Finish(p)
      PROVE  UNCHANGED <<svc, art, live>>
  BY <1>5 DEF Touch, Press, Stage, Finish, photoVars
<1>6. ASSUME NEW d \in 1..Phones, Play(d) PROVE UNCHANGED <<svc, art, live>>
  BY <1>6 DEF Play, photoVars
<1>7. ASSUME Open \/ Decode \/ UNCHANGED recentVars PROVE UNCHANGED <<svc, art, live>>
  BY <1>7 DEF Open, Decode, recentVars
<1>8. ASSUME Pass \/ \E c \in DOMAIN age : Expire(c) PROVE UNCHANGED <<svc, art, live>>
  BY <1>8 DEF Pass, Expire, photoVars
<1>9. QED
  BY <1>1, <1>2, <1>3, <1>4, <1>5, <1>6, <1>7, <1>8 DEF RecentNext

\* After a scan that found a picture, the mockup of the phone it came from has one,
\* for any number of phones and any order of their covers.
THEOREM MockupIsPictured == RecentSpec => []MockupHasPicture
<1>1. ArtInv => MockupHasPicture
  BY DEF ArtInv, MockupHasPicture
<1>2. QED
  BY <1>1, ArtInit, ArtNext, PTL DEF RecentSpec

\* Both together: nothing that the rest of the desktop was handed, or shows, is taken
\* away, in every behaviour and for every bound.
THEOREM DiskIsKept == RecentSpec => []CopiesAndCovers
<1>1. HandedStays /\ MockupHasPicture => CopiesAndCovers
  BY DEF CopiesAndCovers
<1>2. QED
  BY <1>1, CopiesStay, MockupIsPictured, PTL
=============================================================================
