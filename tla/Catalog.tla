------------------------------ MODULE Catalog ------------------------------
(***************************************************************************)
(* How a release gets into catalog.json: tools/catalog (package, update,   *)
(* validate, thumbnails) in the release workflow, which runs once for each *)
(* tag, at the same time for two tags, and again when someone asks.        *)
(*                                                                         *)
(* A version is a number.  What an archive holds depends on the tag and on *)
(* the packages of the day: one number.  A row holds the releases, newest  *)
(* first (the first is the top-level one), and which version and which     *)
(* catalog-meta.json its listing is from.  Schemas, hashes and URLs are    *)
(* left out.                                                               *)
(***************************************************************************)
EXTENDS Naturals, Sequences, FiniteSets, SequencesExt

CONSTANTS Plugins,      \* ids
          VersionsMax,  \* bound: versions of a plugin
          ReleasesCap,  \* releasesCap (5)
          ThumbSince,   \* the first version that ships a thumbnail
          TagsMax,      \* bound: tags that are pushed
          ClicksMax,    \* bound: reruns, closed pull requests, edits of main
          DaysMax,      \* bound: days with new packages
          TroublesMax,  \* bound: downloads that fail
          None

CatalogAssumption ==
  {VersionsMax, ReleasesCap, ThumbSince, TagsMax, ClicksMax, DaysMax, TroublesMax} \subseteq Nat

VARIABLES runs,      \* for each tag its latest workflow run, or None
          served,    \* for each tag the archive of its GitHub release, or None
          main,      \* catalog.json: for each plugin its row, or None
          branches,  \* catalog/<tag>: the pull request of each tag, or None
          meta,      \* catalog-meta.json: edits of each entry; 0: no entry
          day,       \* the packages that pacman installs
          merged,    \* history: for each plugin the versions whose pull request was merged
          budget     \* what is left of the bounds

catalogVars == <<runs, served, main, branches, meta, day, merged, budget>>

Versions == 1 .. VersionsMax
Tags == Plugins \X Versions

SetOf(s) == {s[i] : i \in DOMAIN s}

----------------------------------------------------------------------------
(* catalog update *)

Older(row, v) == row # None /\ row.releases[1].version > v

Cut(releases) ==
  SubSeq(releases, 1, IF Len(releases) < ReleasesCap THEN Len(releases) ELSE ReleasesCap)

\* As NewestFirst, but the other way round.
OldestFirst(releases) == SetToSortSeq(releases, LAMBDA a, b : a.version < b.version)

NewestFirst(releases) == SetToSortSeq(releases, LAMBDA a, b : a.version > b.version)

\* mergeRelease: the top-level release moves to the front of the others, unless the new one
\* is the same version or older.  A release that is not the newest leaves the listing alone.
MergeRelease(row, new, edit) ==
  IF row = None THEN [releases |-> <<new>>, listing |-> new.version, shot |-> new.version, edit |-> edit]
  ELSE LET older == Older(row, new.version)
           others == {r \in SetOf(row.releases) : r.version # new.version}
           top == row.releases[1] IN
       IF older
       THEN [row EXCEPT !.releases = <<top>> \o Cut(NewestFirst((others \ {top}) \cup {new})),
                        !.edit = edit]
       ELSE [releases |-> <<new>> \o Cut(NewestFirst(others)), listing |-> new.version,
             shot |-> new.version, edit |-> edit]

\* updateCatalog: what it refuses.
Refused(t) == meta[t[1]] = 0 \/ (~Older(main[t[1]], t[2]) /\ t[2] < ThumbSince)

\* readTaggedManifest and scanAssets: what the archives of the run say they are.
Archived(t) == [version |-> t[2], archive |-> runs[t].archive]

Updated(t) == MergeRelease(main[t[1]], Archived(t), meta[t[1]])

----------------------------------------------------------------------------
(* catalog validate -fetch *)

Ordered(row) ==
  \A i, j \in DOMAIN row.releases : i < j => row.releases[i].version > row.releases[j].version

\* manifestMismatches, with the manifest at the tag of the top-level release.
IsOfTop(row) == row.listing = row.releases[1].version

\* fetchEntry: every archive.
AllServed(p, row) == \A r \in SetOf(row.releases) : served[<<p, r.version>>] = r.archive

RowPasses(p, row) == meta[p] > 0 /\ Ordered(row) /\ IsOfTop(row) /\ AllServed(p, row)

Passes(rows) == \A p \in Plugins : rows[p] # None => RowPasses(p, rows[p])

----------------------------------------------------------------------------
(* The workflow: gate, build, release and catalog *)

Spend(what) == budget[what] > 0 /\ budget' = [budget EXCEPT ![what] = @ - 1]

Enters(t, stage) == runs' = [runs EXCEPT ![t].stage = stage]

PushTag(t) ==
  /\ runs[t] = None /\ Spend("tags")
  /\ runs' = [runs EXCEPT ![t] = [stage |-> "queued", archive |-> None, base |-> None, row |-> None]]
  /\ UNCHANGED <<served, main, branches, meta, day, merged>>

\* The image is pinned; pacman -Syu then installs what there is that day.
Build(t) ==
  /\ runs[t] # None /\ runs[t].stage = "queued"
  /\ runs' = [runs EXCEPT ![t].stage = "built", ![t].archive = day]
  /\ UNCHANGED <<served, main, branches, meta, day, merged, budget>>

\* gh release create, or upload --clobber.
Release(t) ==
  /\ runs[t] # None /\ runs[t].stage = "built"
  /\ served' = [served EXCEPT ![t] = runs[t].archive] /\ Enters(t, "released")
  /\ UNCHANGED <<main, branches, meta, day, merged, budget>>

\* A checkout of main, catalog update and catalog validate -fetch.
Check(t) ==
  /\ runs[t] # None /\ runs[t].stage = "released"
  /\ \/ Enters(t, "failed") /\ Spend("troubles")
     \/ /\ UNCHANGED budget
        /\ IF ~Refused(t) /\ Passes([main EXCEPT ![t[1]] = Updated(t)])
           THEN runs' = [runs EXCEPT ![t].stage = "checked", ![t].base = main[t[1]], ![t].row = Updated(t)]
           ELSE Enters(t, "failed")
  /\ UNCHANGED <<served, main, branches, meta, day, merged>>

\* Without a change there is nothing to publish; else the branch is overwritten and its pull
\* request is opened, or is open.
OpenPullRequest(t) ==
  /\ runs[t] # None /\ runs[t].stage = "checked"
  /\ runs' = [runs EXCEPT ![t] = [@ EXCEPT !.stage = "ended", !.base = None, !.row = None]]
  /\ branches' = IF runs[t].row = runs[t].base THEN branches
                 ELSE [branches EXCEPT ![t] = [base |-> runs[t].base, row |-> runs[t].row]]
  /\ UNCHANGED <<served, main, meta, day, merged, budget>>

----------------------------------------------------------------------------
(* People *)

\* All jobs again, or the failed one.
Rerun(t) ==
  /\ runs[t] # None /\ Spend("clicks")
  /\ \/ runs[t].stage \in {"ended", "failed"} /\ Enters(t, "queued")
     \/ runs[t].stage = "failed" /\ Enters(t, "released")
  /\ UNCHANGED <<served, main, branches, meta, day, merged>>

\* git merges a row that main has not changed since.
Mergeable(t) == branches[t] # None /\ main[t[1]] = branches[t].base

Merge(t) ==
  /\ Mergeable(t)
  /\ main' = [main EXCEPT ![t[1]] = branches[t].row] /\ branches' = [branches EXCEPT ![t] = None]
  /\ merged' = [merged EXCEPT ![t[1]] = @ \cup {t[2]}]
  /\ UNCHANGED <<runs, served, meta, day, budget>>

Close(t) ==
  /\ branches[t] # None /\ Spend("clicks") /\ branches' = [branches EXCEPT ![t] = None]
  /\ UNCHANGED <<runs, served, main, meta, day, merged>>

EditMeta(p) ==
  /\ Spend("clicks") /\ meta' = [meta EXCEPT ![p] = @ + 1]
  /\ UNCHANGED <<runs, served, main, branches, day, merged>>

\* catalog thumbnails: the screenshot is the one of a commit (0).
PinThumbnails ==
  /\ Spend("clicks")
  /\ main' = [p \in Plugins |-> IF main[p] = None THEN None ELSE [main[p] EXCEPT !.shot = 0]]
  /\ UNCHANGED <<runs, served, branches, meta, day, merged>>

NewPackages == Spend("days") /\ day' = day + 1
               /\ UNCHANGED <<runs, served, main, branches, meta, merged>>

CatalogInit ==
  /\ runs = [t \in Tags |-> None] /\ served = [t \in Tags |-> None]
  /\ main = [p \in Plugins |-> None] /\ branches = [t \in Tags |-> None]
  /\ meta = [p \in Plugins |-> 1] /\ day = 0 /\ merged = [p \in Plugins |-> {}]
  /\ budget = [tags |-> TagsMax, clicks |-> ClicksMax, days |-> DaysMax, troubles |-> TroublesMax]

Workflow(t) == PushTag(t) \/ Build(t) \/ Release(t) \/ Check(t) \/ OpenPullRequest(t)
People(t) == Rerun(t) \/ Merge(t) \/ Close(t)

CatalogNext ==
  \/ \E t \in Tags : Workflow(t) \/ People(t)
  \/ \E p \in Plugins : EditMeta(p)
  \/ PinThumbnails \/ NewPackages

CatalogSpec == CatalogInit /\ [][CatalogNext]_catalogVars

----------------------------------------------------------------------------
(* Properties *)

\* Whatever the order of the tags, of their runs and of the merges, a row holds the newest of
\* the releases that were merged, newest first, and is listed as the newest describes itself:
\* "ordering never depends on publish order" (update.go:244), and no pull request undoes another.
RowIsNewest ==
  \A p \in Plugins :
    merged[p] # {} =>
      LET row == main[p]
          versions == [i \in DOMAIN row.releases |-> row.releases[i].version] IN
      /\ versions[1] = row.listing /\ \A v \in merged[p] : v <= versions[1]
      /\ Tail(versions) = Cut(SetToSortSeq(merged[p] \ {versions[1]}, LAMBDA v, w : v > w))

=============================================================================
