---------------------------- MODULE PrivacyAudit ----------------------------
(***************************************************************************)
(* What the privacy plugin makes of an audit: ParseAuditOutput of          *)
(* plugins/privacy/snapshot.go, which refuses a report that contradicts    *)
(* itself and cuts its lists to what the panel of view.go has room for.    *)
(*                                                                         *)
(* Names and texts are left out: a grade is its gradeRank and a severity   *)
(* its severityRank.  The one step parses one report, and the reports vary *)
(* in one part at a time.                                                  *)
(***************************************************************************)
EXTENDS Naturals, Sequences, FiniteSets, SequencesExt

CONSTANTS Grades,         \* the ranks of the grades: green 0, amber 1, red 2, unknown 3
          Severities,     \* the ranks of the severities: low 1, medium 2, high 3
          CategoriesMax,  \* maxCategories (16)
          InstalledMax,   \* maxInstalledPerCat (4)
          FindingsMax,    \* maxFindings (5)
          SandboxMax,     \* maxSandboxApps (4)
          LongestList,    \* bound: the apps, findings and categories of a report
          None

Unknown == 3

PrivacyAuditAssumption ==
  /\ Grades \subseteq 0 .. Unknown /\ Unknown \in Grades /\ Severities \subseteq Nat
  /\ {CategoriesMax, InstalledMax, FindingsMax, SandboxMax, LongestList} \subseteq Nat \ {0}

VARIABLES report,   \* what privacybit answers
          snapshot  \* what the plugin makes of it, or None

auditVars == <<report, snapshot>>

----------------------------------------------------------------------------
(* Reports *)

SeqsUpTo(S, n) == UNION {[1 .. k -> S] : k \in 0 .. n}

\* A category says how many apps it counts, and names the worst of them or not.
Categories == [grade : Grades, installed : SeqsUpTo(Grades, LongestList),
               total : {0, LongestList + 1}, worst : Grades \cup {None}]
PlainCategories == [grade : Grades, installed : {<<>>}, total : {0}, worst : {None}]
SandboxApps == [grade : Grades, unclassified : BOOLEAN]
Sandboxes == [applicable : BOOLEAN, grade : Grades, apps : SeqsUpTo(SandboxApps, LongestList),
              total : 0 .. LongestList, checked : 0 .. LongestList,
              incomplete : 0 .. LongestList, partial : BOOLEAN]
Findings == [severity : Severities, grade : Grades]

Plain(overall) == [overall |-> overall, categories |-> <<>>, sandbox |-> None, findings |-> <<>>]
IsReport(r) ==
  \E g \in Grades :
    \/ \E c \in Categories : r = [Plain(g) EXCEPT !.categories = <<c>>]
    \/ \E cs \in SeqsUpTo(PlainCategories, LongestList) : r = [Plain(g) EXCEPT !.categories = cs]
    \/ \E s \in Sandboxes : r = [Plain(g) EXCEPT !.sandbox = s]
    \/ \E fs \in SeqsUpTo(Findings, LongestList) : r = [Plain(g) EXCEPT !.findings = fs]

----------------------------------------------------------------------------
(* What is refused *)

\* A category is not safer than its apps, nor the whole than its categories.
CategoryStands(overall, c) ==
  /\ overall >= c.grade
  /\ \A i \in DOMAIN c.installed : c.grade >= c.installed[i]
  /\ c.worst = None \/ c.grade >= c.worst

AtLeast(total, list) == IF total < Len(list) THEN Len(list) ELSE total
Incomplete(app) == app.grade = Unknown \/ app.unclassified
CountOf(list, P(_)) == Cardinality({i \in DOMAIN list : P(list[i])})

\* PartialCoverage: told by the report, or by what it counts.
Partial(s) ==
  \/ s.partial
  \/ s.incomplete > 0
  \/ (s.applicable /\ s.grade = Unknown)
  \/ \E i \in DOMAIN s.apps : Incomplete(s.apps[i])

\* projectSandbox.
SandboxStands(overall, s) ==
  LET total == AtLeast(s.total, s.apps) IN
  /\ s.checked <= total /\ s.incomplete <= total
  /\ IF s.applicable THEN total > 0 => s.apps # <<>> ELSE total = 0
  /\ \A i \in DOMAIN s.apps :
       /\ s.apps[i].unclassified => s.apps[i].grade = Unknown
       /\ s.grade >= s.apps[i].grade
  /\ s.checked >= CountOf(s.apps, LAMBDA a : a.grade # Unknown)
  /\ s.incomplete >= CountOf(s.apps, Incomplete)
  /\ s.applicable /\ total = 0 => s.grade = Unknown
  /\ Partial(s) => s.grade = Unknown
  /\ ~s.applicable => s.grade = Unknown /\ ~Partial(s)
  /\ s.applicable => overall >= s.grade

Stands(r) ==
  /\ \A i \in DOMAIN r.categories : CategoryStands(r.overall, r.categories[i])
  /\ r.sandbox # None => SandboxStands(r.overall, r.sandbox)

----------------------------------------------------------------------------
(* What is shown *)

\* A list cut to its first entries, with how many there are.
Cut(list, total, max) ==
  LET shown == IF Len(list) > max THEN SubSeq(list, 1, max) ELSE list IN
  [shown |-> shown, total |-> AtLeast(total, list),
   truncated |-> Len(shown) < AtLeast(total, list)]

ProjectCategory(c) ==
  [grade |-> c.grade, installed |-> Cut(c.installed, c.total, InstalledMax), worst |-> c.worst]

\* As Worse, but the severity is all that counts.
WorseBySeverity(f, g) == f.severity > g.severity

\* The order of the findings: the severity, and then the grade.
Worse(f, g) == f.severity > g.severity \/ (f.severity = g.severity /\ f.grade > g.grade)

\* Entries in an order W (sort.SliceStable).
InOrder(list, W(_, _)) ==
  LET Before(i, j) == W(list[i], list[j]) \/ (~W(list[j], list[i]) /\ i < j)
      order == SetToSortSeq(DOMAIN list, Before)
  IN [k \in DOMAIN list |-> list[order[k]]]

ProjectSandbox(s) ==
  [applicable |-> s.applicable, grade |-> s.grade, partial |-> Partial(s),
   checked |-> s.checked,
   apps |-> Cut(InOrder(s.apps, LAMBDA a, b : a.grade > b.grade), s.total, SandboxMax)]

\* UnavailableSnapshot.
Unavailable == [available |-> FALSE]

\* ParseAuditOutput.
Project(r) ==
  IF ~Stands(r) THEN Unavailable
  ELSE [available |-> TRUE, overall |-> r.overall,
        categories |-> Cut([i \in DOMAIN r.categories |-> ProjectCategory(r.categories[i])],
                           0, CategoriesMax),
        sandbox |-> IF r.sandbox = None THEN None ELSE ProjectSandbox(r.sandbox),
        findings |-> Cut(InOrder(r.findings, Worse), 0, FindingsMax)]

\* The apps of a category the panel names: those of the list, and the worst when it is
\* none of them (categorySection).
NamedApps(c) ==
  c.installed.shown \o
  (IF c.worst = None \/ \E i \in DOMAIN c.installed.shown : c.installed.shown[i] = c.worst
   THEN <<>> ELSE <<c.worst>>)

Parse == snapshot = None /\ snapshot' = Project(report) /\ UNCHANGED report

AuditInit == IsReport(report) /\ snapshot = None
AuditNext == Parse
AuditSpec == AuditInit /\ [][AuditNext]_auditVars

----------------------------------------------------------------------------
(* Properties *)

Parsed == snapshot # None /\ snapshot.available

\* Every entry of the list that is worse than one that is shown is shown too.
NoneWorseIsHidden(list, cut, W(_, _)) ==
  \A i \in DOMAIN cut.shown : LET IsWorse(x) == W(x, cut.shown[i]) IN
    CountOf(list, IsWorse) = CountOf(cut.shown, IsWorse)

\* What is cut away is never worse than what is shown, and the worst app of a category is
\* named (TestParseAuditOutputKeepsWorstFlatpakCopyVisible, snapshot_test.go:303).
WorstIsShown == Parsed =>
  /\ NoneWorseIsHidden(report.findings, snapshot.findings,
       LAMBDA f, g : 4 * f.severity + f.grade > 4 * g.severity + g.grade)
  /\ snapshot.sandbox # None =>
       NoneWorseIsHidden(report.sandbox.apps, snapshot.sandbox.apps,
                         LAMBDA a, b : a.grade > b.grade)
  /\ \A i \in DOMAIN snapshot.categories.shown : LET c == snapshot.categories.shown[i] IN
       c.worst # None => \E j \in DOMAIN NamedApps(c) : NamedApps(c)[j] >= c.worst

\* A list that lacks an entry of the report, or of what the report counts, says so
\* (plugins/privacy/README.md:19 "When a list is capped, the panel says how many entries it shows").
Tells(list, count, cut) ==
  Len(cut.shown) < Len(list) \/ Len(cut.shown) < count
  => cut.truncated /\ cut.total >= Len(list) /\ cut.total >= count
HiddenIsTold == Parsed =>
  /\ Tells(report.categories, 0, snapshot.categories)
  /\ Tells(report.findings, 0, snapshot.findings)
  /\ \A i \in DOMAIN snapshot.categories.shown :
       Tells(report.categories[i].installed, report.categories[i].total,
             snapshot.categories.shown[i].installed)
  /\ snapshot.sandbox # None =>
       Tells(report.sandbox.apps, report.sandbox.total, snapshot.sandbox.apps)

=============================================================================
