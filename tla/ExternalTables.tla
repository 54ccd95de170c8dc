--------------------------- MODULE ExternalTables ---------------------------
(***************************************************************************)
(* The aeronautical tables of gpsxdb: the loaders that replace them from   *)
(* a download (AirportsLoader, FAAObstacleLoader, AirspaceLoader), the     *)
(* periodic checks of poll mode that decide when to run a loader           *)
(* (Replicator::checkExternalData, checkAirspaceRefresh) and the loader    *)
(* phases of the bulk import, which record what they loaded afterwards.    *)
(*                                                                         *)
(* A loader downloads, truncates its tables in a transaction of its own,   *)
(* and fills them in later ones.  Between two transactions another loader, *)
(* a new publication, an exception or a crash may come.                    *)
(*                                                                         *)
(*  - airports: six files, then one TRUNCATE of all tables, then a         *)
(*    transaction per table.  "airports" stands for the tables with the    *)
(*    dataset's own keys, "tags" for the one without a key;                *)
(*  - faa_obstacles: one file, one table with serial keys;                 *)
(*  - airspace: five sub-loaders with a table each.  "class" stands for    *)
(*    the four GeoJSON ones, "international" for the paginated one.        *)
(*                                                                         *)
(* The sources share no table, no file and no row of external_data_state,  *)
(* so a behaviour follows one of them; the steps a process spends on the   *)
(* others are stuttering steps.  The n-th publication of a source has the  *)
(* Last-Modified time n * Gap.                                             *)
(***************************************************************************)
EXTENDS Integers, Sequences, FiniteSets

CONSTANTS
    Tolerance,   \* kUpdateToleranceSeconds
    Jitter,      \* how far a CDN's Last-Modified is off, at most
    Gap,         \* the time between two publications
    Period,      \* kAirspaceRefreshSeconds
    HaveKey,     \* an OpenAIP key is configured
    MaxPubs,     \* bound on the publications of a source
    MaxTime,     \* bound on the clock
    MaxRuns,     \* bound on loads started by hand
    MaxFaults    \* bound on failures and crashes

\* The comments on kUpdateToleranceSeconds: the jitter is below the tolerance,
\* and real updates are much further apart than the tolerance.
ASSUME ExternalAssumption ==
    /\ Tolerance \in Nat /\ Jitter \in Nat /\ Gap \in Nat /\ Period \in Nat \ {0}
    /\ Jitter <= Tolerance /\ Tolerance + Jitter < Gap
    /\ HaveKey \in BOOLEAN
    /\ MaxPubs \in Nat /\ MaxTime \in Nat /\ MaxRuns \in Nat /\ MaxFaults \in Nat

Stamped == {"airports", "faa_obstacles"}       \* kExternalSources
Sources == Stamped \cup {"airspace"}

Plan == [airports |-> <<"airports", "tags">>,
         faa_obstacles |-> <<"faa_obstacles">>,
         airspace |-> IF HaveKey THEN <<"class", "international">> ELSE <<"class">>]

Keyed == {"airports"}       \* a second copy of a row violates the primary key

\* The processes: poll mode, a bulk import in its loader phases, a
\* standalone loader.
Loaders == {"poll", "import", "tool"}

VARIABLES
    source,   \* the source this behaviour follows
    pub,      \* its publication that is on the server
    clock,
    rows,     \* the loads whose rows each of its tables holds
    known,    \* its row of external_data_state, -1 for none
    job,      \* what each loader process is doing
    runs, faults,
    flaw      \* history: why the tables may be wrong without poll noticing

tvars == <<source, pub, clock, rows, known, job, runs, faults, flaw>>

Tables == {Plan[source][i] : i \in 1..Len(Plan[source])}
IsStamped == source \in Stamped

Idle == [pc |-> "idle", at |-> 0, got |-> <<>>, seen |-> -1, due |-> FALSE, ok |-> TRUE]

ExternalInit ==
    /\ source \in Sources
    /\ pub = 0 /\ clock = 0
    /\ rows = [t \in Tables |-> <<>>]
    /\ known = -1
    /\ job = [p \in Loaders |-> Idle]
    /\ runs = 0 /\ faults = 0
    /\ flaw = {}

----------------------------------------------------------------------------
(* The world *)

\* Only the sources with a Last-Modified are compared with what is published,
\* and only airspace is compared with the clock.
Publish ==
    /\ IsStamped /\ pub < MaxPubs
    /\ pub' = pub + 1
    /\ UNCHANGED <<source, clock, rows, known, job, runs, faults, flaw>>

Tick ==
    /\ ~IsStamped /\ clock < MaxTime
    /\ clock' = clock + 1
    /\ UNCHANGED <<source, pub, rows, known, job, runs, faults, flaw>>

\* What a HEAD request can report.
remoteLastModified == {Gap * pub + j : j \in 0..Jitter}

----------------------------------------------------------------------------
(* A load's life *)

table(p) == Plan[source][job[p].at]
LastTable(p) == job[p].at = Len(Plan[source])

\* p's load has begun and has not returned.
Active(p) == job[p].pc \in {"fetch", "truncate", "insert", "record"}
Resting == \A p \in Loaders : ~Active(p)

Set(p, j) == job' = [job EXCEPT ![p] = j]

Fault == faults < MaxFaults /\ faults' = faults + 1

Complete(loads) == Len(loads) = 1 /\ loads[1].whole
Incomplete == \E t \in Tables : ~Complete(rows[t])

\* A load that no check found due, and that leaves a table short, tells nobody.
Abandon(p) ==
    flaw' = IF ~job[p].due /\ Incomplete THEN flaw \cup {"abandoned"} ELSE flaw

\* checkExternalData, checkAirspaceRefresh, the loader phases, the tools.
Start(p) ==
    /\ job[p].pc = "idle"
    /\ p # "poll" => runs < MaxRuns
    /\ runs' = IF p = "poll" THEN runs ELSE runs + 1
    /\ Set(p, [Idle EXCEPT !.pc = "check"])
    /\ UNCHANGED <<source, pub, clock, rows, known, faults, flaw>>

Enter(p, seen, due) ==
    /\ Set(p, [job[p] EXCEPT !.pc = "fetch", !.at = 1, !.seen = seen, !.due = due])
    /\ flaw' = IF \E q \in Loaders \ {p} : Active(q) THEN flaw \cup {"overlap"} ELSE flaw

Skip(p) == Set(p, Idle) /\ UNCHANGED flaw

Abs(x) == IF x < 0 THEN -x ELSE x

\* Mutant of upToDate: the timestamps must be equal.
upToDateExact(remote) == remote = known

\* Mutant of upToDate: a source that was loaded once is up to date.
upToDateOnceLoaded(remote) == known >= 0

\* The known and the reported timestamp differ by no more than the tolerance.
upToDate(remote) == known >= 0 /\ Abs(remote - known) <= Tolerance

young(now) == known >= 0 /\ now - known < Period

Check(p) ==
    /\ job[p].pc = "check"
    /\ \/ p # "poll" /\ Enter(p, -1, FALSE)
       \/ /\ p = "poll" /\ IsStamped
          /\ \E remote \in remoteLastModified :
                IF upToDate(remote) THEN Skip(p) ELSE Enter(p, remote, TRUE)
       \/ /\ p = "poll" /\ ~IsStamped
          /\ IF young(clock) THEN Skip(p) ELSE Enter(p, clock, TRUE)
    /\ UNCHANGED <<source, pub, clock, rows, known, runs, faults>>

\* getExternalDataTimestamp answers -1 to an error of the database, too: what is
\* up to date is loaded once more.
CheckBlind ==
    /\ job["poll"].pc = "check"
    /\ Fault
    /\ \/ /\ IsStamped
          /\ \E remote \in remoteLastModified : upToDate(remote) /\ Enter("poll", remote, FALSE)
       \/ ~IsStamped /\ young(clock) /\ Enter("poll", clock, FALSE)
    /\ UNCHANGED <<source, pub, clock, rows, known, runs>>

\* No Last-Modified: the source is left for the next check.
CheckFails ==
    /\ job["poll"].pc = "check" /\ IsStamped
    /\ Fault
    /\ Skip("poll")
    /\ UNCHANGED <<source, pub, clock, rows, known, runs>>

----------------------------------------------------------------------------
(* AirportsLoader::load and FAAObstacleLoader::load *)

Download(p) ==
    /\ job[p].pc = "fetch" /\ IsStamped
    /\ LET j == [job[p] EXCEPT !.got = Append(@, pub)]
       IN  Set(p, IF LastTable(p) THEN [j EXCEPT !.pc = "truncate", !.at = 1]
                              ELSE [j EXCEPT !.at = @ + 1])
    /\ UNCHANGED <<source, pub, clock, rows, known, runs, faults, flaw>>

\* load returns false before it touches a table; the caller goes on.
DownloadFails(p) ==
    /\ job[p].pc = "fetch" /\ IsStamped
    /\ Fault
    /\ Skip(p)
    /\ UNCHANGED <<source, pub, clock, rows, known, runs>>

\* Mutant of Truncate: the rows of the load before stay.
TruncateNothing(p) ==
    /\ job[p].pc = "truncate" /\ IsStamped
    /\ Set(p, [job[p] EXCEPT !.pc = "insert"])
    /\ UNCHANGED <<source, pub, clock, rows, known, runs, faults, flaw>>

\* TRUNCATE of all tables of the source, committed before the first row.
Truncate(p) ==
    /\ job[p].pc = "truncate" /\ IsStamped
    /\ rows' = [t \in Tables |-> <<>>]
    /\ Set(p, [job[p] EXCEPT !.pc = "insert"])
    /\ UNCHANGED <<source, pub, clock, known, runs, faults, flaw>>

\* The rows of the table come from its file and are committed.
Fill(p) ==
    /\ rows' = [rows EXCEPT ![table(p)] = Append(@, [of |-> job[p].got[job[p].at], whole |-> TRUE])]
    /\ Set(p, IF LastTable(p) THEN [job[p] EXCEPT !.pc = "record"]
                              ELSE [job[p] EXCEPT !.at = @ + 1])
    /\ UNCHANGED <<source, pub, clock, known, runs, faults, flaw>>

\* loadCountries, loadRegions, loadAirports and so on: rows with the keys of
\* the dataset.
InsertKeyed(p) ==
    /\ job[p].pc = "insert" /\ IsStamped
    /\ table(p) \in Keyed /\ rows[table(p)] = <<>>
    /\ Fill(p)

\* The tags, and obstacles under serial keys: rows of another load do not
\* stand in the way.
InsertUnkeyed(p) ==
    /\ job[p].pc = "insert" /\ IsStamped
    /\ table(p) \notin Keyed
    /\ Fill(p)

\* Another load has put these keys there: the COPY fails and load throws.
InsertConflicts(p) ==
    /\ job[p].pc = "insert" /\ table(p) \in Keyed /\ rows[table(p)] # <<>>
    /\ Set(p, Idle)
    /\ Abandon(p)
    /\ UNCHANGED <<source, pub, clock, rows, known, runs, faults>>

----------------------------------------------------------------------------
(* AirspaceLoader: the five sub-loaders, one after the other *)

\* The next sub-loader runs whatever the last one returned.
NextTable(p, result) ==
    LET j == [job[p] EXCEPT !.ok = @ /\ result]
    IN  Set(p, IF LastTable(p) THEN [j EXCEPT !.pc = "record"]
                              ELSE [j EXCEPT !.pc = "fetch", !.at = @ + 1, !.got = <<>>])

\* Download and parse, then create the table; the paginated source is asked
\* only while its rows are inserted.
AirspaceFetch(p) ==
    /\ job[p].pc = "fetch" /\ ~IsStamped
    /\ Set(p, [job[p] EXCEPT !.pc = "truncate", !.got = <<pub>>])
    /\ UNCHANGED <<source, pub, clock, rows, known, runs, faults, flaw>>

AirspaceFetchFails(p) ==
    /\ job[p].pc = "fetch" /\ ~IsStamped /\ table(p) = "class"
    /\ Fault
    /\ NextTable(p, FALSE)
    /\ UNCHANGED <<source, pub, clock, rows, known, runs, flaw>>

AirspaceTruncate(p) ==
    /\ job[p].pc = "truncate" /\ ~IsStamped
    /\ rows' = [rows EXCEPT ![table(p)] = <<>>]
    /\ Set(p, [job[p] EXCEPT !.pc = "insert"])
    /\ UNCHANGED <<source, pub, clock, known, runs, faults, flaw>>

AirspaceInsert(p) ==
    /\ job[p].pc = "insert" /\ ~IsStamped
    /\ rows' = [rows EXCEPT ![table(p)] =
                   Append(@, [of |-> IF table(p) = "class" THEN job[p].got[1] ELSE pub,
                              whole |-> TRUE])]
    /\ NextTable(p, TRUE)
    /\ UNCHANGED <<source, pub, clock, known, runs, faults, flaw>>

\* The document has no features, or the first page fails: the sub-loader
\* returns false, and its table has been truncated.
AirspaceNoFeatures(p) ==
    /\ job[p].pc = "insert" /\ ~IsStamped
    /\ Fault
    /\ NextTable(p, FALSE)
    /\ UNCHANGED <<source, pub, clock, rows, known, runs, flaw>>

\* A later page fails: the pages before it are committed, count > 0 is true.
PagesBreakOff(p) ==
    /\ job[p].pc = "insert" /\ ~IsStamped /\ table(p) = "international"
    /\ Fault
    /\ rows' = [rows EXCEPT !["international"] = Append(@, [of |-> pub, whole |-> FALSE])]
    /\ NextTable(p, TRUE)
    /\ UNCHANGED <<source, pub, clock, known, runs, flaw>>

----------------------------------------------------------------------------
(* The end of a load *)

\* Mutant of Stamps: poll, too, asks for the time after its load.
StampsAfterLoad(p) == IF IsStamped THEN remoteLastModified ELSE {clock}

\* Poll records the time it asked for before the load, the import asks after
\* it (seedExternalDataTimestamp, seedAirspaceTimestamp), a tool records none.
Stamps(p) ==
    CASE p = "poll" -> {job[p].seen}
      [] p = "tool" -> {known}
      [] p = "import" -> IF IsStamped THEN remoteLastModified ELSE {clock}

\* What the record now hides.
Hidden(p) ==
    {f \in {"overlap", "shortPages", "seededLate"} :
        \/ f = "overlap" /\ f \in flaw
        \/ f = "shortPages" /\ ~IsStamped /\ Incomplete
        \/ /\ f = "seededLate" /\ p = "import" /\ IsStamped
           /\ \E i \in 1..Len(job[p].got) : job[p].got[i] < pub}

Record(p) ==
    /\ job[p].pc = "record" /\ job[p].ok
    /\ known' \in Stamps(p)
    /\ flaw' = Hidden(p)
    /\ Set(p, Idle)
    /\ UNCHANGED <<source, pub, clock, rows, runs, faults>>

\* The import gets no Last-Modified after its load: nothing is recorded.
SeedFails ==
    /\ job["import"].pc = "record" /\ job["import"].ok /\ IsStamped
    /\ Fault
    /\ flaw' = Hidden("import") \ {"seededLate"}
    /\ Set("import", Idle)
    /\ UNCHANGED <<source, pub, clock, rows, known, runs>>

\* Mutant of RecordNothing: the result of the sub-loaders is not looked at.
RecordAnyway(p) ==
    /\ job[p].pc = "record" /\ ~job[p].ok
    /\ known' \in Stamps(p)
    /\ Set(p, Idle)
    /\ Abandon(p)
    /\ UNCHANGED <<source, pub, clock, rows, runs, faults>>

\* A sub-loader has returned false: nothing is recorded.
RecordNothing(p) ==
    /\ job[p].pc = "record" /\ ~job[p].ok
    /\ Set(p, Idle)
    /\ Abandon(p)
    /\ UNCHANGED <<source, pub, clock, rows, known, runs, faults>>

\* An exception (a row that cannot be converted, a lost connection) or a
\* crash.  Poll catches the exception and checks again six hours later; the
\* other programs end.
Fail(p) ==
    /\ Active(p)
    /\ Fault
    /\ Set(p, Idle)
    /\ Abandon(p)
    /\ UNCHANGED <<source, pub, clock, rows, known, runs>>

LoadStep(p) ==
    \/ Start(p) \/ Check(p) \/ Download(p) \/ Truncate(p)
    \/ InsertKeyed(p) \/ InsertUnkeyed(p) \/ InsertConflicts(p)
    \/ AirspaceFetch(p) \/ AirspaceTruncate(p) \/ AirspaceInsert(p)
    \/ Record(p) \/ RecordNothing(p)

LoadFault(p) ==
    \/ DownloadFails(p) \/ AirspaceFetchFails(p) \/ AirspaceNoFeatures(p)
    \/ PagesBreakOff(p) \/ Fail(p)

ExternalNext ==
    \/ Publish
    \/ Tick
    \/ CheckBlind
    \/ CheckFails
    \/ SeedFails
    \/ \E p \in Loaders : LoadStep(p) \/ LoadFault(p)

ExternalSpec == ExternalInit /\ [][ExternalNext]_tvars

\* Poll mode runs for ever: its loop comes back to the checks every six hours.
\* A load started by hand runs to its end.
ExternalFairness ==
    /\ WF_tvars(LoadStep("poll"))
    /\ \A p \in Loaders \ {"poll"} : WF_tvars(job[p].pc # "idle" /\ LoadStep(p))

----------------------------------------------------------------------------
(* Properties *)

Due ==
    IF IsStamped THEN \A remote \in remoteLastModified : ~upToDate(remote) ELSE ~young(clock)

Outdated == \E t \in Tables : \E i \in 1..Len(rows[t]) : rows[t][i].of < pub

ExternalTypeOK ==
    /\ source \in Sources /\ pub \in 0..MaxPubs /\ clock \in 0..MaxTime
    /\ \A t \in Tables : \A i \in 1..Len(rows[t]) : rows[t][i] \in [of : 0..MaxPubs, whole : BOOLEAN]
    /\ known \in -1..(Gap * MaxPubs + Jitter + MaxTime)
    /\ \A p \in Loaders : job[p].at \in 0..2 /\ Len(job[p].got) <= 2
    /\ runs \in 0..MaxRuns /\ faults \in 0..MaxFaults
    /\ flaw \subseteq {"overlap", "abandoned", "shortPages", "seededLate"}

\* A load that fails half way (the truncation committed, the rows not) leaves
\* external_data_state such that the next check reloads the source.  Not so
\* when a load by hand failed, or one that poll began only because it could not
\* read the time of the last; when two loads of the source overlapped; or when
\* OpenAIP stopped answering between two pages.
IncompleteIsDue == Resting /\ flaw = {} /\ Incomplete => Due

\* Rows older than the publication on the server are reloaded by the next
\* check, even when the update came between the check, the six downloads and
\* the record.  Not so when the import asked for the time after its load.
StaleIsDue == Resting /\ flaw = {} /\ IsStamped /\ Outdated => Due

\* No table holds a load twice unless two loads of its source overlapped.
NoDoubledRows == "overlap" \notin flaw => \A t \in Tables : Len(rows[t]) <= 1

\* The jitter of Last-Modified alone never makes poll truncate and reload: when
\* nothing new is published it does so only if the database fails to say what
\* has been loaded.
NoSpuriousReload ==
    [][IsStamped /\ job["poll"].pc = "check" /\ job'["poll"].pc = "fetch"
          => known \notin remoteLastModified \/ faults' > faults]_tvars

\* Once publications and faults end, the tables are complete and those of a
\* source with a Last-Modified are current, whatever happened before.
EventuallyFresh == <>[](flaw # {} \/ (~Incomplete /\ (IsStamped => ~Outdated)))
=============================================================================
