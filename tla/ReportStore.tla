---------------------------- MODULE ReportStore ----------------------------
(* The one current report (report-store.ts) and the routes that save, check *)
(* again and export it.  Verification is awaited: the store is read before  *)
(* it and written after it, and nothing keeps two calls apart.  A report is *)
(* the number of the save that wrote it, and so is the window it covers.    *)
EXTENDS Integers

CONSTANTS MaxSaves,     \* bound: write_report calls and POST /internal/report
          Checks,       \* recheck and export requests
          None

ReportAssumption == MaxSaves \in Nat /\ None \notin 1..MaxSaves

VARIABLES report,   \* html, what its result was computed from, and the window
          started,  \* saves begun
          saving,   \* saves that wait for their verification
          phase, window, html,      \* per check: where it is and what it read
          latest,   \* the save that returned last (history)
          overtaken,\* checks a save has overtaken (history)
          mixed     \* the last write was by an overtaken check (history)

checkVars == <<phase, window, html>>
reportVars == <<report, started, saving, checkVars, latest, overtaken, mixed>>

Saves == 1..MaxSaves

ReportInit ==
    /\ report = [html |-> None, result |-> None, window |-> None]
    /\ started = 0 /\ saving = {}
    /\ phase = [c \in Checks |-> "idle"]
    /\ window = [c \in Checks |-> None] /\ html = [c \in Checks |-> None]
    /\ latest = None /\ overtaken = {} /\ mixed = FALSE

SaveBegins ==   \* saveReport(): the window is chosen, verifyReport() awaited
    /\ started < MaxSaves
    /\ started' = started + 1
    /\ saving' = saving \cup {started + 1}
    /\ UNCHANGED <<report, checkVars, latest, overtaken, mixed>>

SaveEndsUnverified(n) ==    \* the result is left to the next check
    /\ n \in saving
    /\ saving' = saving \ {n}
    /\ report' = [report EXCEPT !.html = n, !.window = n]
    /\ latest' = n
    /\ overtaken' = {c \in Checks : phase[c] # "idle"}
    /\ mixed' = FALSE
    /\ UNCHANGED <<started, checkVars>>

SaveEnds(n) ==  \* the report is replaced, whatever was begun after it
    /\ n \in saving
    /\ saving' = saving \ {n}
    /\ report' = [html |-> n, result |-> n, window |-> n]
    /\ latest' = n
    /\ overtaken' = {c \in Checks : phase[c] # "idle"}
    /\ mixed' = FALSE
    /\ UNCHANGED <<started, checkVars>>

SaveFails(n) ==     \* verifyReport() throws: nothing is stored
    /\ n \in saving
    /\ saving' = saving \ {n}
    /\ UNCHANGED <<report, started, checkVars, latest, overtaken, mixed>>

CheckBegins(c) ==   \* the route reads the report to find its window
    /\ phase[c] = "idle" /\ report.html # None
    /\ phase' = [phase EXCEPT ![c] = "scoping"]
    /\ window' = [window EXCEPT ![c] = report.window]
    /\ UNCHANGED <<report, started, saving, html, latest, overtaken, mixed>>

CheckReads(c) ==    \* recheck() reads the html it will verify
    /\ phase[c] = "scoping"
    /\ phase' = [phase EXCEPT ![c] = "verifying"]
    /\ html' = [html EXCEPT ![c] = report.html]
    /\ UNCHANGED <<report, started, saving, window, latest, overtaken, mixed>>

Over(c) == /\ phase' = [phase EXCEPT ![c] = "idle"]
           /\ window' = [window EXCEPT ![c] = None]
           /\ html' = [html EXCEPT ![c] = None]
           /\ overtaken' = overtaken \ {c}
           /\ UNCHANGED <<started, saving, latest>>

(* { ...this.report, checkedAt, result }: the html of now, the result of    *)
(* what was read, within the window of what was read before that.           *)
Rechecked(c) == [report EXCEPT !.result = html[c], !.window = window[c]]

CheckEnds(c) ==
    /\ phase[c] = "verifying"
    /\ report' = Rechecked(c)
    /\ mixed' = (c \in overtaken)
    /\ Over(c)

CheckFails(c) ==    \* no window any more, or verifyReport() throws
    /\ phase[c] # "idle"
    /\ Over(c)
    /\ UNCHANGED <<report, mixed>>

ReportNext ==
    \/ SaveBegins
    \/ \E n \in Saves : SaveEnds(n) \/ SaveFails(n)
    \/ \E c \in Checks : CheckBegins(c) \/ CheckReads(c) \/ CheckEnds(c) \/ CheckFails(c)

ReportSpec == ReportInit /\ [][ReportNext]_reportVars

----------------------------------------------------------------------------
Versions == Saves \cup {None}

ReportTypeOK ==
    /\ report \in [html : Versions, result : Versions, window : Versions]
    /\ started \in 0..MaxSaves /\ saving \subseteq Saves
    /\ phase \in [Checks -> {"idle", "scoping", "verifying"}]
    /\ window \in [Checks -> Versions] /\ html \in [Checks -> Versions]
    /\ \A c \in Checks : phase[c] = "verifying" => html[c] # None
    /\ latest \in Versions /\ overtaken \subseteq Checks /\ mixed \in BOOLEAN

(* However saves and checks overlap, the html in the store is that of the   *)
(* save that returned last: a check that began before never brings an older *)
(* report back.                                                             *)
TheLastSaveStays == report.html = latest

(* The stored result is that of the stored report unless a save overtook    *)
(* the check that wrote it; the next check nobody overtakes repairs it.     *)
MixedOnlyByOvertaking == ~mixed => report.result = report.html

(* What the store shows is one report, and nobody's overtaken result stays  *)
(* unnoticed: the two above together.                                       *)
ReportIsSound == TheLastSaveStays /\ MixedOnlyByOvertaking

(* Two statements that do not hold.  The export is "scoped to the reporting *)
(* window" (http.ts), but the window a mixed write left is what the next    *)
(* check reads and stores again, whoever overtakes whom.                    *)
WindowIsItsOwn == ~mixed => report.window = report.html

(* "getReport() returns exactly what was last checked" (report-store.ts):   *)
(* the result the store shows belongs to the report it holds.               *)
ResultIsOfTheReport == report.result = report.html
=============================================================================
