-------------------------- MODULE CentralDatabase --------------------------
(***************************************************************************)
(* The database of the Central Computer (central/src/Database.cpp) and its *)
(* two CSV files, as the interactive program uses them (main.cpp): every   *)
(* session begins with an empty database, keeps a week of what it hears,   *)
(* and writes both files, from their start, when the operator says so.     *)
(*                                                                         *)
(* A record is its time stamp; the time stamps are the board's and come in *)
(* any order.  A file is the lines in it, since a last line cut short does *)
(* not parse unless only its end mark is missing.                          *)
(*                                                                         *)
(* Beside some definitions stands a variant with a plausible fault, named  *)
(* for the fault; nothing uses it, and the properties reject it.           *)
(***************************************************************************)
EXTENDS Naturals, Sequences, SequencesExt, FiniteSetsExt

CONSTANTS
    WEEK_SECONDS,
    Times,          \* time stamps of the records
    Budgets         \* the bounds of a run, of which it has one: how many
                    \* records, saves, server starts and requests happen

ASSUME DatabaseAssumption ==
    /\ WEEK_SECONDS \in Nat /\ Times \subseteq Nat
    /\ Budgets \subseteq [adds : Nat, saves : Nat, starts : Nat, asks : Nat]

Lists == {"meas", "events"}

Empty == [l \in Lists |-> <<>>]

VARIABLES
    db,             \* meas_ and events_
    disk,           \* measurements.csv and events.csv
    saving,         \* where saveCsv is
    heard,          \* history: everything the session was given
    saved,          \* history: the database the last complete save wrote,
    intact,         \*   and whether the files have been left alone since
    left            \* what is left of the bounds

dbVars == <<db, disk, saving, heard, saved, intact>>

Use(what) == left[what] > 0 /\ left' = [left EXCEPT ![what] = @ - 1]

----------------------------------------------------------------------------
\* the events left out
LatestOfMeas(d) == Max({0} \cup ToSet(d["meas"]))

\* latestTs
LatestTs(d) == Max({0} \cup ToSet(d["meas"]) \cup ToSet(d["events"]))

\* the rows with a time stamp among these, in the order they are in
Only(rows, stamps) ==
    LET only[n \in 0 .. Len(rows)] ==
            IF n = 0 THEN <<>>
            ELSE IF rows[n] \in stamps THEN Append(only[n - 1], rows[n]) ELSE only[n - 1]
    IN  only[Len(rows)]

\* Database::prune
Prune(d) ==
    LET latest == LatestTs(d)
        cutoff == latest - WEEK_SECONDS
    IN  IF latest <= WEEK_SECONDS THEN d
        ELSE [l \in Lists |-> Only(d[l], { ts \in Times : ts >= cutoff })]

\* measurementsInRange, eventsInRange
InRange(rows, from, to) == Only(rows, from .. to)

----------------------------------------------------------------------------
DbInit ==
    /\ db = Empty /\ disk = Empty
    /\ saving = "no"
    /\ heard = Empty
    /\ saved = Empty /\ intact = TRUE
    /\ left \in Budgets

\* addMeasurement, addEvent, called while the program polls the line
Add ==
    /\ saving = "no"
    /\ Use("adds")
    /\ \E l \in Lists, ts \in Times :
           /\ db' = Prune([db EXCEPT ![l] = Append(@, ts)])
           /\ heard' = [heard EXCEPT ![l] = Append(@, ts)]
    /\ UNCHANGED <<disk, saving, saved, intact>>

\* saveCsv: opening a file empties it
SaveOpenMeas ==
    /\ saving = "no"
    /\ Use("saves")
    /\ saving' = "meas"
    /\ disk' = [disk EXCEPT !["meas"] = <<>>]
    /\ intact' = FALSE
    /\ UNCHANGED <<db, heard, saved>>

\* A file is closed: the rest of the lines is written, unless a write failed,
\* now or earlier, which saveCsv does not look at.
Close(l) == disk' = [disk EXCEPT ![l] = db[l]] \/ disk' = disk

\* events.csv cannot be opened: saveCsv returns and measurements.csv is closed
SaveFails ==
    /\ saving = "meas"
    /\ saving' = "no"
    /\ Close("meas")
    /\ UNCHANGED <<db, heard, saved, intact, left>>

SaveOpenEvents ==
    /\ saving = "meas"
    /\ saving' = "events"
    /\ disk' = [disk EXCEPT !["events"] = <<>>]
    /\ UNCHANGED <<db, heard, saved, intact, left>>

\* The stream writes when its buffer is full: more of the lines are there.
SaveWrite(l) ==
    /\ saving = l
    /\ \E n \in Len(disk[l]) + 1 .. Len(db[l]) : disk' = [disk EXCEPT ![l] = SubSeq(db[l], 1, n)]
    /\ UNCHANGED <<db, saving, heard, saved, intact, left>>

\* The streams are closed in the reverse order of their opening.
SaveCloseEvents ==
    /\ saving = "events"
    /\ saving' = "close"
    /\ Close("events")
    /\ UNCHANGED <<db, heard, saved, intact, left>>

SaveCloseMeas ==
    /\ saving = "close"
    /\ saving' = "no"
    /\ Close("meas")
    /\ intact' = (disk' = db)
    /\ saved' = IF disk' = db THEN db ELSE saved
    /\ UNCHANGED <<db, heard, left>>

\* The program ends, at its menu or in the middle of a save, and is started
\* again; it does not read the files.
NewSession ==
    /\ heard # Empty
    /\ db' = Empty /\ heard' = Empty
    /\ saving' = "no"
    /\ UNCHANGED <<disk, saved, intact, left>>

DbNext ==
    \/ Add \/ NewSession
    \/ SaveOpenMeas \/ SaveFails \/ SaveOpenEvents
    \/ \E l \in Lists : SaveWrite(l)
    \/ SaveCloseEvents \/ SaveCloseMeas

----------------------------------------------------------------------------
(* Properties *)

DbTypeOK ==
    /\ db \in [Lists -> Seq(Times)] /\ disk \in [Lists -> Seq(Times)]
    /\ saving \in {"no", "meas", "events", "close"}
    /\ heard \in [Lists -> Seq(Times)] /\ saved \in [Lists -> Seq(Times)]
    /\ intact \in BOOLEAN
    /\ left \in [{"adds", "saves", "starts", "asks"} -> Nat]

\* The database is the last week of what the session was given, in order,
\* although it looks only at what it has kept: a record from the future takes
\* everything a week older with it, and what comes late enough never enters.
DbIsWindow ==
    LET times == ToSet(heard["meas"]) \cup ToSet(heard["events"])
        window == { ts \in Times : \A u \in times : u <= ts + WEEK_SECONDS }
    IN  \A l \in Lists : db[l] = Only(heard[l], window)
=============================================================================
