------------------------------ MODULE LncLog ------------------------------
(***************************************************************************)
(* The day logs of the LNC (lnc_app.c log_measurement, store_sd.c,         *)
(* logplan.c): the Monitor task names a file by the clock and appends to   *)
(* it; before a new file is opened, the one with the smallest name goes.   *)
(* The clock is the RTC, which the Comm task sets on command and every     *)
(* reset sets to 2000-01-01 (main.c MX_RTC_Init).                          *)
(*                                                                         *)
(* A file is known by its day, and days compare as the names YYYYMMDD.TXT  *)
(* do.  The lines in a file are left out: a file goes as a whole.  What    *)
(* the order of the directory entries is, FatFs decides; the listing takes *)
(* the first Keep + 1 of them.                                             *)
(*                                                                         *)
(* Beside some definitions stands a variant with a plausible fault, named  *)
(* for the fault; nothing uses it, and the properties reject it.           *)
(***************************************************************************)
EXTENDS Naturals, FiniteSets

CONSTANTS
    Keep,       \* LNC_MAX_LOG_DAYS (7)
    LastDay,    \* the days of the run are 0 .. LastDay
    Faults      \* what may go wrong: see AllFaults

ASSUME KeepAssumption == Keep \in Nat \ {0} /\ LastDay \in Nat

\* no card; f_opendir or f_readdir fails; f_unlink fails; f_open or f_write
\* of the append fails; a reset; the operator or the Central sets the clock back
AllFaults == {"card", "list", "unlink", "append", "reset", "clock"}

ASSUME FaultsAssumption == Faults \subseteq AllFaults

Days  == 0 .. LastDay
Epoch == 0                  \* 2000-01-01; the days in use are later ones

VARIABLES
    pc,         \* the Monitor task's place in the log path
    logging,    \* s_logging, and s_mounted with it
    today,      \* the day the RTC shows
    fname,      \* the file the measurement in hand goes to
    files,      \* the day logs on the card
    used,       \* history: days whose file was made
    trouble     \* history: the faults that happened

vars == <<pc, logging, today, fname, files, used, trouble>>

Init ==
    /\ pc = "mount"
    /\ logging = FALSE
    /\ today = Epoch
    /\ fname = Epoch
    /\ files = {}
    /\ used = {}
    /\ trouble = {}

May(f)     == f \in Faults
Befalls(f) == May(f) /\ trouble' = trouble \cup {f}

----------------------------------------------------------------------------
(* Monitor task *)

\* store_init
Mount ==
    /\ pc = "mount"
    /\ \/ logging' = TRUE /\ UNCHANGED trouble
       \/ logging' = FALSE /\ Befalls("card")
    /\ pc' = "name"
    /\ UNCHANGED <<today, fname, files, used>>

\* log_measurement: nothing without a card, otherwise the file's name
Name ==
    /\ pc = "name"
    /\ logging
    /\ fname' = today
    /\ pc' = "evict"
    /\ UNCHANGED <<logging, today, files, used, trouble>>

\* list_day_logs takes at most Keep + 1 names
Listings ==
    IF Cardinality(files) <= Keep + 1
    THEN {files}
    ELSE { L \in SUBSET files : Cardinality(L) = Keep + 1 }

PartialListings == { L \in SUBSET files : Cardinality(L) <= Keep + 1 }

FullWithoutTodayCheck(L) == Cardinality(L) >= Keep
FullLate(L)              == fname \notin L /\ Cardinality(L) > Keep

\* logplan_evict: a new file is about to be opened and there are enough
Full(L) == fname \notin L /\ Cardinality(L) >= Keep

EvictListedNewest(L) == \E d \in L : (\A e \in L : e <= d) /\ files' = files \ {d}

\* f_unlink of the smallest name listed
EvictListed(L) == \E d \in L : (\A e \in L : d <= e) /\ files' = files \ {d}

\* store_log_write as far as f_unlink, whose result is ignored
Evict ==
    /\ pc = "evict"
    /\ \/ \E L \in Listings :
            \/ ~Full(L) /\ UNCHANGED <<files, trouble>>
            \/ Full(L) /\ EvictListed(L) /\ UNCHANGED trouble
            \/ Full(L) /\ UNCHANGED files /\ Befalls("unlink")
       \/ \E L \in PartialListings :
            /\ Befalls("list")
            /\ IF Full(L) THEN EvictListed(L) ELSE UNCHANGED files
    /\ pc' = "append"
    /\ UNCHANGED <<logging, today, fname, used>>

\* f_open in append_line makes the file if it is not there.
Made == files' = files \cup {fname} /\ used' = used \cup {fname}

\* append_line, whose result is ignored too: f_open fails, or f_write does and
\* a new file stays empty
Append ==
    /\ pc = "append"
    /\ \/ Made /\ UNCHANGED trouble
       \/ Made /\ Befalls("append")
       \/ UNCHANGED <<files, used>> /\ Befalls("append")
    /\ pc' = "name"
    /\ UNCHANGED <<logging, today, fname>>

----------------------------------------------------------------------------
(* The clock, and resets *)

\* The RTC shows day d from now on.  A day before one whose file was made, or
\* that was shown already, is a clock set back.
Show(d) ==
    /\ today' = d
    /\ IF \A u \in used \cup {today} : u <= d THEN UNCHANGED trouble ELSE Befalls("clock")
    /\ UNCHANGED <<pc, logging, fname, files, used>>

Midnight == today < LastDay /\ Show(today + 1)

SetClockUnchecked == \E d \in 0 .. LastDay + 1 : Show(d)

\* rtc_set: the Comm task, at any moment of the Monitor task
SetClock == \E d \in Days : Show(d)

\* power-up, reset button or watchdog; RAM is lost and the clock starts again.
\* A file that append_line has just made stays, without its first line.
Reset ==
    /\ Befalls("reset")
    /\ UNCHANGED <<files, used>> \/ (pc = "append" /\ Made)
    /\ pc' = "mount"
    /\ logging' = FALSE
    /\ today' = Epoch
    /\ fname' = Epoch

Next == Mount \/ Name \/ Evict \/ Append \/ Midnight \/ SetClock \/ Reset

Spec == Init /\ [][Next]_vars

----------------------------------------------------------------------------
(* Properties *)

TypeOK ==
    /\ pc \in {"mount", "name", "evict", "append"}
    /\ logging \in BOOLEAN
    /\ today \in Days
    /\ fname \in Days
    /\ files \in SUBSET Days
    /\ used \in SUBSET Days
    /\ trouble \in SUBSET AllFaults

Without(fs) == trouble \cap fs = {}

\* "It keeps at most 7 files": whatever happens to the clock and wherever a
\* reset falls, there are never more than Keep day logs, unless a listing or an
\* unlink failed.
AtMostKeep == Without({"list", "unlink"}) => Cardinality(files) <= Keep

Later(d) == { u \in used : u > d }

\* The last Keep days whose file was made are on the card, as long as nothing
\* failed and the clock never went back.  (Between unlink and append of a new
\* day the card is one short; the Monitor task holds StoreMutex there.)
WeekKept ==
    trouble \subseteq {"card"} /\ pc # "append" =>
        \A d \in used : Cardinality(Later(d)) < Keep => d \in files

\* Resets, a clock set back, failed unlinks and failed appends together cost at
\* most one of these days, at any moment and however many there are: what is
\* evicted has the smallest name, so all files that stay are of later days, the
\* bogus file of 2000-01-01 being the first to go.  (A reset or a failed append
\* may leave a file without a line; it takes the place of a day all the same.)
ResetCostsADay ==
    Without({"list"}) =>
        \A d \in used : Cardinality(Later(d)) < Keep - 1 => d \in files

\* The file that the measurement in hand belongs to is never evicted, even if
\* the clock was set back and it has the smallest name, or if failed unlinks
\* have left more files than the listing takes.
NeverEvictsOwnFile == [][\A d \in files \ files' : d # fname]_vars
=============================================================================
