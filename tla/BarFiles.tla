------------------------------ MODULE BarFiles ------------------------------
(***************************************************************************)
(* The 1m bars on disk and the two processes that write them: the server,  *)
(* which flushes what its feed brought, and `python -m                     *)
(* wavelab.store.hydrate', which downloads the archive.  One file a month; *)
(* BarStore.ingest reads it, adds what is new and replaces it.             *)
(*                                                                         *)
(* Time and rows are counted in days, the unit of the daily archive; a row *)
(* is its day.  The values of rows are the subject of FeedPipeline.        *)
(***************************************************************************)
EXTENDS Integers, FiniteSetsExt

CONSTANTS NMonths,     \* bound: months of the model
          MonthLen,    \* days in a month
          Concurrency, \* downloads at a time
          QuickSpan,   \* months that --quick goes back
          Holes,       \* the sets of days the archive may lack
          MaxRuns,     \* bound: runs of the hydration
          MaxFaults    \* bound: failed downloads, failed writes, deaths of the server

ASSUME FilesAssumption ==
  /\ {NMonths, MonthLen, Concurrency} \subseteq Nat \ {0}
  /\ {QuickSpan, MaxRuns, MaxFaults} \subseteq Nat

VARIABLES now,        \* today
          published,  \* months of the monthly archive
          holes,      \* days its files lack
          file,       \* the rows of each month's file; none: no file
          half,       \* months whose file is half of one
          tmp,        \* the temporary files: empty, half written or written
          w,          \* for each process, the ingest in progress
          srv,        \* the server: off, on, or inside _flush
          last,       \* the last day its engine has
          h,          \* the hydration
          runs,       \* hydrations started
          faults,     \* failures so far
          acked,      \* rows an ingest that returned has written
          overlapped, \* months two processes were inside of at once
          blind       \* the server started on an empty store

world == <<now, published, holes>>
disk == <<file, half, tmp, w, acked, overlapped>>
server == <<srv, last, blind>>
hydration == <<h, runs>>
vars == <<world, disk, server, hydration, faults>>

Day == 0..(NMonths * MonthLen - 1)
Month == 0..(NMonths - 1)
MonthOf(d) == d \div MonthLen
DaysOf(m) == {d \in Day : MonthOf(d) = m}
Writers == {"server", "hydrate"}

Stored == UNION {file[m] : m \in Month}

(* months(): the files there are. *)
StoredMonths == {m \in Month : file[m] # {}}

NoFile == [state |-> "none", rows |-> {}]
NoIngest == [at |-> "next", todo |-> {}, base |-> {}]
NoRun == [at |-> "idle", pending |-> {}, days |-> {}, listed |-> {}, kept |-> {}]

Init ==
  /\ now = MonthLen /\ published = {} /\ holes \in Holes
  /\ file = [m \in Month |-> {}] /\ half = {}
  /\ tmp = [p \in Writers |-> NoFile]
  /\ w = [p \in Writers |-> NoIngest]
  /\ srv = "off" /\ last = -1 /\ blind = FALSE
  /\ h = NoRun /\ runs = 0 /\ faults = 0
  /\ acked = {} /\ overlapped = {}

Fault == faults < MaxFaults /\ faults' = faults + 1

Tick ==
  /\ now + 1 \in Day /\ now' = now + 1
  /\ UNCHANGED <<published, holes, disk, server, hydration, faults>>

(* A month appears in the archive some time after its end. *)
Publish ==
  /\ \E m \in Month : /\ m < MonthOf(now) /\ m \notin published
                      /\ published' = published \cup {m}
  /\ UNCHANGED <<now, holes, disk, server, hydration, faults>>

-----------------------------------------------------------------------------
(***************************************************************************)
(* BarStore.ingest.                                                        *)
(***************************************************************************)
(* ingest(rows), and the rows of it still to be written. *)
Begin(p, rows) == w' = [w EXCEPT ![p] = [NoIngest EXCEPT !.todo = rows]]
Done(p) == w[p].todo = {}

(* groupby: one chunk a month, in order. *)
Chunk(p) ==
  LET k == MonthOf(Min(w[p].todo))
  IN [month |-> k, rows |-> w[p].todo \cap DaysOf(k)]
Others(p) == w[p].todo \ Chunk(p).rows
Inside(p) == IF w[p].at = "next" THEN {} ELSE {Chunk(p).month}

(* Mutant: one name for the temporary file, whoever writes it. *)
TmpFixed(p) == "server"

(* The name carries the pid. *)
Tmp(p) == p

(* Mutant: the file is read only to count duplicates. *)
MergedFresh(p) == Chunk(p).rows \ w[p].base

(* existing and fresh *)
Merged(p) == w[p].base \cup Chunk(p).rows

(* Reads the month's file, if there is one, and skips a chunk it has. *)
IngestReads(p) ==
  LET k == Chunk(p).month IN
  /\ ~Done(p) /\ w[p].at = "next"
  /\ IF file[k] # {} /\ Chunk(p).rows \subseteq file[k]
     THEN /\ w' = [w EXCEPT ![p].todo = Others(p)]
          /\ UNCHANGED overlapped
     ELSE /\ w' = [w EXCEPT ![p].at = "open", ![p].base = file[k]]
          /\ overlapped' = IF \E q \in Writers \ {p} : k \in Inside(q)
                           THEN overlapped \cup {k} ELSE overlapped
  /\ UNCHANGED <<file, half, tmp, acked>>

IngestOpens(p) ==
  /\ w[p].at = "open"
  /\ tmp' = [tmp EXCEPT ![Tmp(p)] = [state |-> "half", rows |-> {}]]
  /\ w' = [w EXCEPT ![p].at = "fill"]
  /\ UNCHANGED <<file, half, acked, overlapped>>

IngestFills(p) ==
  /\ w[p].at = "fill"
  /\ tmp' = [tmp EXCEPT ![Tmp(p)] = [state |-> "whole", rows |-> Merged(p)]]
  /\ w' = [w EXCEPT ![p].at = "replace"]
  /\ UNCHANGED <<file, half, acked, overlapped>>

IngestReplaces(p) ==
  LET k == Chunk(p).month
      t == tmp[Tmp(p)] IN
  /\ w[p].at = "replace" /\ t.state # "none"
  /\ file' = [file EXCEPT ![k] = t.rows]
  /\ half' = IF t.state = "half" THEN half \cup {k} ELSE half \ {k}
  /\ tmp' = [tmp EXCEPT ![Tmp(p)] = NoFile]
  /\ acked' = acked \cup Chunk(p).rows
  /\ w' = [w EXCEPT ![p] = [NoIngest EXCEPT !.todo = Others(p)]]
  /\ UNCHANGED overlapped

Ingest(p) == /\ IngestReads(p) \/ IngestOpens(p) \/ IngestFills(p) \/ IngestReplaces(p)
             /\ UNCHANGED <<world, server, hydration, faults>>

(* Reading, writing or renaming raises; the finally removes the .tmp. *)
IngestRaises(p) ==
  /\ ~Done(p) /\ Fault
  /\ w' = [w EXCEPT ![p] = NoIngest]
  /\ tmp' = [tmp EXCEPT ![Tmp(p)] = NoFile]
  /\ UNCHANGED <<file, half, acked, overlapped>>

-----------------------------------------------------------------------------
(***************************************************************************)
(* The server, as far as the files are concerned (server/app.py).          *)
(***************************************************************************)
(* warmup() reads every month; the first message heals from the last bar,
   or from nowhere if there is none. *)
ServerStarts ==
  /\ srv = "off"
  /\ srv' = "on" /\ blind' = (blind \/ Stored = {})
  /\ last' = IF Stored = {} THEN now - 1 ELSE Max(Stored)
  /\ UNCHANGED <<world, disk, hydration, faults>>

(* _flush: what the feed brought since the last one. *)
ServerFlushes ==
  /\ srv = "on" /\ last < now - 1
  /\ srv' = "flushing"
  /\ Begin("server", (last + 1)..(now - 1))
  /\ UNCHANGED <<world, file, half, tmp, acked, overlapped, last, blind, hydration, faults>>

(* _pending is cleared when ingest has returned. *)
ServerFlushed ==
  /\ srv = "flushing" /\ Done("server")
  /\ srv' = "on" /\ last' = Max({last} \cup acked)
  /\ UNCHANGED <<world, disk, blind, hydration, faults>>

(* The pending bars stay for the next flush. *)
ServerRaises ==
  /\ srv = "flushing" /\ IngestRaises("server")
  /\ srv' = "on"
  /\ UNCHANGED <<world, last, blind, hydration>>

ServerDies ==
  /\ srv # "off" /\ Fault
  /\ srv' = "off"
  /\ w' = [w EXCEPT !["server"] = NoIngest]
  /\ tmp' = [tmp EXCEPT !["server"] = NoFile]
  /\ UNCHANGED <<world, file, half, acked, overlapped, last, blind, hydration>>

-----------------------------------------------------------------------------
(***************************************************************************)
(* The hydration (store/hydrate.py).                                       *)
(***************************************************************************)
(* Mutant: only the months that are not stored. *)
WantedMissing(m, already) == m \notin already

(* A month not stored, or the newest stored one. *)
Wanted(m, already) == m \notin already \/ m = Max(already)

(* The months published, since the cutoff with --quick (with none of either it
   ends here); those of them that are to be downloaded. *)
HydrateLists ==
  /\ h.at = "idle" /\ runs < MaxRuns
  /\ \E from \in {0, Max({0, MonthOf(now) - QuickSpan})} :
       LET listed == {m \in published : m >= from}
           pending == {m \in listed : Wanted(m, StoredMonths)}
       IN /\ listed # {}
          /\ h' = [at |-> "months", pending |-> pending, days |-> {},
                   listed |-> listed, kept |-> {m \in StoredMonths : m # Max(StoredMonths)}]
  /\ runs' = runs + 1
  /\ UNCHANGED <<world, disk, server, faults>>

(* The first of them that are left, in the order of the archive. *)
Batch == {m \in h.pending : Cardinality({x \in h.pending : x < m}) < Concurrency}

(* gather over a batch; what it brought is ingested month by month. *)
HydrateDownloads ==
  /\ h.at = "months" /\ h.pending # {} /\ Done("hydrate")
  /\ Begin("hydrate", UNION {DaysOf(m) \ holes : m \in Batch})
  /\ h' = [h EXCEPT !.pending = @ \ Batch]
  /\ UNCHANGED <<world, file, half, tmp, acked, overlapped, server, runs, faults>>

(* The days of this month that are over; on the first, yesterday. *)
DaysWanted ==
  LET days == {d \in DaysOf(MonthOf(now)) : d < now}
  IN IF days = {} THEN {now - 1} ELSE days

(* gather over the daily files. *)
HydrateDays ==
  /\ h.at = "months" /\ h.pending = {} /\ Done("hydrate")
  /\ h' = [h EXCEPT !.at = "days", !.days = DaysWanted]
  /\ UNCHANGED <<world, disk, server, runs, faults>>

(* They are ingested one by one.  A file the archive lacks is passed over,
   and so is yesterday's while it is not there yet. *)
HydrateDay ==
  LET d == Min(h.days) IN
  /\ h.at = "days" /\ h.days # {} /\ Done("hydrate")
  /\ \/ d \notin holes /\ Begin("hydrate", {d})
     \/ d \in holes \cup {Max(h.days)} /\ UNCHANGED w
  /\ h' = [h EXCEPT !.days = @ \ {d}]
  /\ UNCHANGED <<world, file, half, tmp, acked, overlapped, server, runs, faults>>

(* Coverage is printed. *)
HydrateReports ==
  /\ h.at = "days" /\ h.days = {} /\ Done("hydrate")
  /\ h' = [h EXCEPT !.at = "report"]
  /\ UNCHANGED <<world, disk, server, runs, faults>>

HydrateExits ==
  /\ h.at = "report"
  /\ h' = NoRun
  /\ UNCHANGED <<world, disk, server, runs, faults>>

(* A download fails or does not match its checksum: the process ends.  What
   it ingested stays. *)
HydrateFails ==
  /\ h.at \in {"months", "days"} /\ Done("hydrate") /\ Fault
  /\ h' = NoRun
  /\ UNCHANGED <<world, disk, server, runs>>

HydrateRaises ==
  /\ h.at \in {"months", "days"} /\ IngestRaises("hydrate")
  /\ h' = NoRun
  /\ UNCHANGED <<world, server, runs>>

-----------------------------------------------------------------------------
Next ==
  \/ Tick \/ Publish
  \/ \E p \in Writers : Ingest(p)
  \/ ServerStarts \/ ServerFlushes \/ ServerFlushed \/ ServerRaises \/ ServerDies
  \/ HydrateLists \/ HydrateDownloads \/ HydrateDays \/ HydrateDay \/ HydrateReports
  \/ HydrateExits \/ HydrateFails \/ HydrateRaises

Spec == Init /\ [][Next]_vars

-----------------------------------------------------------------------------
(***************************************************************************)
(* Properties.                                                             *)
(***************************************************************************)
(* However the two processes interleave and fail, what stands under a
   month's name is never half of a file (bars.py:53-54, 127-140). *)
NoHalfFile == half = {}

(* A row an ingest returned with is on disk, whatever failed since, unless
   the two processes were inside the same month at once (bars.py:133). *)
OnlyOverlapLoses ==
  \A d \in acked : d \in file[MonthOf(d)] \/ MonthOf(d) \in overlapped

(* read() over everything, on the whole grid: from the first row to the last. *)
Grid == IF Stored = {} THEN {} ELSE Min(Stored)..Max(Stored)
Missing == Grid \ Stored

(* What is missing when the hydration reports: days the archive lacks, a
   month that was stored already and is no longer the newest, a month whose
   monthly file is not out yet, months before the cutoff, rows lost to an
   overlap, and what went by before a server that found nothing. *)
MissingIsExplained ==
  h.at = "report" =>
    \A d \in Missing :
      \/ d \in holes
      \/ MonthOf(d) \in h.kept \cup overlapped
      \/ MonthOf(d) \notin h.listed /\ MonthOf(d) < MonthOf(now)
      \/ blind
=============================================================================
