------------------------------ MODULE Baseline ------------------------------
(***************************************************************************)
(* The blank reference image in flash partition 6, the tool that inspects  *)
(* and writes it (validity-baseline), and the calibration cache on disk    *)
(* that the daemon keeps for it.                                           *)
(*                                                                         *)
(* A record is written in chunks of 4 KiB; the first holds the header,     *)
(* whose hash names the record. Erasing is one command, each chunk is      *)
(* another, and the tool may fail or be killed at any of them. Flash can   *)
(* be written once after it was erased. A record stands for its image, and *)
(* calibration data for the baseline it was made with.                     *)
(*                                                                         *)
(* Daemon and tool claim the same USB interface, so one runs at a time.    *)
(***************************************************************************)
EXTENDS Naturals

CONSTANTS
    Records,     \* baseline records, as one is captured in a run of the tool
    Chunks,      \* chunks of a record
    Erased,      \* what an erased chunk reads as
    Garbage,     \* a chunk written twice
    NoCache,     \* no file at CALIB_CACHE_PATH
    Truncated    \* a cache file of the wrong size

ASSUME BaselineAssumption ==
    /\ Chunks \in Nat \ {0}
    /\ Records \cap {Erased, Garbage, NoCache, Truncated} = {}
    /\ Garbage # Erased
    /\ Erased \notin {NoCache, Truncated} /\ NoCache # Truncated

Places == 1..Chunks
Contents == Records \cup {Erased, Garbage}
Caches == Records \cup {Erased, NoCache, Truncated}

VARIABLES
    flash,        \* partition 6, by chunk
    cache,        \* the baseline the cached calibration was made with
    pc,           \* where the tool is; or "daemon", or "idle"
    asked,        \* the flags the tool was given
    candidate,    \* the record the tool has built
    place,        \* the chunk it writes next
    using,        \* the calibration the daemon has loaded or made
    interrupted,  \* a run of the tool failed or was killed after its first write
    result        \* how the last run of the tool ended

vars == <<flash, cache, pc, asked, candidate, place, using, interrupted, result>>

TypeOK ==
    /\ flash \in [Places -> Contents]
    /\ cache \in Caches
    /\ pc \in {"idle", "daemon", "look", "build", "compare", "erase", "write", "verify",
               "uncache"}
    /\ asked \subseteq {"write", "force"}
    /\ candidate \in Records \cup {Erased}
    /\ place \in 1..(Chunks + 1)
    /\ using \in Caches
    /\ interrupted \in BOOLEAN
    /\ result \in {"none", "ok", "refused", "failed"}

Init ==
    /\ flash \in {[i \in Places |-> r] : r \in Records \cup {Erased}}
    /\ cache = NoCache
    /\ pc = "idle"
    /\ asked = {}
    /\ candidate = Erased /\ place = 1
    /\ using = NoCache
    /\ interrupted = FALSE
    /\ result = "none"

-----------------------------------------------------------------------------
Blank == [i \in Places |-> Erased]

\* What check_clean_slate and the round trip accept: the hash in the header is
\* that of the whole body.
Valid(f) == \E r \in Records : f = [i \in Places |-> r]

\* The record flash holds, for one who calibrates with it.
Stored(f) == IF Valid(f) THEN f[1] ELSE Erased

\* read_stored: some record is there when the header is.
HasHeader == flash[1] \in Records

Asked(flag) == flag \in asked

End(how) ==
    /\ pc' = "idle"
    /\ result' = how
    /\ asked' = {}
    /\ candidate' = Erased /\ place' = 1
    /\ UNCHANGED using

Run(flags) ==
    /\ pc = "idle"
    /\ pc' = "look"
    /\ asked' = flags
    /\ UNCHANGED <<flash, cache, candidate, place, using, interrupted, result>>

TrustsTheHeader == TRUE      \* a bug: a record is taken for whole by its header
RoundTrips == Valid(flash)

ForceNotAsked == FALSE       \* a bug: a record that is there is no reason to stop
Keeps == HasHeader /\ ~Asked("force")

\* The tool reads what is stored and decides whether to write at all.
Look ==
    /\ pc = "look"
    /\ \/ ~Asked("write") /\ End("ok")
       \/ Asked("write") /\ HasHeader /\ ~RoundTrips /\ End("refused")
       \/ Asked("write") /\ (HasHeader => RoundTrips) /\ Keeps /\ End("ok")
       \/ /\ Asked("write") /\ (HasHeader => RoundTrips) /\ ~Keeps
          /\ pc' = "build"
          /\ UNCHANGED <<asked, candidate, place, using, result>>
    /\ UNCHANGED <<flash, cache, interrupted>>

\* It calibrates and captures a blank frame.
Build(r) ==
    /\ pc = "build"
    /\ candidate' = r
    /\ pc' = "compare"
    /\ UNCHANGED <<flash, cache, asked, place, using, interrupted, result>>

\* persist compares the header alone: blank, the same record, or another.
Compare ==
    /\ pc = "compare"
    /\ \/ /\ flash[1] = candidate
          /\ End("ok")
       \/ /\ flash[1] # candidate
          /\ pc' = IF flash[1] = Erased THEN "write" ELSE "erase"
          /\ UNCHANGED <<asked, candidate, place, using, result>>
    /\ UNCHANGED <<flash, cache, interrupted>>

Erase ==
    /\ pc = "erase"
    /\ flash' = Blank
    /\ pc' = "write"
    /\ UNCHANGED <<cache, asked, candidate, place, using, interrupted, result>>

LastFirst == Chunks + 1 - place    \* a bug: the header is written last
Target == place

Written == [flash EXCEPT ![Target] = IF @ = Erased THEN candidate ELSE Garbage]

OneChunkMore == place > Chunks     \* a bug: the loop runs once more
LastChunk == place = Chunks

WriteChunk ==
    /\ pc = "write"
    /\ flash' = Written
    /\ place' = place + 1
    /\ pc' = IF LastChunk THEN "verify" ELSE "write"
    /\ UNCHANGED <<cache, asked, candidate, using, interrupted, result>>

\* The record that was written is read back.
Verify ==
    /\ pc = "verify"
    /\ IF Valid(flash)
       THEN pc' = "uncache" /\ UNCHANGED <<asked, candidate, place, using, interrupted, result>>
       ELSE End("failed") /\ interrupted' = TRUE
    /\ UNCHANGED <<flash, cache>>

CacheKept == UNCHANGED cache          \* a bug: the cache is not thought of
DropCache == cache' = NoCache

\* "The cached calibration belongs with the old baseline."
Uncache ==
    /\ pc = "uncache"
    /\ DropCache
    /\ End("ok")
    /\ UNCHANGED <<flash, interrupted>>

\* The tool fails or is killed at any point, the command it was at obeyed or
\* not, or cannot remove the cache.
Interrupt ==
    /\ pc \notin {"idle", "daemon"}
    /\ flash' \in CASE pc = "erase" -> {flash, Blank}
                    [] pc = "write" -> {flash, Written}
                    [] OTHER -> {flash}
    /\ interrupted' = (interrupted \/ pc \in {"erase", "write", "verify", "uncache"})
    /\ End("failed")
    /\ UNCHANGED cache

-----------------------------------------------------------------------------
(* The daemon: load_or_calibrate.                                          *)

AnySize == cache # NoCache                     \* a bug: the size is not looked at
Loads == cache \notin {NoCache, Truncated}     \* Calibration::load

LoadCache ==
    /\ pc = "idle"
    /\ Loads
    /\ using' = cache
    /\ pc' = "daemon"
    /\ UNCHANGED <<flash, cache, asked, candidate, place, interrupted, result>>

\* No usable cache: calibrate, and save what comes of it, as well as it goes.
Calibrate ==
    /\ pc = "idle"
    /\ ~Loads
    /\ using' = Stored(flash)
    /\ cache' \in {cache, Truncated, Stored(flash)}
    /\ pc' = "daemon"
    /\ UNCHANGED <<flash, asked, candidate, place, interrupted, result>>

StopDaemon ==
    /\ pc = "daemon"
    /\ pc' = "idle"
    /\ using' = NoCache
    /\ UNCHANGED <<flash, cache, asked, candidate, place, interrupted, result>>

-----------------------------------------------------------------------------
Next ==
    \/ \E flags \in SUBSET {"write", "force"} : Run(flags)
    \/ \E r \in Records : Build(r)
    \/ Look \/ Compare \/ Erase \/ WriteChunk \/ Verify \/ Uncache \/ Interrupt
    \/ LoadCache \/ Calibrate \/ StopDaemon

Spec == Init /\ [][Next]_vars

-----------------------------------------------------------------------------
(* Properties.                                                             *)

\* A --write run that ends well leaves a whole record, also when what it found
\* was half of one that an earlier run could not finish.
WriteEndsValid ==
    [][Asked("write") /\ pc # "idle" /\ pc' = "idle" /\ result' = "ok" =>
        Valid(flash')]_vars

\* However runs were interrupted before, a chunk is only written where flash is
\* erased, although the tool looks at the header alone before it writes: no
\* record is ever a mix of two writes.
NoGarbage == \A i \in Places : flash[i] # Garbage

\* A whole record is given up only for --write with --force: "it refuses to
\* run unless the baseline is actually missing or you also pass --force".
ValidKept == [][Valid(flash) /\ flash' # flash => Asked("write") /\ Asked("force")]_vars

\* The daemon works with calibration made for the baseline in flash, whatever
\* runs of the tool and restarts came between, unless a run was cut short; and
\* never with a file that was cut short.
CalibrationBelongs ==
    pc = "daemon" => /\ using # Truncated
                     /\ ~interrupted => using = Stored(flash)

\* "Inspect, verify and repair": a run with --write and --force that is not
\* interrupted ends with a whole record.
Repairs ==
    [][Asked("write") /\ Asked("force") /\ pc # "idle" /\ pc' = "idle" /\ result' # "failed" =>
        Valid(flash')]_vars

=============================================================================
