--------------------------- MODULE BaselineProofs ---------------------------
(***************************************************************************)
(* Baseline holds for any number of chunks and any set of records.         *)
(*                                                                         *)
(* The tool trusts the header of what it finds, and what makes that right  *)
(* is that the header is written first and erased with all the rest: an    *)
(* erased header means an erased partition.                                *)
(***************************************************************************)
EXTENDS Baseline, TLAPS

\* An erased header means an erased partition.
HeaderFirst == flash[1] = Erased => flash = Blank

\* Before the first erase the tool has checked what is stored, and asked for
\* --force if it is whole.
Checked ==
    /\ pc \in {"idle", "daemon"} => asked = {}
    /\ pc \in {"build", "compare", "erase"} =>
        /\ Asked("write")
        /\ HasHeader => Valid(flash) /\ Asked("force")

\* It has a candidate from there on, and writes it in order.
InOrder ==
    /\ pc \in {"idle", "daemon", "look", "build", "compare", "erase"} => place = 1
    /\ pc \in {"compare", "erase", "write", "verify", "uncache"} => candidate \in Records
    /\ pc = "write" => /\ place \in Places
                       /\ \A i \in Places : i < place => flash[i] = candidate
                       /\ \A i \in Places : i >= place => flash[i] = Erased
    /\ pc = "uncache" => Valid(flash)

\* Between a run that was not interrupted and the next, the cache is of the
\* baseline in flash.
CacheOfFlash ==
    ~interrupted /\ pc \notin {"write", "verify", "uncache"} =>
        cache \in {NoCache, Truncated, Stored(flash)}

IInv == TypeOK /\ HeaderFirst /\ NoGarbage /\ Checked /\ InOrder
CInv == CacheOfFlash /\ CalibrationBelongs

\* What flash holds whole is a record, and what it holds otherwise is nothing.
LEMMA StoredType == Stored(flash) \in Records \cup {Erased}
<1>1. CASE Valid(flash)
  <2>1. PICK r \in Records : flash = [i \in Places |-> r]
    BY <1>1 DEF Valid
  <2>2. 1 \in Places
    BY BaselineAssumption DEF BaselineAssumption, Places
  <2>3. flash[1] \in Records
    BY <2>1, <2>2
  <2> QED BY <1>1, <2>3 DEF Stored
<1>2. CASE ~Valid(flash)
  BY <1>2 DEF Stored
<1> QED BY <1>1, <1>2

\* What the tool decides to write about is blank, or whole and forced.
LEMMA LookStep == IInv /\ Look => IInv'
<1> SUFFICES ASSUME IInv, Look PROVE IInv'
  OBVIOUS
<1> USE BaselineAssumption DEF BaselineAssumption
<1>1. TypeOK /\ HeaderFirst /\ NoGarbage /\ InOrder /\ pc = "look" /\ flash' = flash
  BY DEF IInv, Look
<1>2. HeaderFirst' /\ NoGarbage'
  BY <1>1 DEF HeaderFirst, NoGarbage, Blank
<1>3. CASE pc' = "idle"
  <2>1. End("ok") \/ End("refused")
    BY <1>3 DEF Look
  <2>2. place' = 1 /\ place' \in 1..(Chunks + 1) /\ asked' = {} /\ candidate' = Erased
        /\ using' = using /\ result' \in {"ok", "refused"}
    BY <2>1 DEF End
  <2>3. interrupted' \in BOOLEAN
    BY <1>1 DEF TypeOK, Look
  <2>4. TypeOK'
    BY <1>1, <1>3, <2>2, <2>3 DEF TypeOK, Look
  <2> QED BY <1>2, <1>3, <2>2, <2>4 DEF IInv, Checked, InOrder
<1>4. CASE pc' = "build"
  <2>1. /\ Asked("write") /\ (HasHeader => RoundTrips) /\ ~Keeps
        /\ UNCHANGED <<asked, candidate, place, using, result>>
    BY <1>4 DEF Look, End
  <2>2. interrupted' \in BOOLEAN
    BY <1>1 DEF TypeOK, Look
  <2>3. TypeOK'
    BY <1>1, <1>4, <2>1, <2>2 DEF TypeOK, Look
  <2>4. Checked'
    BY <1>1, <1>4, <2>1 DEF Checked, Asked, HasHeader, RoundTrips, Keeps, Valid
  <2>5. InOrder'
    BY <1>1, <1>4, <2>1 DEF InOrder
  <2> QED BY <1>2, <2>3, <2>4, <2>5 DEF IInv
<1> QED BY <1>3, <1>4 DEF Look, End

\* An erased header is enough to write: the rest is erased too.
LEMMA CompareStep == IInv /\ Compare => IInv'
<1> SUFFICES ASSUME IInv, Compare PROVE IInv'
  OBVIOUS
<1> USE BaselineAssumption DEF BaselineAssumption
<1>1. /\ TypeOK /\ HeaderFirst /\ NoGarbage /\ Checked /\ InOrder
      /\ pc = "compare" /\ flash' = flash /\ place = 1 /\ candidate \in Records
  BY DEF IInv, InOrder, Compare
<1>2. HeaderFirst' /\ NoGarbage' /\ interrupted' \in BOOLEAN
  BY <1>1 DEF HeaderFirst, NoGarbage, Blank, TypeOK, Compare
<1>3. CASE flash[1] = candidate
  <2>1. End("ok")
    BY <1>3 DEF Compare
  <2>2. place' = 1 /\ place' \in 1..(Chunks + 1) /\ candidate' = Erased
    BY <2>1 DEF End
  <2>3. TypeOK'
    BY <1>1, <1>2, <2>1, <2>2 DEF TypeOK, Compare, End
  <2> QED BY <1>2, <2>1, <2>2, <2>3 DEF IInv, Checked, InOrder, End
<1>4. CASE flash[1] # candidate
  <2>1. /\ pc' = IF flash[1] = Erased THEN "write" ELSE "erase"
        /\ UNCHANGED <<asked, candidate, place, using, result>>
    BY <1>4 DEF Compare
  <2>2. TypeOK'
    BY <1>1, <1>2, <2>1 DEF TypeOK, Compare
  <2>3. Checked'
    BY <1>1, <2>1 DEF Checked, Asked, HasHeader, Valid
  <2>4. 1 \in Places
    BY DEF Places
  <2>5. ASSUME pc' = "write" PROVE \A i \in Places : flash[i] = Erased
    <3>1. flash = Blank
      BY <1>1, <2>1, <2>5 DEF HeaderFirst
    <3> QED BY <3>1 DEF Blank
  <2>6. \A i \in Places : ~(i < 1)
    BY DEF Places
  <2>7. InOrder'
    BY <1>1, <2>1, <2>4, <2>5, <2>6 DEF InOrder
  <2> QED BY <1>2, <2>2, <2>3, <2>7 DEF IInv
<1> QED BY <1>3, <1>4

\* Writing the next chunk of the candidate keeps the order.
LEMMA ChunkStep == IInv /\ WriteChunk => IInv'
<1> SUFFICES ASSUME IInv, WriteChunk PROVE IInv'
  OBVIOUS
<1> USE BaselineAssumption DEF BaselineAssumption
<1>1. /\ place \in Places /\ place \in Nat /\ candidate \in Records
      /\ flash[place] = Erased /\ flash \in [Places -> Contents]
  BY DEF IInv, InOrder, WriteChunk, TypeOK, Places
<1>2. flash' = [flash EXCEPT ![place] = candidate]
  BY <1>1 DEF WriteChunk, Written, Target
<1>3. TypeOK'
  <2>1. flash' \in [Places -> Contents]
    BY <1>1, <1>2 DEF Contents
  <2>2. place' \in 1..(Chunks + 1)
    BY <1>1 DEF WriteChunk, Places
  <2> QED BY <2>1, <2>2 DEF IInv, TypeOK, WriteChunk
<1>4. HeaderFirst'
  <2>1. flash'[1] # Erased
    <3>1. 1 \in Places /\ (place # 1 => flash[1] = candidate)
      BY <1>1 DEF IInv, InOrder, WriteChunk, Places
    <3> QED BY <1>1, <1>2, <3>1
  <2> QED BY <2>1 DEF HeaderFirst
<1>5. NoGarbage'
  BY <1>1, <1>2 DEF IInv, NoGarbage
<1>6. Checked'
  BY DEF Checked, WriteChunk, LastChunk
<1>7. InOrder'
  <2>1. ASSUME pc' = "write"
        PROVE  /\ place' \in Places
               /\ \A i \in Places : i < place' => flash'[i] = candidate'
               /\ \A i \in Places : i >= place' => flash'[i] = Erased
    <3>1. place # Chunks /\ place' = place + 1 /\ candidate' = candidate
      BY <2>1 DEF WriteChunk, LastChunk
    <3>2. place' \in Places
      BY <1>1, <3>1 DEF Places
    <3>3. \A i \in Places : i < place' => flash'[i] = candidate'
      BY <1>1, <1>2, <3>1 DEF IInv, InOrder, WriteChunk, Places
    <3>4. \A i \in Places : i >= place' => flash'[i] = Erased
      BY <1>1, <1>2, <3>1 DEF IInv, InOrder, WriteChunk, Places
    <3> QED BY <3>2, <3>3, <3>4
  <2> QED BY <1>1, <2>1 DEF InOrder, WriteChunk
<1> QED BY <1>3, <1>4, <1>5, <1>6, <1>7 DEF IInv

\* Cutting a run short keeps the order too: what flash is left with is one of
\* the states an erase or a chunk leaves it in.
LEMMA CutStep == IInv /\ Interrupt => IInv'
<1> SUFFICES ASSUME IInv, Interrupt PROVE IInv'
  OBVIOUS
<1> USE BaselineAssumption DEF BaselineAssumption
<1>1. pc' = "idle" /\ place' = 1 /\ asked' = {} /\ TypeOK /\ 1 \in Places
  BY DEF Interrupt, End, IInv, Places
<1>2. /\ flash' \in [Places -> Contents]
      /\ flash'[1] = Erased => flash' = Blank
      /\ \A i \in Places : flash'[i] # Garbage
  <2>1. CASE flash' = flash
    BY <1>1, <2>1 DEF IInv, TypeOK, HeaderFirst, NoGarbage, Blank
  <2>2. CASE flash' = Blank
    BY <1>1, <2>2 DEF Blank, Contents
  <2>3. CASE pc = "write" /\ flash' = Written
    <3>1. /\ place \in Places /\ place \in Nat /\ candidate \in Records
          /\ flash[place] = Erased /\ flash \in [Places -> Contents]
          /\ place # 1 => flash[1] = candidate
      BY <1>1, <2>3 DEF IInv, InOrder, TypeOK, Places
    <3>2. flash' = [flash EXCEPT ![place] = candidate]
      BY <2>3, <3>1 DEF Written, Target
    <3>3. flash'[1] # Erased
      BY <1>1, <3>1, <3>2
    <3> QED BY <3>1, <3>2, <3>3 DEF Contents, IInv, NoGarbage
  <2> QED BY <2>1, <2>2, <2>3 DEF Interrupt
<1>3. TypeOK'
  <2>1. interrupted' \in BOOLEAN
    BY <1>1 DEF Interrupt, TypeOK
  <2>2. place' = 1 /\ place' \in 1..(Chunks + 1)
    BY DEF Interrupt, End
  <2> QED BY <1>1, <1>2, <2>1, <2>2 DEF Interrupt, End, TypeOK
<1>4. HeaderFirst' /\ NoGarbage'
  BY <1>2 DEF HeaderFirst, NoGarbage, Blank
<1>5. Checked' /\ InOrder'
  BY <1>1 DEF Checked, InOrder
<1> QED BY <1>3, <1>4, <1>5 DEF IInv

\* The strengthened invariant holds in every reachable state.
THEOREM BaselineInductive == Spec => []IInv
<1> USE BaselineAssumption DEF BaselineAssumption
<1>1. Init => IInv
  <2> SUFFICES ASSUME Init PROVE IInv
    OBVIOUS
  <2>1. PICK r \in Records \cup {Erased} : flash = [i \in Places |-> r]
    BY DEF Init
  <2>2. 1 \in Places /\ \A i \in Places : flash[i] = r
    BY <2>1 DEF Places
  <2>3. TypeOK
    <3>1. flash \in [Places -> Contents]
      BY <2>1 DEF Contents
    <3>2. interrupted \in BOOLEAN
      BY DEF Init
    <3> QED BY <3>1, <3>2 DEF Init, TypeOK, Caches
  <2>4. HeaderFirst /\ NoGarbage
    BY <2>1, <2>2 DEF HeaderFirst, NoGarbage, Blank
  <2> QED BY <2>3, <2>4 DEF Init, IInv, Checked, InOrder
<1>2. IInv /\ [Next]_vars => IInv'
  <2> SUFFICES ASSUME IInv, [Next]_vars PROVE IInv'
    OBVIOUS
  <2>0. TypeOK
    BY DEF IInv
  <2> USE DEF IInv, HeaderFirst, NoGarbage, Checked, InOrder, Asked
  <2>1. ASSUME NEW flags \in SUBSET {"write", "force"}, Run(flags) PROVE IInv'
    BY <2>1 DEF Run, TypeOK, Blank, HasHeader, Valid
  <2>2. ASSUME NEW r \in Records, Build(r) PROVE IInv'
    BY <2>2 DEF Build, TypeOK, Blank, HasHeader, Valid
  <2>3. CASE Look
    BY <2>3, LookStep
  <2>4. CASE Compare
    BY <2>4, CompareStep
  <2>5. CASE Erase
    <3>1. TypeOK'
      BY <2>0, <2>5 DEF Erase, TypeOK, Blank, Contents
    <3>2. InOrder'
      BY <2>5 DEF Erase, Blank, Places
    <3> QED BY <2>5, <3>1, <3>2 DEF Erase, Blank
  <2>6. CASE WriteChunk
    BY <2>6, ChunkStep
  <2>7. CASE Verify
    <3>0. interrupted' \in BOOLEAN
      BY <2>0, <2>7 DEF Verify, TypeOK
    <3>1. place' = place \/ place' = 1
      BY <2>7 DEF Verify, End
    <3>4. place' \in 1..(Chunks + 1)
      BY <2>0, <3>1 DEF TypeOK
    <3>2. candidate' \in Records \cup {Erased} /\ asked' \subseteq {"write", "force"}
      BY <2>0, <2>7 DEF Verify, End, TypeOK
    <3>3. TypeOK'
      BY <2>0, <2>7, <3>0, <3>2, <3>4 DEF Verify, End, TypeOK
    <3> QED BY <2>7, <3>3 DEF Verify, End, Blank, Valid
  <2>8. CASE Uncache
    BY <2>8 DEF Uncache, DropCache, End, TypeOK, Blank, Caches
  <2>9. CASE Interrupt
    BY <2>9, CutStep
  <2>10. CASE LoadCache
    BY <2>10 DEF LoadCache, TypeOK, Blank
  <2>11. CASE Calibrate
    <3>1. cache' \in Caches /\ using' \in Caches
      BY <2>0, <2>11, StoredType DEF Calibrate, TypeOK, Caches
    <3>2. TypeOK'
      BY <2>0, <2>11, <3>1 DEF Calibrate, TypeOK
    <3> QED BY <2>11, <3>2 DEF Calibrate, Blank
  <2>12. CASE StopDaemon
    BY <2>12 DEF StopDaemon, TypeOK, Caches, Blank
  <2>13. CASE UNCHANGED vars
    BY <2>13 DEF vars, TypeOK, Blank, HasHeader, Valid
  <2> QED BY <2>1, <2>2, <2>3, <2>4, <2>5, <2>6, <2>7, <2>8, <2>9, <2>10, <2>11, <2>12, <2>13
          DEF Next
<1> QED BY <1>1, <1>2, PTL DEF Spec

\* Flash, the cache and the tool's locals keep their types, and the chunk to be
\* written is never past the end (flash.rs, write_flash_all).
THEOREM BaselineTyped == Spec => []TypeOK
<1>1. IInv => TypeOK
  BY DEF IInv
<1> QED BY <1>1, BaselineInductive, PTL

\* However runs of the tool are cut short, no chunk is written over another:
\* flash holds no mix of two records.
THEOREM NeverGarbage == Spec => []NoGarbage
<1>1. IInv => NoGarbage
  BY DEF IInv
<1> QED BY <1>1, BaselineInductive, PTL

\* A whole record is given up only in a run with --write and --force.
THEOREM ForceIsNeeded == Spec => ValidKept
<1>1. IInv /\ [Next]_vars => [Valid(flash) /\ flash' # flash => Asked("write") /\ Asked("force")]_vars
  <2> SUFFICES ASSUME IInv, Next, Valid(flash), flash' # flash PROVE Asked("write") /\ Asked("force")
    OBVIOUS
  <2> USE BaselineAssumption DEF BaselineAssumption
  <2>1. 1 \in Places /\ \A i \in Places : flash[i] \in Records
    BY DEF Valid, Places
  <2>2. pc # "write"
    BY <2>1 DEF IInv, InOrder, TypeOK, Places
  <2>3. pc = "erase"
    BY <2>2 DEF Next, Run, Build, Look, Compare, Erase, WriteChunk, Verify, Uncache, Interrupt,
                LoadCache, Calibrate, StopDaemon
  <2> QED BY <2>1, <2>3 DEF IInv, Checked, HasHeader
<1> QED BY <1>1, BaselineInductive, PTL DEF Spec, ValidKept

\* A --write run that ends well leaves a whole record in flash.
THEOREM OkIsWhole == Spec => WriteEndsValid
<1>1. IInv /\ [Next]_vars
        => [Asked("write") /\ pc # "idle" /\ pc' = "idle" /\ result' = "ok" => Valid(flash')]_vars
  <2> SUFFICES ASSUME IInv, Next, Asked("write"), pc # "idle", pc' = "idle", result' = "ok"
                PROVE Valid(flash')
    OBVIOUS
  <2>1. CASE Look
    BY <2>1 DEF Look, End, RoundTrips, Keeps
  <2>2. CASE Compare
    BY <2>2 DEF Compare, IInv, InOrder, Checked, HasHeader
  <2>3. CASE Uncache
    BY <2>3 DEF Uncache, IInv, InOrder
  <2>4. pc # "daemon"
    BY DEF IInv, Checked, Asked
  <2> QED BY <2>4, <2>1, <2>2, <2>3 DEF Next, Run, Build, Erase, WriteChunk, Verify, Interrupt, End,
                                  LoadCache, Calibrate, StopDaemon
<1> QED BY <1>1, BaselineInductive, PTL DEF Spec, WriteEndsValid

\* The daemon works with calibration of the baseline in flash, unless a run of
\* the tool was cut short, and never with a truncated file.
THEOREM CalibrationIsCurrent == Spec => []CalibrationBelongs
<1> USE BaselineAssumption DEF BaselineAssumption
<1>1. Init => CInv
  BY DEF Init, CInv, CacheOfFlash, CalibrationBelongs
<1>2. IInv /\ CInv /\ [Next]_vars => CInv'
  <2> SUFFICES ASSUME IInv, CInv, [Next]_vars PROVE CInv'
    OBVIOUS
  <2>0. flash' = flash => Stored(flash)' = Stored(flash)
    BY DEF Stored, Valid
  <2> USE DEF CInv, CacheOfFlash, CalibrationBelongs
  <2>1. ASSUME NEW flags \in SUBSET {"write", "force"}, Run(flags) PROVE CInv'
    BY <2>0, <2>1 DEF Run
  <2>2. ASSUME NEW r \in Records, Build(r) PROVE CInv'
    BY <2>0, <2>2 DEF Build
  <2>3. CASE Look
    BY <2>0, <2>3 DEF Look, End
  <2>4. CASE Compare
    BY <2>0, <2>4 DEF Compare, End
  <2>5. CASE Erase \/ WriteChunk
    BY <2>5 DEF Erase, WriteChunk, LastChunk
  <2>6. CASE Verify
    BY <2>0, <2>6 DEF Verify, End
  <2>7. CASE Uncache
    BY <2>7 DEF Uncache, DropCache, End
  <2>8. CASE Interrupt
    <3>1. pc' = "idle" /\ cache' = cache
      BY <2>8 DEF Interrupt, End
    <3>2. ASSUME ~interrupted' PROVE ~interrupted /\ flash' = flash
                                     /\ pc \notin {"write", "verify", "uncache"}
      BY <2>8, <3>2 DEF Interrupt, IInv, TypeOK
    <3> QED BY <2>0, <3>1, <3>2
  <2>9. CASE LoadCache
    BY <2>0, <2>9 DEF LoadCache, Loads
  <2>10. CASE Calibrate
    <3>1. Stored(flash) # Truncated
      BY StoredType
    <3> QED BY <2>0, <2>10, <3>1 DEF Calibrate
  <2>11. CASE StopDaemon
    BY <2>0, <2>11 DEF StopDaemon
  <2>12. CASE UNCHANGED vars
    BY <2>0, <2>12 DEF vars
  <2> QED BY <2>1, <2>2, <2>3, <2>4, <2>5, <2>6, <2>7, <2>8, <2>9, <2>10, <2>11, <2>12 DEF Next
<1>3. CInv => CalibrationBelongs
  BY DEF CInv
<1> QED BY <1>1, <1>2, <1>3, BaselineInductive, PTL DEF Spec

=============================================================================
