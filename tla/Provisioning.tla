---------------------------- MODULE Provisioning ----------------------------
(***************************************************************************)
(* What is in the sensor's flash before it can be used at all, and the     *)
(* tools that put it there: validity-provision formats a blank sensor and  *)
(* writes the pairing record that binds it to this machine, or returns it  *)
(* to its factory state; validity-firmware uploads the firmware extension. *)
(*                                                                         *)
(* A command that changes flash is a step. A tool may fail or be killed at *)
(* any of them, the command it was at obeyed or not. Tools and daemon      *)
(* claim the same USB interface, so one runs at a time.                    *)
(*                                                                         *)
(* Keys are key pairs; certificates, ECDH blocks and sealing are left out: *)
(* a handshake succeeds when the host's key is the one flash was formatted *)
(* with. Flash is NOR: a chunk written twice holds what was written when   *)
(* both writes are of the same data. Partition 5, which no other code      *)
(* touches, is left out.                                                   *)
(***************************************************************************)
EXTENDS Naturals

CONSTANTS
    Keys,        \* key pairs of the host
    Hosts,       \* machines, by their DMI identity
    Files,       \* firmware files
    Chunks,      \* chunks of a firmware payload
    NoKey,       \* flash has no partition table
    NoRecord,    \* partition 1 is erased
    Torn,        \* partition 1 holds part of a record
    Unwritten,   \* an erased chunk of partition 2, or no signature
    Mixed        \* a chunk that two files were written to

ASSUME ProvisioningAssumption ==
    /\ Chunks \in Nat \ {0}
    /\ NoKey \notin Keys
    /\ NoRecord \notin [key : Keys, host : Hosts]
    /\ Torn \notin [key : Keys, host : Hosts] /\ Torn # NoRecord
    /\ Files \cap {Unwritten, Mixed} = {} /\ Mixed # Unwritten

Records == [key : Keys, host : Hosts]
Places == 1..Chunks
Tools == {"none", "init", "reset", "upload"}
Stored == {"baseline", "fingers"}        \* what else a working sensor keeps

\* PARTITIONS_TO_ERASE, in its order.
Partitions == <<"pairing", "firmware", "baseline", "fingers">>

FlashContents ==
    [table     : Keys \cup {NoKey},      \* the key it was formatted with
     record    : Records \cup {NoRecord, Torn},
     payload   : [Places -> Files \cup {Unwritten, Mixed}],
     signature : Files \cup {Unwritten},
     stored    : SUBSET Stored]

VARIABLES
    flash,     \* what is in the sensor's flash
    host,      \* the machine the sensor is in
    tool,      \* the tool that runs
    pc,        \* where it is
    key,       \* the key pair init_flash has drawn
    file,      \* the file upload was given
    place,     \* the partition to erase, or the chunk to write, next
    result     \* how the last tool ended

vars == <<flash, host, tool, pc, key, file, place, result>>
runVars == <<host, tool, file, result>>

TypeOK ==
    /\ flash \in FlashContents
    /\ host \in Hosts
    /\ tool \in Tools
    /\ pc \in {"idle", "info", "partition", "open", "erase", "record", "check", "wipe",
               "session", "payload", "sign", "detect"}
    /\ key \in Keys \cup {NoKey}
    /\ file \in Files \cup {Unwritten}
    /\ place \in IF pc = "payload" THEN Places ELSE 1..4
    /\ result \in {"none", "ok", "refused", "failed"}

\* Factory state, as it leaves Synaptics and as factory_reset leaves it.
Bare == [table |-> NoKey, record |-> NoRecord, payload |-> [i \in Places |-> Unwritten],
         signature |-> Unwritten, stored |-> {}]

\* A sensor that another driver has provisioned, on some machine.
Provisioned(k, h, f) ==
    [table |-> k, record |-> [key |-> k, host |-> h], payload |-> [i \in Places |-> f],
     signature |-> f, stored |-> {}]

Init ==
    /\ flash \in {Bare} \cup {Provisioned(k, h, f) : k \in Keys, h \in Hosts, f \in Files}
    /\ host \in Hosts
    /\ tool = "none" /\ pc = "idle"
    /\ key = NoKey /\ file = Unwritten /\ place = 1
    /\ result = "none"

-----------------------------------------------------------------------------
(* What the code asks of flash.                                            *)

\* open_session: the record parses, its key unseals on this machine, and the
\* handshake succeeds.
Opens ==
    /\ flash.record \in Records
    /\ flash.record.host = host
    /\ flash.record.key = flash.table

\* get_fw_info: the sensor finds one whole file under its own signature.
Detected == \E f \in Files : flash.signature = f /\ flash.payload = [i \in Places |-> f]

End(how) ==
    /\ pc' = "idle" /\ tool' = "none"
    /\ result' = how
    /\ key' = NoKey /\ file' = Unwritten /\ place' = 1
    /\ UNCHANGED host

-----------------------------------------------------------------------------
(* Around the tools.                                                       *)

\* The sensor is put into another machine.
Move(h) ==
    /\ pc = "idle"
    /\ host' = h
    /\ UNCHANGED <<flash, tool, pc, key, file, place, result>>

\* The baseline tool and enrolments, on a sensor that works.
Store(thing) ==
    /\ pc = "idle"
    /\ Opens /\ Detected
    /\ flash' = [flash EXCEPT !.stored = @ \cup {thing}]
    /\ UNCHANGED <<host, tool, pc, key, file, place, result>>

Run(t, first) ==
    /\ pc = "idle"
    /\ tool' = t
    /\ pc' = first
    /\ UNCHANGED <<flash, host, key, place, result>>

InitFlash == Run("init", "info") /\ UNCHANGED file
FactoryReset == Run("reset", "wipe") /\ UNCHANGED file
Upload(f) == Run("upload", "session") /\ file' = f

-----------------------------------------------------------------------------
(* init_flash.                                                             *)

FormatsAnything == TRUE              \* a bug: a partition table is no reason to stop
Unformatted == flash.table = NoKey

\* "Does nothing if the flash already has a partition table."
Info ==
    /\ pc = "info"
    /\ \/ Unformatted /\ pc' = "partition" /\ UNCHANGED <<runVars, key, place>>
       \/ ~Unformatted /\ End("refused")
    /\ UNCHANGED flash

Formatted(k) == [flash EXCEPT !.table = k]

\* A fresh key pair; flash is partitioned, and the sensor certifies the key.
PartitionFlash(k) ==
    /\ pc = "partition"
    /\ k # flash.table
    /\ flash' = Formatted(k)
    /\ key' = k
    /\ pc' = "open"
    /\ UNCHANGED <<runVars, place>>

\* A session with the new key: the ECDH block was read, the key sealed.
Open ==
    /\ pc = "open"
    /\ key = flash.table
    /\ pc' = "erase"
    /\ UNCHANGED <<flash, runVars, key, place>>

Without(partition) ==
    CASE partition = "pairing" -> [flash EXCEPT !.record = NoRecord]
      [] partition = "firmware" -> [flash EXCEPT !.payload = Bare.payload,
                                                 !.signature = Unwritten]
      [] OTHER -> [flash EXCEPT !.stored = @ \ {partition}]

\* "Wipe every partition before storing anything."
ErasePartition ==
    /\ pc = "erase"
    /\ flash' = Without(Partitions[place])
    /\ IF place = 4 THEN place' = 1 /\ pc' = "record" ELSE place' = place + 1 /\ UNCHANGED pc
    /\ UNCHANGED <<runVars, key>>

WithRecord == [flash EXCEPT !.record = [key |-> key, host |-> host]]

\* The record is written, or the sensor says so and keeps nothing.
WriteRecord ==
    /\ pc = "record"
    /\ flash' \in {flash, WithRecord}
    /\ pc' = "check"
    /\ UNCHANGED <<runVars, key, place>>

NotReadBack == TRUE                  \* a bug: the record is not read back
Persisted == flash.record # NoRecord

\* "Confirm the record reads back before declaring success."
Check ==
    /\ pc = "check"
    /\ End(IF Persisted THEN "ok" ELSE "failed")
    /\ UNCHANGED flash

-----------------------------------------------------------------------------
(* factory_reset, and upload.                                              *)

Wipe ==
    /\ pc = "wipe"
    /\ flash' = Bare
    /\ End("ok")

LoadsAgain == FALSE                  \* a bug: firmware that is there is loaded over
Present == Detected

\* A session is opened; "does nothing if firmware is already present".
Connect ==
    /\ pc = "session"
    /\ \/ ~Opens /\ End("failed")
       \/ Opens /\ Present /\ End("refused")
       \/ Opens /\ ~Present /\ pc' = "payload" /\ UNCHANGED <<runVars, key, place>>
    /\ UNCHANGED flash

WithChunk ==
    [flash EXCEPT !.payload[place] = IF @ \in {Unwritten, file} THEN file ELSE Mixed]

OneChunkMore == place > Chunks       \* a bug: the loop runs once more
OneChunkLess == place + 1 >= Chunks  \* a bug: the last chunk is left out
LastChunk == place = Chunks

WriteChunk ==
    /\ pc = "payload"
    /\ flash' = WithChunk
    /\ IF LastChunk THEN place' = 1 /\ pc' = "sign" ELSE place' = place + 1 /\ UNCHANGED pc
    /\ UNCHANGED <<runVars, key>>

WithSignature == [flash EXCEPT !.signature = file]

Sign ==
    /\ pc = "sign"
    /\ flash' = WithSignature
    /\ pc' = "detect"
    /\ UNCHANGED <<runVars, key, place>>

\* The firmware must now be detected.
Detect ==
    /\ pc = "detect"
    /\ End(IF Detected THEN "ok" ELSE "failed")
    /\ UNCHANGED flash

\* What flash holds when the command the tool is at has been obeyed, or the
\* write of the record was cut in two.
Obeyed ==
    CASE pc = "partition" -> {Formatted(k) : k \in Keys \ {flash.table}}
      [] pc = "erase" -> {Without(Partitions[place])}
      [] pc = "record" -> {WithRecord, [flash EXCEPT !.record = Torn]}
      [] pc = "wipe" -> {Bare}
      [] pc = "payload" -> {WithChunk}
      [] pc = "sign" -> {WithSignature}
      [] OTHER -> {}

\* The tool fails or is killed at any point.
Interrupt ==
    /\ pc # "idle"
    /\ flash' \in {flash} \cup Obeyed
    /\ End("failed")

-----------------------------------------------------------------------------
Next ==
    \/ \E h \in Hosts : Move(h)
    \/ \E thing \in Stored : Store(thing)
    \/ InitFlash \/ FactoryReset \/ \E f \in Files : Upload(f)
    \/ Info \/ \E k \in Keys : PartitionFlash(k)
    \/ Open \/ ErasePartition \/ WriteRecord \/ Check
    \/ Wipe
    \/ Connect \/ WriteChunk \/ Sign \/ Detect
    \/ Interrupt

Spec == Init /\ [][Next]_vars

-----------------------------------------------------------------------------
(* Properties.                                                             *)

\* However provisioning was cut short and repeated, a whole record in flash is
\* for the key flash is formatted with: a sensor is never left with a record
\* that unseals on its machine and yet opens no session.
PairedIsUsable == flash.record \in Records => flash.record.key = flash.table

\* init_flash that returns Ok leaves a sensor that opens on this machine.
OkIsPaired == [][tool = "init" /\ tool' = "none" /\ result' = "ok" => Opens']_vars

\* A pairing that works on this machine, a whole firmware, the baseline and the
\* enrolled fingers are lost by a factory reset and by nothing else, however
\* often init_flash and upload are run: they are for "a sensor that has never
\* been paired, or one that has been factory reset".
LostOnlyByReset ==
    [][pc # "wipe" => /\ Opens /\ host' = host => Opens'
                      /\ Detected => Detected'
                      /\ flash.stored \subseteq flash'.stored]_vars

\* An upload that gets to its end loads the firmware, also over what an upload
\* of the same file left half written; only another file can spoil it.
RetryHeals == pc = "detect" => Detected \/ \E i \in Places : flash.payload[i] = Mixed

=============================================================================
