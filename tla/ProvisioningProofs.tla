------------------------- MODULE ProvisioningProofs -------------------------
(***************************************************************************)
(* Provisioning holds for any keys, machines, files and number of chunks.  *)
(*                                                                         *)
(* Two orders carry it. init_flash touches nothing but a sensor without a  *)
(* partition table, and such a sensor is bare, so that what it partitions  *)
(* and erases held nothing. And upload signs last, so that firmware is     *)
(* either whole under its signature or not detected at all.                *)
(***************************************************************************)
EXTENDS Provisioning, TLAPS

Whole(f) == \E a \in Files : f.signature = a /\ f.payload = [i \in Places |-> a]

\* A chunk that two files were written to stays so until flash is erased.
Spoilt(f) == \E i \in Places : f.payload[i] = Mixed

\* What is true of flash between any two commands: without a table it is bare,
\* a record is for the key of the table, and a signature is of what is there
\* or over what will never be detected.
Sound(f) ==
    /\ f \in FlashContents
    /\ f.table = NoKey => f = Bare
    /\ f.record \in Records => f.record.key = f.table
    /\ f.signature # Unwritten => Whole(f) \/ Spoilt(f)

\* The sensor between partitioning and the record: nothing but its table.
Blank == [Bare EXCEPT !.table = key]

Pairing ==
    /\ pc = "partition" => flash = Bare
    /\ pc \in {"open", "erase", "record", "check"} => key \in Keys
    /\ pc \in {"open", "erase", "record"} => flash = Blank
    /\ pc = "check" => flash \in {Blank, [Blank EXCEPT !.record = [key |-> key, host |-> host]]}

Written(i) == flash.payload[i] \in {file, Mixed}

Uploading ==
    /\ pc \in {"session", "payload", "sign", "detect"} => file \in Files
    /\ pc \in {"payload", "sign"} => flash.table # NoKey /\ ~Whole(flash)
    /\ pc = "payload" => \A i \in Places : i < place => Written(i)
    /\ pc \in {"sign", "detect"} => \A i \in Places : Written(i)
    /\ pc = "detect" => flash.signature = file

\* Which tool is where, and where it starts.
Underway ==
    /\ pc = "wipe" => tool = "reset"
    /\ pc \in {"session", "payload", "sign", "detect"} => tool = "upload"
    /\ pc \notin {"erase", "payload"} => place = 1

IInv == TypeOK /\ Sound(flash) /\ Pairing /\ Uploading /\ Underway

-----------------------------------------------------------------------------
(* What a command leaves in flash.                                         *)

LEMMA BareIsSound == Sound(Bare)
BY ProvisioningAssumption
   DEF ProvisioningAssumption, Sound, Bare, FlashContents, Records, Places

\* Unsigned or spoilt firmware is not whole.
LEMMA NotWhole ==
    ASSUME NEW f \in FlashContents, f.signature = Unwritten \/ Spoilt(f)
    PROVE  ~Whole(f)
BY ProvisioningAssumption DEF ProvisioningAssumption, Whole, Spoilt, Places

\* Erasing what holds nothing changes nothing.
LEMMA ErasingNothing ==
    ASSUME key \in Keys, flash = Blank, place \in 1..4
    PROVE  Without(Partitions[place]) = flash
<1>1. /\ flash = [table |-> key, record |-> NoRecord, payload |-> Bare.payload,
                  signature |-> Unwritten, stored |-> {}]
  BY DEF Blank, Bare
<1>2. \A partition : [flash EXCEPT !.stored = @ \ {partition}] = flash
  <2>1. \A partition : flash.stored \ {partition} = flash.stored
    BY <1>1
  <2> QED BY <1>1, <2>1
<1>3. CASE place = 1
  BY <1>1, <1>3 DEF Without, Partitions
<1>4. CASE place = 2
  <2>1. Without("firmware") = [flash EXCEPT !.payload = Bare.payload, !.signature = Unwritten]
    BY DEF Without
  <2>2. Partitions[place] = "firmware"
    BY <1>4 DEF Partitions
  <2>3. [flash EXCEPT !.payload = Bare.payload] = flash
    BY <1>1
  <2>4. [flash EXCEPT !.signature = Unwritten] = flash
    BY <1>1
  <2>5. [flash EXCEPT !.payload = Bare.payload, !.signature = Unwritten]
          = [[flash EXCEPT !.payload = Bare.payload] EXCEPT !.signature = Unwritten]
    BY <1>1
  <2> QED
    BY <2>1, <2>2, <2>3, <2>4, <2>5
<1>5. CASE place \in {3, 4}
  BY <1>2, <1>5 DEF Without, Partitions
<1> QED
  BY <1>3, <1>4, <1>5

\* A command that was obeyed leaves sound flash.
LEMMA ObeyedIsSound ==
    ASSUME IInv, NEW f \in Obeyed
    PROVE  Sound(f)
<1> USE ProvisioningAssumption DEF ProvisioningAssumption
<1>1. CASE pc = "partition"
  <2>1. PICK k \in Keys : f = [Bare EXCEPT !.table = k]
    BY <1>1 DEF Obeyed, Formatted, IInv, Pairing
  <2> QED
    BY <2>1 DEF Sound, Bare, FlashContents, Records
<1>2. CASE pc = "erase"
  BY <1>2, ErasingNothing DEF Obeyed, IInv, Pairing, TypeOK
<1>3. CASE pc = "record"
  <2>1. flash = Blank /\ key \in Keys /\ host \in Hosts
    BY <1>3 DEF IInv, Pairing, TypeOK
  <2>2. f \in {[Blank EXCEPT !.record = [key |-> key, host |-> host]], [Blank EXCEPT !.record = Torn]}
    BY <1>3, <2>1 DEF Obeyed, WithRecord
  <2>3. PICK r \in {[key |-> key, host |-> host], Torn} :
           f = [table |-> key, record |-> r, payload |-> [i \in Places |-> Unwritten],
                signature |-> Unwritten, stored |-> {}]
    BY <2>2 DEF Blank, Bare
  <2>4. f \in FlashContents
    <3>1. r \in Records \cup {Torn}
      BY <2>1 DEF Records
    <3>2. [i \in Places |-> Unwritten] \in [Places -> Files \cup {Unwritten, Mixed}]
      OBVIOUS
    <3> QED
      BY <2>1, <2>3, <3>1, <3>2 DEF FlashContents
  <2> QED
    BY <2>1, <2>3, <2>4 DEF Sound, Records
<1>4. CASE pc = "wipe"
  BY <1>4, BareIsSound DEF Obeyed
<1>5. CASE pc = "payload"
  <2>1. f = WithChunk /\ Sound(flash) /\ place \in Places /\ file \in Files /\ ~Whole(flash)
    BY <1>5 DEF Obeyed, IInv, TypeOK, Uploading
  <2>2. /\ f.table = flash.table /\ f.record = flash.record
        /\ f.signature = flash.signature /\ f \in FlashContents
    BY <2>1 DEF WithChunk, Sound, FlashContents
  <2>3. flash.table # NoKey
    BY <1>5 DEF IInv, Uploading
  <2>4. Spoilt(flash) => Spoilt(f)
    BY <2>1 DEF WithChunk, Sound, FlashContents, Spoilt
  <2> QED
    BY <2>1, <2>2, <2>3, <2>4 DEF Sound
<1>6. CASE pc = "sign"
  <2>1. f = [flash EXCEPT !.signature = file] /\ Sound(flash) /\ file \in Files
    BY <1>6 DEF Obeyed, WithSignature, IInv, Uploading
  <2>2. Whole(f) \/ Spoilt(f)
    BY <1>6, <2>1 DEF IInv, Uploading, Written, Whole, Spoilt, Sound, FlashContents
  <2>3. flash.table # NoKey
    BY <1>6 DEF IInv, Uploading
  <2> QED
    BY <2>1, <2>2, <2>3 DEF Sound, FlashContents
<1>7. CASE pc \notin {"partition", "erase", "record", "wipe", "payload", "sign"}
  BY <1>7 DEF Obeyed
<1> QED
  BY <1>1, <1>2, <1>3, <1>4, <1>5, <1>6, <1>7

\* Short of a factory reset, a command takes nothing that works away.
LEMMA ObeyedKeeps ==
    ASSUME IInv, pc # "wipe", NEW f \in Obeyed
    PROVE  /\ Opens => f.record = flash.record /\ f.table = flash.table
           /\ Whole(flash) => f = flash
           /\ flash.stored \subseteq f.stored
<1> USE ProvisioningAssumption DEF ProvisioningAssumption
<1>1. CASE pc \in {"partition", "erase", "record"}
  <2>1. flash.record = NoRecord /\ flash.signature = Unwritten /\ flash.stored = {}
    BY <1>1 DEF IInv, Pairing, Blank, Bare
  <2>2. ~Opens /\ ~Whole(flash)
    BY <2>1, NotWhole DEF Opens, Records, IInv, Sound
  <2> QED
    BY <2>1, <2>2
<1>2. CASE pc \in {"payload", "sign"}
  <2>1. f \in {WithChunk, WithSignature}
    BY <1>2 DEF Obeyed
  <2>2. f.record = flash.record /\ f.table = flash.table /\ f.stored = flash.stored
    BY <2>1 DEF WithChunk, WithSignature, IInv, Sound, FlashContents
  <2> QED
    BY <1>2, <2>2 DEF IInv, Uploading
<1>3. CASE pc \notin {"partition", "erase", "record", "payload", "sign", "wipe"}
  BY <1>3 DEF Obeyed
<1> QED
  BY <1>1, <1>2, <1>3

\* Every step of a tool leaves flash as it is or obeys the command it is at;
\* all else that changes flash is a sensor that works storing something.
LEMMA FlashStep ==
    ASSUME IInv, [Next]_vars
    PROVE  \/ flash' \in {flash} \cup Obeyed
           \/ /\ flash' = [flash EXCEPT !.stored = flash'.stored]
              /\ flash.stored \subseteq flash'.stored /\ flash'.stored \subseteq Stored
              /\ Opens
<1>1. CASE \E thing \in Stored : Store(thing)
  <2>1. PICK thing \in Stored : Store(thing)
    BY <1>1
  <2>2. flash' = [flash EXCEPT !.stored = @ \cup {thing}] /\ Opens
    BY <2>1 DEF Store
  <2>3. flash'.stored = flash.stored \cup {thing}
    BY <2>2 DEF IInv, Sound, FlashContents
  <2> QED
    BY <2>2, <2>3 DEF IInv, Sound, FlashContents
<1>2. CASE \/ \E h \in Hosts : Move(h)
           \/ InitFlash \/ FactoryReset \/ \E f \in Files : Upload(f)
           \/ Info \/ Open \/ Check \/ Connect \/ Detect \/ UNCHANGED vars
  BY <1>2 DEF Move, InitFlash, FactoryReset, Upload, Run, Info, Open, Check, Connect, Detect, vars
<1>3. CASE \E k \in Keys : PartitionFlash(k)
  BY <1>3 DEF PartitionFlash, Obeyed
<1>4. CASE ErasePartition
  BY <1>4 DEF ErasePartition, Obeyed
<1>5. CASE WriteRecord
  BY <1>5 DEF WriteRecord, Obeyed
<1>6. CASE Wipe \/ WriteChunk \/ Sign
  BY <1>6 DEF Wipe, WriteChunk, Sign, Obeyed
<1>7. CASE Interrupt
  BY <1>7 DEF Interrupt
<1> QED
  BY <1>1, <1>2, <1>3, <1>4, <1>5, <1>6, <1>7 DEF Next

LEMMA SoundStep ==
    ASSUME IInv, [Next]_vars
    PROVE  Sound(flash)'
<1>1. CASE flash' \in {flash} \cup Obeyed
  BY <1>1, ObeyedIsSound DEF IInv, Sound, Whole, Spoilt
<1>2. CASE /\ flash' = [flash EXCEPT !.stored = flash'.stored]
           /\ flash'.stored \subseteq Stored
           /\ Opens
  <2>1. /\ flash' \in FlashContents
        /\ flash'.table = flash.table /\ flash'.record = flash.record
        /\ flash'.payload = flash.payload /\ flash'.signature = flash.signature
    BY <1>2 DEF IInv, Sound, FlashContents
  <2>2. flash.table # NoKey
    BY <1>2, ProvisioningAssumption DEF ProvisioningAssumption, Opens, Records
  <2> QED
    BY <2>1, <2>2 DEF IInv, Sound, Whole, Spoilt
<1> QED
  BY <1>1, <1>2, FlashStep

-----------------------------------------------------------------------------
(* The inductive invariant.                                                *)

\* A tool that ends, however it ends.
LEMMA EndStep ==
    ASSUME IInv, NEW how \in {"ok", "refused", "failed"}, End(how), Sound(flash)'
    PROVE  IInv'
BY DEF IInv, TypeOK, End, Sound, Pairing, Uploading, Underway, Tools

\* The inductive invariant holds of all that provision.rs and firmware.rs do to
\* a sensor, wherever they are cut short.
THEOREM ProvisioningInductive == Spec => []IInv
<1> USE ProvisioningAssumption DEF ProvisioningAssumption
<1>1. Init => IInv
  <2> SUFFICES ASSUME Init PROVE IInv
    OBVIOUS
  <2>1. Sound(flash)
    <3>1. CASE flash = Bare
      BY <3>1, BareIsSound
    <3>2. CASE flash \in {Provisioned(k, h, f) : k \in Keys, h \in Hosts, f \in Files}
      <4>1. PICK k \in Keys, h \in Hosts, f \in Files : flash = Provisioned(k, h, f)
        BY <3>2
      <4> QED
        BY <4>1 DEF Provisioned, Sound, Whole, FlashContents, Records
    <3> QED
      BY <3>1, <3>2 DEF Init
  <2> QED
    BY <2>1 DEF Init, IInv, TypeOK, Sound, Pairing, Uploading, Underway, Tools
<1>2. IInv /\ [Next]_vars => IInv'
  <2> SUFFICES ASSUME IInv, [Next]_vars PROVE IInv'
    OBVIOUS
  <2>0. Sound(flash)'
    BY SoundStep
  <2> USE DEF IInv, TypeOK, Pairing, Uploading, Underway, runVars
  <2>1. CASE UNCHANGED vars
    BY <2>0, <2>1 DEF vars, Blank, Written
  <2>2. CASE \E h \in Hosts : Move(h)
    BY <2>0, <2>2 DEF Move
  <2>3. CASE \E thing \in Stored : Store(thing)
    BY <2>0, <2>3 DEF Store, Sound
  <2>4. CASE InitFlash \/ FactoryReset \/ \E f \in Files : Upload(f)
    BY <2>0, <2>4 DEF InitFlash, FactoryReset, Upload, Run, Tools
  <2>5. CASE Info
    <3>1. CASE Unformatted /\ pc' = "partition" /\ UNCHANGED <<runVars, key, place>>
      BY <2>0, <2>5, <3>1 DEF Info, Unformatted, Sound
    <3>2. CASE End("refused")
      BY <2>0, <3>2, EndStep
    <3> QED
      BY <2>5, <3>1, <3>2 DEF Info
  <2>6. CASE \E k \in Keys : PartitionFlash(k)
    BY <2>0, <2>6 DEF PartitionFlash, Formatted, Blank, Sound
  <2>7. CASE Open
    BY <2>0, <2>7 DEF Open, Blank
  <2>8. CASE ErasePartition
    BY <2>0, <2>8, ErasingNothing DEF ErasePartition, Blank
  <2>9. CASE WriteRecord
    <3>1. /\ flash' \in {Blank, [Blank EXCEPT !.record = [key |-> key, host |-> host]]}
          /\ pc = "record" /\ pc' = "check" /\ UNCHANGED <<runVars, key, place>>
      BY <2>9 DEF WriteRecord, WithRecord
    <3>2. Blank' = Blank
      BY <3>1 DEF Blank
    <3>3. Pairing'
      BY <3>1, <3>2 DEF Pairing
    <3> QED
      BY <2>0, <3>1, <3>3 DEF Sound
  <2>10. CASE Check
    BY <2>0, <2>10, EndStep DEF Check
  <2>11. CASE Wipe
    BY <2>0, <2>11, EndStep DEF Wipe
  <2>12. CASE Connect
    <3>1. CASE Opens /\ ~Present /\ pc' = "payload" /\ UNCHANGED <<runVars, key, place>>
      <4>1. flash.table # NoKey
        BY <3>1 DEF Opens, Records
      <4>2. ~Whole(flash)
        BY <3>1 DEF Present, Detected, Whole
      <4> QED
        BY <2>0, <2>12, <3>1, <4>1, <4>2 DEF Connect, Written, Places
    <3>2. CASE End("failed") \/ End("refused")
      BY <2>0, <3>2, EndStep
    <3> QED
      BY <2>12, <3>1, <3>2 DEF Connect
  <2>13. CASE WriteChunk
    <3> USE DEF WriteChunk
    <3>1. /\ place \in Places /\ file \in Files /\ file' = file
          /\ flash.payload \in [Places -> Files \cup {Unwritten, Mixed}]
      BY <2>13 DEF Sound, FlashContents
    <3>2. flash' = WithChunk
      BY <2>13
    <3>3. /\ flash'.payload[place] \in {file, Mixed}
          /\ \A i \in Places \ {place} : flash'.payload[i] = flash.payload[i]
          /\ flash'.signature = flash.signature /\ flash'.table = flash.table
      BY <3>1, <3>2 DEF WithChunk, Sound, FlashContents
    <3>4. \A i \in Places : i <= place => Written(i)'
      BY <2>13, <3>1, <3>3 DEF Written, Places
    <3>5. ~Whole(flash')
      <4>1. flash.signature = Unwritten => ~Whole(flash')
        BY <2>0, <3>3, NotWhole DEF Sound
      <4>2. Spoilt(flash) => Spoilt(flash')
        BY <3>1, <3>2 DEF WithChunk, Spoilt, Sound, FlashContents
      <4> QED
        BY <2>0, <2>13, <4>1, <4>2, NotWhole DEF Sound
    <3>6. CASE LastChunk
      <4>1. /\ pc' = "sign" /\ place' = 1 /\ UNCHANGED <<runVars, key>>
            /\ \A i \in Places : Written(i)'
        BY <2>13, <3>1, <3>4, <3>6 DEF LastChunk, Places
      <4> QED
        BY <2>0, <2>13, <3>3, <3>5, <4>1 DEF Sound
    <3>7. CASE ~LastChunk
      <4>1. /\ pc' = "payload" /\ place' = place + 1 /\ UNCHANGED <<runVars, key>>
            /\ place' \in Places /\ \A i \in Places : i < place' => Written(i)'
        BY <2>13, <3>1, <3>4, <3>7 DEF LastChunk, Places
      <4> QED
        BY <2>0, <2>13, <3>3, <3>5, <4>1 DEF Sound
    <3> QED
      BY <3>6, <3>7
  <2>14. CASE Sign
    BY <2>0, <2>14 DEF Sign, WithSignature, Written, Sound, FlashContents
  <2>15. CASE Detect
    BY <2>0, <2>15, EndStep DEF Detect
  <2>16. CASE Interrupt
    BY <2>0, <2>16, EndStep DEF Interrupt
  <2> QED
    BY <2>1, <2>2, <2>3, <2>4, <2>5, <2>6, <2>7, <2>8, <2>9, <2>10, <2>11, <2>12, <2>13,
       <2>14, <2>15, <2>16 DEF Next
<1> QED
  BY <1>1, <1>2, PTL DEF Spec

-----------------------------------------------------------------------------
(* The properties.                                                         *)

\* Flash and the tools' locals keep their types, and the partition or chunk that
\* is next is one there is (init_flash, write_flash_all).
THEOREM ProvisioningTyped == Spec => []TypeOK
<1>1. IInv => TypeOK
  BY DEF IInv
<1> QED
  BY <1>1, ProvisioningInductive, PTL

\* However often init_flash and factory_reset were cut short, a whole pairing
\* record is for the key flash was formatted with.
THEOREM RecordFitsTable == Spec => []PairedIsUsable
<1>1. IInv => PairedIsUsable
  BY DEF IInv, Sound, PairedIsUsable
<1> QED BY <1>1, ProvisioningInductive, PTL

\* An upload that firmware.rs gets to the end of is detected, unless another
\* file was written over before.
THEOREM UploadHeals == Spec => []RetryHeals
<1>1. IInv => RetryHeals
  <2> SUFFICES ASSUME IInv, pc = "detect", ~Spoilt(flash) PROVE Detected
    BY DEF RetryHeals, Spoilt
  <2>1. flash.signature = file /\ file \in Files /\ \A i \in Places : flash.payload[i] = file
    BY DEF IInv, Uploading, Written, Spoilt
  <2>2. flash.payload = [i \in Places |-> file]
    BY <2>1 DEF IInv, Sound, FlashContents
  <2> QED
    BY <2>1, <2>2 DEF Detected
<1> QED BY <1>1, ProvisioningInductive, PTL

\* init_flash that ends with Ok(true) has paired the sensor to this machine.
THEOREM InitPairs == Spec => OkIsPaired
<1>1. IInv /\ [Next]_vars => [tool = "init" /\ tool' = "none" /\ result' = "ok" => Opens']_vars
  <2> SUFFICES ASSUME IInv, Next, tool = "init", tool' = "none", result' = "ok" PROVE Opens'
    OBVIOUS
  <2>1. Check
    BY DEF Next, Move, Store, InitFlash, FactoryReset, Upload, Run, Info, PartitionFlash, Open,
           ErasePartition, WriteRecord, Wipe, Connect, WriteChunk, Sign, Detect, Interrupt,
           End, runVars, IInv, Underway
  <2>2. /\ flash = [Blank EXCEPT !.record = [key |-> key, host |-> host]]
        /\ key \in Keys /\ host \in Hosts /\ UNCHANGED <<flash, host>>
    BY <2>1 DEF Check, End, Persisted, Blank, Bare, IInv, TypeOK, Pairing
  <2>3. flash.record = [key |-> key, host |-> host] /\ flash.table = key
    BY <2>2 DEF Blank, Bare
  <2> QED
    BY <2>2, <2>3 DEF Opens, Records
<1> QED BY <1>1, ProvisioningInductive, PTL DEF Spec, OkIsPaired

\* init_flash and upload, repeated and cut short in any order, take nothing
\* away that works; only factory_reset does.
THEOREM OnlyResetLoses == Spec => LostOnlyByReset
<1> DEFINE Kept == pc # "wipe" => /\ Opens /\ host' = host => Opens'
                                  /\ Detected => Detected'
                                  /\ flash.stored \subseteq flash'.stored
<1>1. IInv /\ [Next]_vars => [Kept]_vars
  <2> SUFFICES ASSUME IInv, [Next]_vars, pc # "wipe"
               PROVE  /\ Opens /\ host' = host => Opens'
                      /\ Detected => Detected'
                      /\ flash.stored \subseteq flash'.stored
    OBVIOUS
  <2>1. /\ Opens => flash'.record = flash.record /\ flash'.table = flash.table
        /\ Detected => flash'.payload = flash.payload /\ flash'.signature = flash.signature
        /\ flash.stored \subseteq flash'.stored
    <3>1. CASE flash' \in {flash} \cup Obeyed
      BY <3>1, ObeyedKeeps DEF Detected, Whole
    <3>2. CASE /\ flash' = [flash EXCEPT !.stored = flash'.stored]
               /\ flash.stored \subseteq flash'.stored
      BY <3>2 DEF IInv, Sound, FlashContents
    <3> QED
      BY <3>1, <3>2, FlashStep
  <2> QED
    BY <2>1 DEF Opens, Detected
<1> QED BY <1>1, ProvisioningInductive, PTL DEF Spec, LostOnlyByReset

=============================================================================
