----------------------------- MODULE OpenSession -----------------------------
(***************************************************************************)
(* How the daemon and the tools open a session: the device opened with a   *)
(* reset, the commands of send_init in the clear, the pairing record read  *)
(* and unsealed, the two flights of the handshake, and commands in records *)
(* from then on.                                                           *)
(*                                                                         *)
(* A command is written and answered in one step and its reply read in     *)
(* another. The replies the sensor has sent and nobody has read are a      *)
(* queue: a read that times out leaves its reply there. The sensor is      *)
(* external: it keeps to the protocol but may refuse anything, end a       *)
(* transfer early, or reboot.                                              *)
(*                                                                         *)
(* A transcript is the sequence of messages folded into it. Random values  *)
(* are numbers used once; keys are the three randoms they come from, and   *)
(* a record can be opened only with the keys it was sealed with.           *)
(***************************************************************************)
EXTENDS Naturals, SequencesExt

CONSTANTS
    FlashRecords,   \* what partition 1 may hold: sequences of blocks
    Paired,         \* those of them that pair the sensor with this host
    MaxAttempts,    \* how often a session is opened
    MaxLate         \* replies left unread

ASSUME OpenAssumption ==
    /\ Paired \subseteq FlashRecords
    /\ MaxAttempts \in Nat /\ MaxLate \in Nat

VARIABLES
    pc,             \* the command to be sent, or whose reply is awaited
    asked,          \* whether it has been sent
    attempts,       \* sessions opened so far
    linked,         \* the handle still reaches the sensor
    lacking,        \* fw_rsp: no firmware extension loaded
    secure_tx, secure_rx,
    handshake_hash, \* the transcript
    client_random, server_random,
    keys,           \* of this side
    pipe,           \* replies sent by the sensor and not read yet
    sensor,         \* the sensor's side of the session
    flash,          \* the pairing record
    firmware,       \* the sensor has a firmware extension
    calm,           \* nothing has gone wrong in this attempt
    rebooted        \* the sensor was reset since this attempt began

tlsVars == <<secure_tx, secure_rx, handshake_hash, client_random, server_random, keys>>
hostVars == <<lacking, tlsVars>>
factVars == <<flash, firmware>>
vars == <<pc, asked, attempts, linked, hostVars, pipe, sensor, factVars, calm, rebooted>>

-----------------------------------------------------------------------------
(* Messages, records and replies.                                          *)

Message(type, value) == [type |-> type, value |-> value]
NoKeys == [client |-> 0, server |-> 0, ephemeral |-> 0]    \* in the clear

\* A handshake record: the messages in it, and what Finished was made from.
Handshake(under, messages, verify) ==
    [type |-> "handshake", under |-> under, messages |-> messages, verify |-> verify,
     whole |-> TRUE]
Record(type, under) ==
    [type |-> type, under |-> under, messages |-> <<>>, verify |-> <<>>, whole |-> TRUE]

ChangeCipherSpec == Record("ccs", NoKeys)
Unreadable == Record("other", NoKeys)    \* no header the parser knows

\* A reply that begins with a status word, and what follows that word.
Status(word) == [status |-> word, records |-> <<Unreadable>>]
Refused == Status("refused")
Records(recs) == [status |-> "refused", records |-> recs]

CheckStatus(reply) == reply.status \in {"ok", "data", "record"}

\* "The firmware may end a transfer mid-header": the records that came whole,
\* then nothing, or a header that is padded to an empty record, or junk.
CutAfter(recs, n) ==
    {Records(SubSeq(recs, 1, n)),
     Records(SubSeq(recs, 1, n) \o <<[recs[n + 1] EXCEPT !.messages = <<>>, !.whole = FALSE]>>),
     Records(SubSeq(recs, 1, n) \o <<Unreadable>>)}

Received(reply) ==
    {reply, [Status("short") EXCEPT !.records = <<>>]}
        \cup UNION {CutAfter(reply.records, n) : n \in 0..(Len(reply.records) - 1)}

-----------------------------------------------------------------------------
(* The pairing record.                                                     *)

\* parse_flash_blocks stops at an end marker, and bails at a block that is
\* too long or fails its digest.
Blocks(record) == SubSeq(record, 1, SelectInSeq(record \o <<[id |-> "end"]>>,
                                                LAMBDA b : b.id = "end") - 1)
Intact(record) == \A i \in 1..Len(Blocks(record)) : Blocks(record)[i].intact

\* blocks.iter().find(|b| b.id == id)
Find(record, id) == SelectSeq(Blocks(record), LAMBDA b : b.id = id)
Holds(record, id, body) == Find(record, id) # <<>> /\ Head(Find(record, id)).body = body

\* build_material: a private key sealed by this host, a certificate, a point.
Material(record) ==
    /\ Intact(record)
    /\ Holds(record, "priv", "ours")
    /\ Find(record, "cert") # <<>>
    /\ Holds(record, "ecdh", "point")

\* What make_tls_flash writes is taken by build_material on the same host.
ASSUME PairedAssumption == \A record \in Paired : Material(record)

-----------------------------------------------------------------------------
(* Init; the sensor; the device opened and dropped.                        *)

Booted == [mode |-> "booted", cleaned |-> FALSE, keys |-> NoKeys, log |-> <<>>]

Init ==
    /\ pc = "closed" /\ asked = FALSE
    /\ attempts = 0 /\ linked = FALSE
    /\ lacking = FALSE
    /\ secure_tx = FALSE /\ secure_rx = FALSE
    /\ handshake_hash = <<>>
    /\ client_random = 0 /\ server_random = 0 /\ keys = NoKeys
    /\ pipe = <<>> /\ sensor = Booted
    /\ flash \in FlashRecords /\ firmware \in BOOLEAN
    /\ calm = FALSE /\ rebooted = FALSE

\* Usb::open_device: "a reset clears that, so every tool starts from a known
\* state". That it may fail is ignored.
Open ==
    /\ pc = "closed"
    /\ attempts < MaxAttempts
    /\ attempts' = attempts + 1
    /\ pc' = "rom" /\ asked' = FALSE /\ linked' = TRUE
    /\ rebooted' = FALSE
    /\ \/ /\ pipe' = <<>> /\ sensor' = Booted
          /\ calm' = (flash \in Paired)
       \/ /\ UNCHANGED <<pipe, sensor>>
          /\ calm' = FALSE
    /\ UNCHANGED <<hostVars, factVars>>

\* A power cut, a resume, a tool that resets it: the sensor forgets, and the
\* handle may or may not survive.
Reboot ==
    /\ linked
    /\ sensor' = Booted
    /\ pipe' = <<>>
    /\ linked' \in BOOLEAN
    /\ calm' = FALSE /\ rebooted' = TRUE
    /\ UNCHANGED <<pc, asked, attempts, hostVars, factVars>>

\* A bug: the state goes, the handle stays.
CloseKeepsHandle ==
    /\ pc \in {"failed", "open"} /\ ~asked
    /\ pc' = "closed"
    /\ UNCHANGED <<asked, attempts, linked, hostVars, pipe, sensor, factVars, calm, rebooted>>

\* A session that failed to open is dropped; one that is open may be.
Close ==
    /\ pc \in {"failed", "open"} /\ ~asked
    /\ pc' = "closed" /\ linked' = FALSE
    /\ UNCHANGED <<asked, attempts, hostVars, pipe, sensor, factVars, calm, rebooted>>

\* `?` on the write or on the read of a command: the reply may still come.
GivesUp == IF pc = "open" THEN pc' \in {"open", "failed"} ELSE pc' = "failed"
TimesOut ==
    /\ pc \notin {"closed", "failed"}
    /\ \/ UNCHANGED pipe
       \/ asked /\ pipe # <<>> /\ pipe' = Front(pipe)
    /\ Len(pipe') <= MaxLate
    /\ asked' = FALSE
    /\ GivesUp
    /\ calm' = FALSE
    /\ UNCHANGED <<attempts, linked, hostVars, sensor, factVars, rebooted>>

\* A command is written: the sensor replies in its turn, or refuses.
Send(command, reply, state) ==
    /\ pc = command /\ ~asked /\ linked
    /\ asked' = TRUE
    /\ \/ /\ pipe' = Append(pipe, reply)
          /\ sensor' = state
          /\ UNCHANGED calm
       \/ /\ pipe' = Append(pipe, Refused)
          /\ calm' = FALSE
          /\ UNCHANGED sensor
    /\ UNCHANGED <<pc, attempts, linked, lacking, factVars, rebooted>>

\* The first unread reply is read, as far as it came.
Read(command, reply) ==
    /\ pc = command /\ asked /\ linked /\ pipe # <<>>
    /\ reply \in Received(Head(pipe))
    /\ pipe' = Tail(pipe)
    /\ asked' = FALSE
    /\ calm' = (calm /\ reply = Head(pipe))
    /\ UNCHANGED <<attempts, linked, sensor, factVars, rebooted>>

-----------------------------------------------------------------------------
(* Commands in the clear.                                                  *)

\* With a session or half a one, "even plain commands fail".
Plain(command, reply, state) ==
    /\ IF sensor.mode \in {"booted", "ready"}
       THEN Send(command, reply, state)
       ELSE Send(command, Refused, sensor)
    /\ UNCHANGED tlsVars

SendPlain ==
    \/ Plain("rom", Status("data"), sensor)
    \/ Plain("init", Status("ok"), sensor)
    \/ Plain("fwinfo", IF firmware THEN Status("data") ELSE Refused, sensor)
    \/ Plain("blob", Status("ok"), [sensor EXCEPT !.mode = "ready"])
    \/ Plain("clean", Status("ok"), [sensor EXCEPT !.cleaned = TRUE])
    \/ Plain("flash", Status("record"), sensor)

\* ROM information, init command, firmware information, the signed blob.
ReadInit(reply) ==
    /\ \/ Read("rom", reply) /\ pc' = IF CheckStatus(reply) THEN "init" ELSE "failed"
       \/ Read("init", reply) /\ pc' = IF CheckStatus(reply) THEN "fwinfo" ELSE "failed"
       \/ Read("blob", reply)
          /\ pc' = IF ~CheckStatus(reply) THEN "failed" ELSE IF lacking THEN "clean" ELSE "flash"
    /\ UNCHANGED hostVars

ReadFirmware(reply) ==
    /\ Read("fwinfo", reply)
    /\ lacking' = (reply.status = "refused")
    /\ pc' = "blob"
    /\ UNCHANGED tlsVars

\* The answer to the clean slate is not looked at.
ReadClean(reply) ==
    /\ Read("clean", reply)
    /\ pc' = "flash"
    /\ UNCHANGED hostVars

\* read_tls_flash, parse_flash_blocks, build_material
ReadFlash(reply) ==
    /\ Read("flash", reply)
    /\ pc' = IF reply.status = "record" /\ Material(flash) THEN "hello" ELSE "failed"
    /\ UNCHANGED hostVars

-----------------------------------------------------------------------------
(* The handshake.                                                          *)

ClientHello == Message("client hello", client_random')
ServerHello(value) == Message("server hello", value)
CertificateRequest == Message("certificate request", 0)
ServerHelloDone == Message("server hello done", 0)
Finished == Message("finished", 0)

\* What the sensor keeps of a ClientHello, and its flight: in one record or three.
Greeted(hello, value) ==
    [sensor EXCEPT !.mode = "hello",
                   !.keys = [client |-> hello.value, server |-> value, ephemeral |-> 0],
                   !.log = <<hello, ServerHello(value), CertificateRequest, ServerHelloDone>>]
HelloFlights(log) ==
    {Records(<<Handshake(NoKeys, Tail(log), <<>>)>>),
     Records([i \in 1..3 |-> Handshake(NoKeys, <<log[i + 1]>>, <<>>)])}

\* Tls::new, and Tls::open up to the first write.
SendHello ==
    /\ pc = "hello"
    /\ secure_tx' = FALSE /\ secure_rx' = FALSE
    /\ client_random' = 3 * attempts + 1
    /\ handshake_hash' = <<ClientHello>>
    /\ server_random' = 0 /\ keys' = NoKeys
    /\ LET greeted == Greeted(ClientHello, 3 * attempts + 2)
       IN IF sensor.mode = "ready" /\ (firmware \/ sensor.cleaned)
          THEN \E flight \in HelloFlights(greeted.log) : Send("hello", flight, greeted)
          ELSE Send("hello", Refused, sensor)

\* A message of a handshake record, then its fold into the transcript.
\* handle_server_finish compares with the transcript as it was before.
HandleMessage(tls, message, verify) ==
    LET ok == tls.ok /\ (message.type = "finished" => verify = tls.log)
    IN IF ~ok THEN [tls EXCEPT !.ok = FALSE]
       ELSE [tls EXCEPT
               !.log = Append(@, message),
               !.random = IF message.type = "server hello" THEN message.value ELSE @]

HandleMessages(tls, record) ==
    FoldLeft(LAMBDA t, m : HandleMessage(t, m, record.verify), tls, record.messages)

\* A record as it was sealed, or in the clear: `secure_rx` says which is read.
Readable(tls, record) ==
    IF tls.rx THEN record.under = tls.keys /\ record.whole ELSE record.under = NoKeys

HandleRecord(tls, record) ==
    IF ~tls.ok THEN tls
    ELSE CASE record.type = "handshake" /\ Readable(tls, record) -> HandleMessages(tls, record)
           [] record.type = "ccs" -> [tls EXCEPT !.rx = @ \/ record.whole, !.ok = record.whole]
           [] record.type = "app" -> [tls EXCEPT !.ok = tls.rx /\ Readable(tls, record)]
           [] OTHER -> [tls EXCEPT !.ok = FALSE]

\* parse_tls_response: all the records of a reply, up to one that is wrong.
ParseResponse(reply) ==
    FoldLeft(HandleRecord,
             [log |-> handshake_hash, random |-> server_random, rx |-> secure_rx,
              keys |-> keys, ok |-> TRUE],
             reply.records)

\* The reply is read and parsed; what was parsed before an error stays.
ReadRecords(command, reply) ==
    /\ Read(command, reply)
    /\ LET tls == ParseResponse(reply)
       IN /\ handshake_hash' = tls.log
          /\ server_random' = tls.random
          /\ secure_rx' = tls.rx
    /\ UNCHANGED <<lacking, secure_tx, client_random, keys>>

ReadHello(reply) ==
    /\ ReadRecords("hello", reply)
    /\ pc' = IF ParseResponse(reply).ok THEN "flight" ELSE "failed"

\* make_keys, make_certs, make_client_kex and make_cert_verify: the keys, and
\* the transcript with the client's flight in it.
MakeKeys == [client |-> client_random, server |-> server_random, ephemeral |-> 3 * attempts + 3]
Flight == <<Message("certificate", 0), Message("key exchange", 3 * attempts + 3),
            Message("certificate verify", 0)>>

\* The client's Finished: what it is made from; it is not folded.
MakeFinish == handshake_hash \o Flight
\* A bug: it is folded, as every other message is.
FoldsItsOwn(finish) == Append(finish, Finished)
Fold(finish) == finish

\* The sensor has derived the same keys, the signature is over its own
\* transcript, and Finished is made from it.
Accepts(finish) ==
    /\ sensor.mode = "hello"
    /\ [sensor.keys EXCEPT !.ephemeral = 3 * attempts + 3] = MakeKeys
    /\ sensor.log = handshake_hash
    /\ finish = sensor.log \o Flight

SendFlight ==
    /\ pc = "flight"
    /\ keys' = MakeKeys
    /\ secure_tx' = TRUE
    /\ handshake_hash' = Fold(MakeFinish)
    /\ IF Accepts(MakeFinish)
       THEN Send("flight",
                 Records(<<ChangeCipherSpec, Handshake(keys', <<Finished>>, MakeFinish)>>),
                 [sensor EXCEPT !.mode = "secure", !.keys = keys', !.log = MakeFinish])
       ELSE Send("flight", Refused, sensor)
    /\ UNCHANGED <<secure_rx, client_random, server_random>>

\* A bug: every record was good, so the channel is taken to be secure.
TakenAsRead(tls) == tls.ok

\* "handshake completed without establishing a secure channel"
Established(tls) == tls.ok /\ secure_tx /\ tls.rx
ReadFlight(reply) ==
    /\ ReadRecords("flight", reply)
    /\ pc' = IF Established(ParseResponse(reply)) THEN "open" ELSE "failed"

-----------------------------------------------------------------------------
(* Commands of an open session.                                            *)

\* Tls::cmd: a record, answered by one under the same keys.
SendCommand ==
    /\ secure_tx /\ secure_rx
    /\ IF sensor.mode = "secure" /\ sensor.keys = keys
       THEN Send("open", Records(<<Record("app", keys)>>), sensor)
       ELSE Send("open", Refused, sensor)
    /\ UNCHANGED tlsVars

\* An error is the caller's to judge.
ReadAnswer(reply) ==
    /\ ReadRecords("open", reply)
    /\ IF ParseResponse(reply).ok THEN pc' = "open" ELSE pc' \in {"open", "failed"}

-----------------------------------------------------------------------------
Next ==
    \/ Open \/ Reboot \/ Close \/ TimesOut
    \/ SendPlain \/ SendHello \/ SendFlight \/ SendCommand
    \/ \E reply \in IF pipe = <<>> THEN {} ELSE Received(Head(pipe)) :
          \/ ReadInit(reply) \/ ReadFirmware(reply) \/ ReadClean(reply) \/ ReadFlash(reply)
          \/ ReadHello(reply) \/ ReadFlight(reply) \/ ReadAnswer(reply)

Spec == Init /\ [][Next]_vars

-----------------------------------------------------------------------------
(* Properties.                                                             *)

Commands == {"rom", "init", "fwinfo", "blob", "clean", "flash", "hello", "flight", "open"}
SomeKeys == [client : Nat, server : Nat, ephemeral : Nat]
MessageTypes == {"client hello", "server hello", "certificate request", "server hello done",
                 "certificate", "key exchange", "certificate verify", "finished"}
SomeMessages == Seq([type : MessageTypes, value : Nat])

\* Every variable has its type; a device that is closed has no handle, and no
\* command waits for a reply without one that was sent (Tls, Usb).
TypeOK ==
    /\ pc \in Commands \cup {"closed", "failed"}
    /\ asked \in BOOLEAN /\ (asked => pc \in Commands)
    /\ attempts \in 0..MaxAttempts
    /\ linked \in BOOLEAN /\ (pc = "closed" => ~linked)
    /\ lacking \in BOOLEAN
    /\ secure_tx \in BOOLEAN /\ secure_rx \in BOOLEAN
    /\ handshake_hash \in SomeMessages
    /\ client_random \in Nat /\ server_random \in Nat /\ keys \in SomeKeys
    /\ Len(pipe) <= MaxLate + 1
    /\ sensor.mode \in {"booted", "ready", "hello", "secure"}
    /\ sensor.cleaned \in BOOLEAN /\ sensor.keys \in SomeKeys /\ sensor.log \in SomeMessages
    /\ flash \in FlashRecords /\ firmware \in BOOLEAN
    /\ calm \in BOOLEAN /\ rebooted \in BOOLEAN

\* "A reset clears that, so every tool starts from a known state": whatever a
\* user before left in the sensor or unread in the pipe, a device opened with a
\* reset that worked opens its session when nothing fails: both sides arrive at
\* the same keys and transcripts (Usb::open_device, send_init, Tls::open).
FaultlessOpens == pc = "failed" => ~calm

\* A session the host calls open is the one the sensor is in, with the same
\* keys and a transcript the host's continues, whatever was cut short, refused
\* or left over from an attempt before (Tls::open, parse_tls_response).
SessionAgrees ==
    pc = "open" /\ ~rebooted =>
        /\ secure_tx /\ secure_rx
        /\ sensor.mode = "secure" /\ sensor.keys = keys
        /\ IsPrefix(sensor.log, handshake_hash)

=============================================================================
