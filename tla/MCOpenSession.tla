---------------------------- MODULE MCOpenSession ----------------------------
(* A pairing record as make_tls_flash lays it out, and what else partition *)
(* 1 may hold: another host's record, none, one torn by a crash.           *)
EXTENDS OpenSession

Block(id, body) == [id |-> id, body |-> body, intact |-> TRUE]
Torn(block) == [block EXCEPT !.intact = FALSE]

Sealed(host) ==
    <<Block("empty", "zeros"), Block("priv", host), Block("cert", "cert"),
      Block("other", "crt"), Block("other", "zeros"), Block("other", "zeros"),
      Block("ecdh", "point"), Block("end", "none")>>

MCPaired ==
    {Sealed("ours"),
     \* what follows the end marker, or the first key, is not looked at
     Append(Sealed("ours"), Torn(Block("priv", "theirs"))),
     SubSeq(Sealed("ours"), 1, 7) \o <<Block("priv", "theirs")>>}

MCFlashRecords ==
    MCPaired \cup
    {Sealed("theirs"),
     Sealed("zeros"),
     <<Block("end", "none")>>,
     SubSeq(Sealed("ours"), 1, 3) \o <<Torn(Block("other", "crt"))>>,
     SubSeq(Sealed("ours"), 1, 6) \o <<Block("end", "none")>>,
     <<Block("priv", "theirs")>> \o Sealed("ours"),
     [Sealed("ours") EXCEPT ![7] = Block("ecdh", "no point")],
     SelectSeq(Sealed("ours"), LAMBDA b : b.id # "cert")}
=============================================================================
