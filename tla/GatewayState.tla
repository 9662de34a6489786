---------------------------- MODULE GatewayState -----------------------------
(***************************************************************************)
(* The gateway-state import (core/gateway_state.py): what an operator       *)
(* pastes from the gateway becomes records, and a record fills what the     *)
(* wire hid of the sessions it matches, or is noted as drift.               *)
(*                                                                         *)
(* The three command outputs are sequences of the SAs and connections they  *)
(* list, with None for a line that is not there; swanctl.conf is a sequence *)
(* of [key, value] lines, because the parser cuts it by position.           *)
(***************************************************************************)
EXTENDS Rules

\* What a record may say of each field.
GatewayValues ==
    [version |-> {"IKEv1", "IKEv2"}, mode |-> {"tunnel", "transport"},
     pfs_status |-> {"enabled", "disabled"}, auth_method |-> {"PSK", "EAP", "XAUTH"},
     anti_replay |-> BOOLEAN]

GatewayFields == DOMAIN GatewayValues

Value(name, value) == [n \in {name} |-> value]
Optional(name, values) == IF values = <<>> THEN <<>> ELSE Value(name, Last(values))

GatewayRecord(source, local, remote, spi, values) ==
    [source |-> source, local |-> local, remote |-> remote, ike_spi_i |-> spi,
     values |-> values]

Column(rows, field) ==
    LET Given(row) == row[field] # None
        given == Filter(rows, Given)
    IN  [k \in 1..Len(given) |-> given[k][field]]
-----------------------------------------------------------------------------
(* swanctl --list-sas: a DH group in the ESP proposal of a child is PFS      *)

parse_list_sas(sas) ==
    LET Pfs(child) == child.dh
        Of(sa) == GatewayRecord("swanctl --list-sas", sa.local, sa.remote, sa.spi,
                    Joined(Joined(Value("version", sa.version),
                                  Optional("mode", Column(sa.children, "mode"))),
                           IF Some(sa.children, Pfs) THEN Value("pfs_status", "enabled")
                           ELSE <<>>))
    IN  [k \in 1..Len(sas) |-> Of(sas[k])]

\* swanctl --list-conns: auth is PSK, EAP or XAUTH, or None for another method.
parse_list_conns(conns) ==
    LET Of(conn) == GatewayRecord("swanctl --list-conns", conn.local, conn.remote, None,
                      Joined(Joined(Value("version", conn.version),
                                    Optional("auth_method", Column(conn.remotes, "auth"))),
                             Optional("mode", Column(conn.children, "mode"))))
    IN  [k \in 1..Len(conns) |-> Of(conns[k])]

\* ip xfrm state: one record for each pair of peers.  Outbound SAs show window 0,
\* so protection is off only if none of two or more windows is open.
parse_xfrm(sas) ==
    LET PairOf(sa) == {sa.src, sa.dst}
        Of(group) ==
            LET modes == ToSet(Column(group, "mode"))
                windows == Column(group, "window")
                Open(w) == w > 0
            IN  GatewayRecord("ip xfrm state", group[1].src, group[1].dst, None,
                  Joined(IF modes \in {{"tunnel"}, {"transport"}}
                         THEN Value("mode", CHOOSE m \in modes : TRUE) ELSE <<>>,
                         IF Len(windows) >= 2 THEN Value("anti_replay", Some(windows, Open))
                         ELSE <<>>))
        groups == GroupBy(sas, PairOf)
    IN  [k \in 1..Len(groups) |-> Of(groups[k])]
-----------------------------------------------------------------------------
(* swanctl.conf: one record for each remote_addrs line.  Its block runs to   *)
(* the next one, its head from the one before.                               *)

ConfValues(lines, key) ==
    LET Is(line) == line.key = key
        found == Filter(lines, Is)
    IN  [k \in 1..Len(found) |-> found[k].value]

\* The value of the line is a sequence, in which a proposal is TRUE if it names a DH
\* group; it is empty for a line that says default.
PfsDeclared(esp) ==
    LET proposals == UNION {ToSet(esp[k]) : k \in 1..Len(esp)}
    IN  CASE esp = <<>> \/ <<>> \in ToSet(esp) -> <<>>
          [] esp # <<>> /\ proposals = {TRUE}  -> Value("pfs_status", "enabled")
          [] esp # <<>> /\ proposals = {FALSE} -> Value("pfs_status", "disabled")
          [] OTHER -> <<>>

AuthDeclared(auths) ==
    CASE auths # <<>> /\ ToSet(auths) = {"psk"} -> Value("auth_method", "PSK")
      [] "eap" \in ToSet(auths) -> Value("auth_method", "EAP")
      [] OTHER -> <<>>

ModeDeclared(modes, children) ==
    CASE modes # <<>> -> Value("mode", modes[1])
      [] modes = <<>> /\ children # <<>> -> Value("mode", "tunnel")
      [] OTHER -> <<>>

ConfRecord(head, block) ==
    GatewayRecord("swanctl.conf",
      IF ConfValues(head, "local_addrs") = <<>> THEN None ELSE Last(ConfValues(head, "local_addrs")),
      ConfValues(block, "remote_addrs")[1], None,
      Joined(Joined(Optional("version", ConfValues(head \o block, "version")),
                    AuthDeclared(ConfValues(block, "auth"))),
             Joined(ModeDeclared(ConfValues(block, "mode"), ConfValues(block, "children")),
                    PfsDeclared(ConfValues(block, "esp_proposals")))))

parse_swanctl_conf(body) ==
    LET starts == Picked([k \in 1..Len(body) |-> k],
                         {k \in 1..Len(body) : body[k].key = "remote_addrs"})
        From(i) == IF i = 0 THEN 1 ELSE starts[i]
        Upto(i) == IF i = Len(starts) THEN Len(body) ELSE starts[i + 1] - 1
    IN  [i \in 1..Len(starts) |->
           ConfRecord(SubSeq(body, From(i - 1), starts[i] - 1), SubSeq(body, starts[i], Upto(i)))]

\* Several outputs may be pasted together.
parse_gateway_state(text) ==
    parse_list_sas(text.list_sas) \o parse_list_conns(text.list_conns)
      \o parse_swanctl_conf(text.conf) \o parse_xfrm(text.xfrm)
-----------------------------------------------------------------------------
(* Applying the records *)

PeersNamed(rec) == {rec.local, rec.remote} \ {None}

RecordMatches(s, rec) ==
    \/ rec.ike_spi_i # None /\ s.session_id[1] = "ike" /\ s.session_id[2] = rec.ike_spi_i
    \/ PeersNamed(rec) # {} /\ PeersNamed(rec) = {s.initiator_ip, s.responder_ip}

\* anti_replay is None where it is not known, the others are "unknown".
Unknown(ike, name) == ike[name] = None \/ (name # "anti_replay" /\ ike[name] = "unknown")

\* Mutant of Unobserved: a guess of the classifier counts as seen.
UnobservedUnlessGuessed(ike, name) == Unknown(ike, name)

Unobserved(ike, name) == Unknown(ike, name) \/ name \in ike.inferred_fields

\* Mutant of Drift: a second record is compared with what the first one filled in.
DriftFromFirst(ike, rec) ==
    {n \in DOMAIN rec.values : ~Unobserved(ike, n) /\ ike[n] # rec.values[n]}

\* Only what the wire showed is compared, never what an earlier record filled in.
Drift(ike, rec) ==
    {n \in DOMAIN rec.values \ ike.gateway_fields : ~Unobserved(ike, n) /\ ike[n] # rec.values[n]}

ApplyRecord(ike, rec) ==
    LET filled == {n \in DOMAIN rec.values : Unobserved(ike, n)}
    IN  [[n \in DOMAIN ike |-> IF n \in filled THEN rec.values[n] ELSE ike[n]] EXCEPT
           !.inferred_fields = @ \ filled,
           !.gateway_fields = @ \cup filled,
           !.gateway_mismatches = @ \cup {<<n, ike[n], rec.source, rec.values[n]>> : n \in Drift(ike, rec)}]

\* The parameters of a session after each of the records in turn.
IkeAfter(s, records) ==
    LET ike[k \in 0..Len(records)] ==
          IF k = 0 THEN s.ike
          ELSE IF RecordMatches(s, records[k]) THEN ApplyRecord(ike[k - 1], records[k])
          ELSE ike[k - 1]
    IN  ike

Attached(s, records) == [s EXCEPT !.ike = IkeAfter(s, records)[Len(records)]]

apply_gateway_state(sessions, records) == {Attached(s, records) : s \in sessions}
=============================================================================
