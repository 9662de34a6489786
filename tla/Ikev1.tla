------------------------------- MODULE Ikev1 --------------------------------
(***************************************************************************)
(* Stage 2 for IKEv1 (core/ike_parser/ikev1.py).  An SA payload holds the  *)
(* first transform of its first proposal, or Malformed where the bytes     *)
(* make _first_transform raise; an attribute that is not there is None.    *)
(* Quick Mode is read where its messages could be decrypted: the others    *)
(* have no payloads.                                                       *)
(***************************************************************************)
EXTENDS Ikev2

HasV1(m, type) == \E k \in 1..Len(m.payloads) : m.payloads[k].type = type

SaOf(m) == LET Is(p) == p.type = "SA" IN First(m.payloads, Is, None)

\* The message that opens phase 1; None if the capture does not have it.
Phase1Initial(messages) ==
    LET Opens(m) == m.message_id = 0 /\ HasV1(m, "SA") IN First(messages, Opens, None)

\* Mutant of AggressiveMode: it is the mode with the short handshake.
AggressiveByCount(messages) ==
    LET Handshake(m) == m.message_id = 0
    IN  Some(messages, Handshake) /\ Len(Filter(messages, Handshake)) <= 3

\* The identity travels in the opening message in Aggressive Mode only.
AggressiveMode(messages) ==
    LET initial == Phase1Initial(messages)
        Says(m) == m.exchange = "AGGRESSIVE"
    IN  IF initial # None THEN HasV1(initial, "ID") \/ Says(initial)
        ELSE Some(messages, Says)

\* The transform phase 1 is read from: never that of a Quick Mode, whose
\* attributes have other numbers.
Phase1Transform(messages) ==
    LET Has1(m) == m.exchange # "QUICK" /\ HasV1(m, "SA")
        initial == Phase1Initial(messages)
        m == IF initial # None THEN initial ELSE First(messages, Has1, None)
    IN  IF m = None THEN Malformed ELSE SaOf(m).transform

QuickMode(messages) ==
    LET Is(m) == m.exchange = "QUICK" /\ HasV1(m, "SA") IN First(messages, Is, None)

Canon(value, Name(_)) == IF value = None THEN Unset ELSE Name(value)

LifetimeOf(attrs) ==
    IF attrs.life_duration # None /\ attrs.life_type \in {None, 1}
    THEN attrs.life_duration ELSE Unset

Phase1Unread == [encryption |-> Unset, integrity |-> Unset, prf |-> Unset,
                 auth_method |-> Unset, dh_group |-> Unset, sa_lifetime_sec |-> Unset]

ApplyPhase1Sa(t) ==
    LET attrs == t.attrs
        Cipher(id) == canon_v1_encryption(id, attrs.key_length)
    IN  [encryption |-> Canon(attrs.encryption, Cipher),
         integrity |-> Canon(attrs.hash, canon_v1_integrity),
         prf |-> Canon(attrs.hash, canon_v1_prf),
         auth_method |-> Canon(attrs.auth_method, canon_v1_auth_method),
         dh_group |-> Canon(attrs.group_desc, canon_dh_group),
         sa_lifetime_sec |-> LifetimeOf(attrs)]

\* What a Quick Mode says of the IPsec SA overrides what phase 1 said of the IKE SA.
SuiteOfIpsec(phase1, attrs, id) ==
    LET integrity == Canon(attrs.auth_alg, canon_v1_esp_integrity)
    IN  [phase1 EXCEPT
           !.encryption = canon_v1_esp_encryption(id, attrs.key_length),
           !.integrity = Default(integrity, @),
           !.dh_group = IF attrs.group_desc \notin {None, 0}
                        THEN canon_dh_group(attrs.group_desc) ELSE @,
           !.sa_lifetime_sec = Default(LifetimeOf(attrs), @)]

ModeAndPfs(attrs, has_ke) ==
    [mode |-> CASE attrs.encap_mode \in {2, 4} -> "transport"
                [] attrs.encap_mode \in {1, 3} -> "tunnel"
                [] OTHER -> "unknown",
     pfs_status |-> IF has_ke \/ attrs.group_desc \notin {None, 0}
                    THEN "enabled" ELSE "disabled"]

ApplyQuickMode(phase1, t, has_ke) ==
    Joined(SuiteOfIpsec(phase1, t.attrs, t.id), ModeAndPfs(t.attrs, has_ke))

\* The suite of an SA, given the transform of its phase 1 and its Quick Mode.
SuiteV1(t1, quick) ==
    LET phase1 == IF t1 = Malformed THEN Phase1Unread ELSE ApplyPhase1Sa(t1)
    IN  IF quick = None \/ SaOf(quick).transform = Malformed
        THEN Joined(phase1, [mode |-> "unknown", pfs_status |-> "unknown"])
        ELSE ApplyQuickMode(phase1, SaOf(quick).transform, HasV1(quick, "KE"))

FieldsV1(messages, ctx, complete) ==
    LET NatD(m) == HasV1(m, "NAT_D")
        suite == SuiteV1(Phase1Transform(messages), QuickMode(messages))
    IN  Joined([suite EXCEPT !.sa_lifetime_sec = Default(@, None)],
               [version |-> "IKEv1", aggressive_mode |-> AggressiveMode(messages),
                ip_version |-> ctx.ip_version,
                nat_traversal |-> ctx.nat_traversal \/ Some(messages, NatD),
                additional_key_exchanges |-> <<>>,
                capture_complete |-> complete])

AnalyseV1(messages, ctx) ==
    LET complete == Phase1Initial(messages) # None
    IN  SessionOf(messages[1].initiator_spi, messages, ctx,
                  Joined(WithPqc(mark_unobserved(FieldsV1(messages, ctx, complete))),
                         EdgeCases(messages, ctx, "IKEv1", complete)))

ParseV1(raw) ==
    AnalyseV1(MessagesOf(raw.ike_frames, "IKEv1"), FramesCtx(raw.ike_frames, raw.esp_frames))
=============================================================================
