----------------------------- MODULE Transforms -----------------------------
(***************************************************************************)
(* From IANA numbers to the names the rules read                           *)
(* (core/ike_parser/_transforms.py).  A number the tables do not know      *)
(* keeps its place in the name, so that it never reads as another one.     *)
(***************************************************************************)
EXTENDS Naturals, Sequences, TLC

CONSTANT None   \* Python's None: not there, or nothing to say

Named(table, id, other) ==
    IF id \in DOMAIN table THEN table[id] ELSE other \o ToString(id)

\* A cipher whose key length is an attribute: 128 where the peer left it out.
Sized(cipher, key_length, mode) ==
    cipher \o "-" \o ToString(IF key_length \in {None, 0} THEN 128 ELSE key_length) \o mode

AES(key_length, mode) == Sized("AES", key_length, mode)
-----------------------------------------------------------------------------
(* IKEv2 *)

is_aead_encr(id) == id \in {14, 15, 16, 18, 19, 20, 28}

canon_encryption(id, key_length) ==
    CASE id = 12 -> AES(key_length, "-CBC")
      [] id = 13 -> AES(key_length, "-CTR")
      [] id \in {18, 19, 20} -> AES(key_length, "-GCM")
      [] id \in {14, 15, 16} -> AES(key_length, "-CCM")
      [] id = 23 -> Sized("CAMELLIA", key_length, "-CBC")
      [] OTHER -> Named(2 :> "DES-CBC" @@ 3 :> "3DES-CBC" @@ 11 :> "NULL"
                        @@ 28 :> "CHACHA20-POLY1305", id, "ENCR_")

canon_integrity(id, aead) ==
    IF aead THEN "implicit"
    ELSE IF id = None THEN None
    ELSE Named(0 :> None @@ 1 :> "HMAC-MD5" @@ 2 :> "HMAC-SHA1" @@ 5 :> "AES-XCBC"
               @@ 12 :> "HMAC-SHA256" @@ 13 :> "HMAC-SHA384" @@ 14 :> "HMAC-SHA512",
               id, "INTEG_")

canon_prf(id) ==
    Named(1 :> "PRF_HMAC_MD5" @@ 2 :> "PRF_HMAC_SHA1" @@ 4 :> "PRF_AES128_XCBC"
          @@ 5 :> "PRF_HMAC_SHA2_256" @@ 6 :> "PRF_HMAC_SHA2_384"
          @@ 7 :> "PRF_HMAC_SHA2_512", id, "PRF_")

MlKem == {"ML-KEM-512", "ML-KEM-768", "ML-KEM-1024"}

canon_dh_group(id) ==
    Named(0 :> None @@ 1 :> "MODP768" @@ 2 :> "MODP1024" @@ 5 :> "MODP1536"
          @@ 14 :> "MODP2048" @@ 15 :> "MODP3072" @@ 16 :> "MODP4096" @@ 17 :> "MODP6144"
          @@ 18 :> "MODP8192" @@ 19 :> "ECP256" @@ 20 :> "ECP384" @@ 21 :> "ECP521"
          @@ 31 :> "Curve25519" @@ 32 :> "Curve448" @@ 35 :> "ML-KEM-512"
          @@ 36 :> "ML-KEM-768" @@ 37 :> "ML-KEM-1024", id, "DH_GROUP_")

pqc_status(dh_group, additional) ==
    CASE dh_group \in {None, "unknown"} -> "unknown"
      [] dh_group \notin {None, "unknown"} /\ (additional # <<>> \/ dh_group \in MlKem)
             -> "hybrid"
      [] OTHER -> "classical"

canon_auth_method(method, eap) ==
    IF eap THEN "EAP"
    ELSE IF method = None THEN None
    ELSE Named(2 :> "PSK" @@ 1 :> "RSA" @@ 14 :> "RSA" @@ 3 :> "DSS"
               @@ 9 :> "ECDSA" @@ 10 :> "ECDSA" @@ 11 :> "ECDSA", method, "AUTH_METHOD_")
-----------------------------------------------------------------------------
(* IKEv1, phase 1 *)

canon_v1_encryption(id, key_length) ==
    CASE id = 7 -> AES(key_length, "-CBC")
      [] id = 8 -> Sized("CAMELLIA", key_length, "-CBC")
      [] OTHER -> Named(1 :> "DES-CBC" @@ 2 :> "IDEA-CBC" @@ 3 :> "BLOWFISH-CBC"
                        @@ 4 :> "RC5-CBC" @@ 5 :> "3DES-CBC" @@ 6 :> "CAST-CBC", id, "ENCR_")

canon_v1_integrity(hash) ==
    Named(1 :> "HMAC-MD5" @@ 2 :> "HMAC-SHA1" @@ 4 :> "HMAC-SHA256" @@ 5 :> "HMAC-SHA384"
          @@ 6 :> "HMAC-SHA512", hash, "HASH_")

canon_v1_prf(hash) ==
    Named(1 :> "PRF_HMAC_MD5" @@ 2 :> "PRF_HMAC_SHA1" @@ 4 :> "PRF_HMAC_SHA2_256"
          @@ 5 :> "PRF_HMAC_SHA2_384" @@ 6 :> "PRF_HMAC_SHA2_512", hash, "PRF_")

canon_v1_auth_method(method) ==
    IF method \in 65001..65010 \cup 128..131 THEN "XAUTH"
    ELSE Named(1 :> "PSK" @@ 2 :> "DSS" @@ 3 :> "RSA" @@ 4 :> "RSA" @@ 5 :> "RSA",
               method, "AUTH_METHOD_")

(* IKEv1, Quick Mode: the transform id is the cipher *)

canon_v1_esp_encryption(id, key_length) ==
    CASE id = 12 -> AES(key_length, "-CBC")
      [] id = 13 -> AES(key_length, "-CTR")
      [] id \in {18, 19, 20} -> AES(key_length, "-GCM")
      [] id \in {14, 15, 16} -> AES(key_length, "-CCM")
      [] OTHER -> Named(2 :> "DES-CBC" @@ 3 :> "3DES-CBC" @@ 4 :> "DES-IV32" @@ 5 :> "RC5-CBC"
                        @@ 6 :> "IDEA-CBC" @@ 7 :> "CAST-CBC" @@ 8 :> "BLOWFISH-CBC"
                        @@ 10 :> "DES-IV64" @@ 11 :> "NULL", id, "ESP_")

canon_v1_esp_integrity(alg) ==
    Named(1 :> "HMAC-MD5" @@ 2 :> "HMAC-SHA1" @@ 3 :> "DES-MAC" @@ 5 :> "HMAC-SHA256"
          @@ 6 :> "HMAC-SHA384" @@ 7 :> "HMAC-SHA512" @@ 8 :> "AES-XCBC" @@ 9 :> "AES-CMAC",
          alg, "AUTH_")
=============================================================================
