------------------------------ MODULE Security -----------------------------
(***************************************************************************)
(* The payload plugins (security/plugin.rs, hmac.rs, aes_gcm.rs).  The     *)
(* ciphers themselves are external: Mac stands for HMAC-SHA256 and Shift   *)
(* with a tag for AES-256-GCM.  What is modelled is the framing, the       *)
(* length checks and which inputs are rejected.                            *)
(***************************************************************************)
EXTENDS Announce

NONCE_LEN == 12
TAG_LEN == 16

Shift(key, nonce, b) == [i \in DOMAIN b |-> (b[i] + key + nonce[1]) % Base]
Unshift(key, nonce, b) == [i \in DOMAIN b |-> (b[i] - key - nonce[1]) % Base]
GcmTag(key, nonce, b) == SubSeq(Mac(key, nonce \o b), 1, TAG_LEN)

HmacSeal(key, plaintext) == plaintext \o Mac(key, plaintext)

\* The nonce is drawn by every call.
AesSeal(key, nonce, plaintext) ==
    nonce \o Shift(key, nonce, plaintext) \o GcmTag(key, nonce, plaintext)

\* A plugin is one of NullPlugin, HmacPlugin and AesGcmPlugin.
seal(plugin, key, nonce, plaintext) ==
    CASE plugin = "null" -> plaintext
      [] plugin = "hmac" -> HmacSeal(key, plaintext)
      [] plugin = "aes"  -> AesSeal(key, nonce, plaintext)

\* Mutant: the shortest sealed payload is taken for a truncated one.
HmacOpenShort(key, b) ==
    LET n == Len(b) - TagLen IN
    IF n <= 0 \/ From(b, n) # Mac(key, Slice(b, 0, n)) THEN <<>> ELSE <<Slice(b, 0, n)>>

\* <<>> for PayloadTooShort and for VerificationFailed.
HmacOpen(key, b) ==
    LET n == Len(b) - TagLen IN
    IF n < 0 THEN <<>>
    ELSE IF From(b, n) # Mac(key, Slice(b, 0, n)) THEN <<>>
    ELSE <<Slice(b, 0, n)>>

AesOpen(key, b) ==
    LET n == Len(b) - NONCE_LEN - TAG_LEN
        nonce == Slice(b, 0, NONCE_LEN)
        plain == Unshift(key, nonce, Slice(b, NONCE_LEN, n))
    IN  IF n < 0 THEN <<>>
        ELSE IF From(b, NONCE_LEN + n) # GcmTag(key, nonce, plain) THEN <<>>
        ELSE <<plain>>

open(plugin, key, b) ==
    CASE plugin = "null" -> <<b>>
      [] plugin = "hmac" -> HmacOpen(key, b)
      [] plugin = "aes"  -> AesOpen(key, b)
=============================================================================
