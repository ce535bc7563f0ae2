------------------------------- MODULE Crypto -------------------------------
(***************************************************************************)
(* internal/crypto: the AES-256-GCM key under which config-api and         *)
(* config-watcher store SNMP secrets.  A stored value is a record of the   *)
(* key that sealed it and the text inside; the nonce and the base64 are    *)
(* left out, because no property tells two sealings of one text apart.     *)
(***************************************************************************)
CONSTANTS
    Keys,       \* values ENCRYPTION_KEY may be given
    Secrets     \* non-empty secret strings: communities, SNMPv3 passphrases

ASSUME CryptoAssumption ==
    /\ "" \notin Keys
    /\ "" \notin Secrets

Plain == Secrets \cup {""}

\* What a credential column may hold.  key = "" marks the empty string, which
\* Encrypt never seals.
Cipher == [key : Keys \cup {""}, text : Plain]

Encrypt(k, plaintext) ==
    [key |-> IF plaintext = "" THEN "" ELSE k, text |-> plaintext]

\* GCM authenticates: a value sealed under another key is an error, never a
\* wrong text.
Decrypts(k, c) == c.text = "" \/ c.key = k

Decrypt(k, c) == c.text
=============================================================================
