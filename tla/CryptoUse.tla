------------------------------ MODULE CryptoUse ------------------------------
(***************************************************************************)
(* An application of agate-crypto: it seals and signs, keeps the results   *)
(* in a store beside the codes of their algorithms, and reads them back,   *)
(* possibly under another key or nonce, or with another code.              *)
(***************************************************************************)
EXTENDS Crypto, FiniteSets

CONSTANTS Keys,            \* secret keys: [id, len]
          Nonces,          \* nonces: [id, len, top], top: the first bit is set
          Texts,           \* plaintexts, associated data, messages
          MaxSealed        \* bound: ciphertexts and signatures made

ASSUME CryptoAssumption == \A k \in Keys : k = [id |-> k.id, len |-> k.len]

VARIABLES sealed,  \* the ciphertexts handed out
          signed,  \* the signatures handed out
          asked,   \* the last request of the application
          reply    \* and what it got

cryptoVars == <<sealed, signed, asked, reply>>

NothingAsked == [op |-> "none"]

CryptoInit == sealed = {} /\ signed = {} /\ asked = NothingAsked /\ reply = NothingAsked

Room == Cardinality(sealed) + Cardinality(signed) < MaxSealed

Seal(algo, key, nonce, aad, plain) ==
    LET r == Encrypt(algo, key, nonce, aad, plain)
    IN  /\ Room
        /\ asked' = [op |-> "seal", algo |-> algo, key |-> key, nonce |-> nonce]
        /\ reply' = r
        /\ sealed' = IF "bytes" \in DOMAIN r
                     THEN sealed \cup {[c |-> r, key |-> key, nonce |-> nonce, aad |-> aad,
                                        plain |-> plain]}
                     ELSE sealed
        /\ UNCHANGED signed

\* The stored code of the algorithm is decoded when the ciphertext is read.
Open(s, code, key, nonce, aad) ==
    \E algo \in FromCode(AeadCode, code) :
        /\ asked' = [op |-> "open", algo |-> algo, key |-> key, nonce |-> nonce, aad |-> aad,
                     from |-> s]
        /\ reply' = Decrypt(key, nonce, aad, [s.c EXCEPT !.algo = algo])
        /\ UNCHANGED <<sealed, signed>>

Sign(algo, key, keyId, data) ==
    LET r == SignData(algo, key, keyId, data)
    IN  /\ Room
        /\ asked' = [op |-> "sign", algo |-> algo, key |-> key]
        /\ reply' = r
        /\ signed' = IF IsError(r) THEN signed ELSE signed \cup {r}
        /\ UNCHANGED sealed

Verify(sig, code, public, data) ==
    \E algo \in FromCode(SignCode, code) :
        /\ asked' = [op |-> "verify", algo |-> algo, key |-> public, data |-> data, from |-> sig]
        /\ reply' = VerifySignature(public, data, [sig EXCEPT !.algo = algo])
        /\ UNCHANGED <<sealed, signed>>

CryptoNext ==
    \/ \E algo \in DOMAIN AeadCode, key \in Keys, nonce \in Nonces, aad, plain \in Texts :
         Seal(algo, key, nonce, aad, plain)
    \/ \E s \in sealed, code \in 0..5, key \in Keys, nonce \in Nonces, aad \in Texts :
         Open(s, code, key, nonce, aad)
    \/ \E algo \in DOMAIN SignCode, key \in Keys, data \in Texts : Sign(algo, key, key.id, data)
    \/ \E sig \in signed, code \in 0..4, key \in Keys, data \in Texts :
         Verify(sig, code, PublicKey(key), data)

CryptoSpec == CryptoInit /\ [][CryptoNext]_cryptoVars

\* Whatever is handed to the use cases, no backend is reached with a nonce it panics
\* on; a ciphertext that went through the store opens to what was sealed when key,
\* nonce, associated data and algorithm are the ones it was sealed with, and to nothing
\* otherwise; a signature is valid for exactly the data and the key it was made with.
OnlyTheSealedOpens ==
    /\ "panic" \notin DOMAIN reply
    /\ asked.op = "open" =>
         LET s == asked.from
             same == /\ asked.algo = s.c.algo /\ asked.key = s.key
                     /\ asked.nonce = s.nonce /\ asked.aad = s.aad
         IN  IF same THEN reply = [plain |-> s.plain] ELSE IsError(reply)
    /\ asked.op = "verify" =>
         \/ reply = [valid |-> (asked.key.id = asked.from.by /\ asked.data = asked.from.of)]
         \/ asked.algo # "Ed25519" /\ IsError(reply)
=============================================================================
