------------------------------- MODULE Crypto -------------------------------
(***************************************************************************)
(* The primitives of agate-crypto behind their factories, and the use      *)
(* cases on top of them: hashing, signatures, authenticated encryption.    *)
(*                                                                         *)
(* The mathematics is symbolic: a digest, a signature or a ciphertext is   *)
(* the record of what it was made from.  What the code adds is modelled as *)
(* it is: which algorithm a value is tagged with, which lengths and nonces *)
(* are refused before a backend that would panic on them sees them, which  *)
(* algorithms the build has.                                               *)
(***************************************************************************)
EXTENDS Naturals

CONSTANTS CryptoFeatures  \* Cargo features of agate-crypto in the build

Error(e) == [error |-> e]
IsError(x) == "error" \in DOMAIN x

-----------------------------------------------------------------------------
(* Algorithms and their codes *)

HashCode == [Sha256 |-> 1, Sha512 |-> 2, Sha3_256 |-> 3, Streebog256 |-> 4, Streebog512 |-> 5]
SignCode == [Ed25519 |-> 1, GostR3410_2012_256 |-> 2, GostR3410_2012_512 |-> 3]
AeadCode == [Aes256Gcm |-> 1, ChaCha20Poly1305 |-> 2, KuznyechikMgm |-> 3, MagmaMgm |-> 4]

\* from_code: None for a code no algorithm has.
FromCode(codes, c) == {a \in DOMAIN codes : codes[a] = c}

KeyLen(algo) == 32
NonceLen(algo) == [Aes256Gcm |-> 12, ChaCha20Poly1305 |-> 12, KuznyechikMgm |-> 16, MagmaMgm |-> 8][algo]

-----------------------------------------------------------------------------
(* Hashing *)

HashFeature(algo) ==
    CASE algo \in {"Sha256", "Sha512"} -> "sha2"
      [] algo = "Sha3_256" -> "sha3"
      [] OTHER -> "streebog"

\* resolve and DigestHasher::hash: the digest carries its algorithm.
Hash(algo, data) ==
    IF HashFeature(algo) \in CryptoFeatures THEN [algo |-> algo, of |-> data]
    ELSE Error("UnsupportedHash")

-----------------------------------------------------------------------------
(* Signatures: Ed25519 only, whatever the other codes promise *)

\* The public key of a secret one: 32 bytes.
PublicKey(key) == [id |-> key.id, len |-> 32]

\* RustCryptoSignatureFactory, for a signer and for a verifier.
SignatureUsable(algo, key) ==
    IF algo # "Ed25519" \/ "ed25519" \notin CryptoFeatures THEN "UnsupportedSignature"
    ELSE IF key.len # 32 THEN "InvalidKey" ELSE "ok"

Ed25519Sign(key, keyId, data) ==
    [algo |-> "Ed25519", keyId |-> keyId, len |-> 64, by |-> key.id, of |-> data]

\* Ed25519Verifier::verify: the key id is a label, it decides nothing.
Ed25519Verify(public, data, sig) ==
    /\ sig.algo = "Ed25519"
    /\ sig.len = 64
    /\ sig.by = public.id /\ sig.of = data

SignData(algo, key, keyId, data) ==
    LET u == SignatureUsable(algo, key)
    IN  IF u = "ok" THEN Ed25519Sign(key, keyId, data) ELSE Error(u)

\* The algorithm is the one the signature names.
VerifySignature(public, data, sig) ==
    LET u == SignatureUsable(sig.algo, public)
    IN  IF u = "ok" THEN [valid |-> Ed25519Verify(public, data, sig)] ELSE Error(u)

-----------------------------------------------------------------------------
(* Authenticated encryption *)

AeadFeature(algo) ==
    CASE algo = "Aes256Gcm" -> "aes-gcm"
      [] algo = "ChaCha20Poly1305" -> "chacha20poly1305"
      [] OTHER -> "gost-cipher"

\* RustCryptoAeadFactory and the four `build` functions.
AeadUsable(algo, key) ==
    IF AeadFeature(algo) \notin CryptoFeatures THEN "UnsupportedAead"
    ELSE IF key.len # KeyLen(algo) THEN "InvalidKey" ELSE "ok"

\* A slip: only the length of a nonce is looked at.
CheckedNonceByLength(algo, nonce) == nonce.len = NonceLen(algo)

\* checked_nonce: MGM reserves the first bit.
CheckedNonce(algo, nonce) ==
    /\ nonce.len = NonceLen(algo)
    /\ algo \in {"KuznyechikMgm", "MagmaMgm"} => ~nonce.top

\* The RustCrypto backends: a slice of another length, or a nonce that the mode does
\* not allow, is a panic; a ciphertext opens only under what it was sealed with.
BackendTakes(algo, nonce) ==
    /\ nonce.len = NonceLen(algo)
    /\ ~(algo \in {"KuznyechikMgm", "MagmaMgm"} /\ nonce.top)
BackendEncrypt(algo, key, nonce, aad, plain) ==
    IF BackendTakes(algo, nonce)
    THEN [by |-> algo, key |-> key.id, nonce |-> nonce, aad |-> aad, plain |-> plain]
    ELSE [panic |-> TRUE]
BackendDecrypt(algo, key, nonce, aad, bytes) ==
    IF ~BackendTakes(algo, nonce) THEN [panic |-> TRUE]
    ELSE IF bytes = [by |-> algo, key |-> key.id, nonce |-> nonce, aad |-> aad,
                     plain |-> bytes.plain]
    THEN [plain |-> bytes.plain] ELSE Error("Decryption")

AeadEncrypt(algo, key, nonce, aad, plain) ==
    IF ~CheckedNonce(algo, nonce) THEN Error("InvalidNonce")
    ELSE LET b == BackendEncrypt(algo, key, nonce, aad, plain)
         IN  IF "panic" \in DOMAIN b THEN b ELSE [algo |-> algo, bytes |-> b]

AeadDecrypt(algo, key, nonce, aad, ciphertext) ==
    IF ~CheckedNonce(algo, nonce) THEN Error("InvalidNonce")
    ELSE BackendDecrypt(algo, key, nonce, aad, ciphertext.bytes)

\* EncryptHandler and DecryptHandler; the algorithm to open with is the ciphertext's.
Encrypt(algo, key, nonce, aad, plain) ==
    IF AeadUsable(algo, key) = "ok" THEN AeadEncrypt(algo, key, nonce, aad, plain)
    ELSE Error(AeadUsable(algo, key))
Decrypt(key, nonce, aad, ciphertext) ==
    IF AeadUsable(ciphertext.algo, key) = "ok"
    THEN AeadDecrypt(ciphertext.algo, key, nonce, aad, ciphertext)
    ELSE Error(AeadUsable(ciphertext.algo, key))
=============================================================================
