----------------------------- MODULE CipherToken -----------------------------
(***************************************************************************)
(* Signed tokens: the JWT decoder, verifier and signer                     *)
(* (src/tools/ciphertools/jwt.go, claims.go), DPoP proofs (dpop.go), PKCE  *)
(* (pkce.go) and the HMAC tool (hmac.go).                                  *)
(*                                                                         *)
(* Cryptography is symbolic: a signature is the record of the scheme, the  *)
(* key material and the bytes that went into it, and a check compares two  *)
(* of them.  The bytes themselves are the JSON values they encode.         *)
(***************************************************************************)
EXTENDS Integers, Sequences, FiniteSets, SequencesExt

CONSTANTS None,    \* nothing there, or unreadable
          Day,     \* the life a token should not outlive, in seconds
          Presets, \* expiry preset -> seconds
          Lower    \* a host as written -> in lower case

(* A key as keys.go reads it: kind, curve ("" but for EC), the alg and kid *)
(* its JWK gives ("" for none), whether the private half is there, and the *)
(* key material.  A pasted key is key material, with its keys (None when   *)
(* unreadable), or a secret, with what each encoding reads it as.          *)

Scheme(kind, hash, pss, curve) == [kind |-> kind, hash |-> hash, pss |-> pss, curve |-> curve]
JwsAlgs ==
    [HS256 |-> Scheme("secret", 256, FALSE, ""), HS384 |-> Scheme("secret", 384, FALSE, ""),
     HS512 |-> Scheme("secret", 512, FALSE, ""), RS256 |-> Scheme("rsa", 256, FALSE, ""),
     RS384 |-> Scheme("rsa", 384, FALSE, ""), RS512 |-> Scheme("rsa", 512, FALSE, ""),
     PS256 |-> Scheme("rsa", 256, TRUE, ""), PS384 |-> Scheme("rsa", 384, TRUE, ""),
     PS512 |-> Scheme("rsa", 512, TRUE, ""), ES256 |-> Scheme("ec", 256, FALSE, "P-256"),
     ES384 |-> Scheme("ec", 384, FALSE, "P-384"), ES512 |-> Scheme("ec", 512, FALSE, "P-521"),
     EdDSA |-> Scheme("ed25519", 0, FALSE, ""), Ed25519 |-> Scheme("ed25519", 0, FALSE, "")]
Supported == DOMAIN JwsAlgs
NoneAlgs == {"none", "None"} \* compared without regard to case

-----------------------------------------------------------------------------
(* Signatures and keys.                                                    *)

Material(k, scheme) == IF scheme.kind = "secret" /\ k.kind # "secret" THEN "" ELSE k.id
SignJWS(scheme, k, input) == [scheme |-> scheme, id |-> Material(k, scheme), input |-> input]
VerifyJWS(scheme, k, input, sig) ==
    /\ scheme.kind = "secret" \/ k.kind = scheme.kind
    /\ sig = SignJWS(scheme, k, input)

\* The algorithm-confusion defence forgotten.
FitsAnyKind(scheme, k) == scheme.curve = "" \/ k.curve = scheme.curve
JwtKeyFits(scheme, k) == k.kind = scheme.kind /\ (scheme.curve = "" \/ k.curve = scheme.curve)

Secret(id) == [kind |-> "secret", curve |-> "", alg |-> "", kid |-> "", private |-> FALSE, id |-> id]
Encodings == <<"utf8", "base64", "hex">>
(* Every distinct reading, text first, or the one asked for: keys by their *)
(* places, of which the first one counts.                                  *)
SecretReadings(pasted, enc) ==
    LET As(i) == pasted.readings[Encodings[i]]
        fresh == {i \in 1..3 : As(i) # None /\ \A j \in 1..(i - 1) : As(j) # As(i)}
    IN  IF enc = "auto" THEN [i \in fresh |-> Secret(As(i))]
        ELSE IF pasted.readings[enc] = None THEN None ELSE <<Secret(pasted.readings[enc])>>
FirstOf(places) == CHOOSE i \in places : \A j \in places : i <= j
ReadKeys(pasted, enc) == IF pasted.material THEN pasted.keys ELSE SecretReadings(pasted, enc)

-----------------------------------------------------------------------------
(* Decoding and verifying.                                                 *)

Labels == <<"Authorization:", "authorization:", "DPoP:", "dpop:">>
(* What is left of a copied header line: its words without a label and a   *)
(* scheme.                                                                 *)
CleanToken(words) ==
    LET Unlabel(ws, label) == IF ws # <<>> /\ Head(ws) = label THEN Tail(ws) ELSE ws
        bare == FoldLeft(Unlabel, words, Labels)
    IN  IF Len(bare) > 1 /\ Head(bare) \in {"Bearer", "bearer", "DPoP"} THEN Tail(bare) ELSE bare

(* A token: how many parts, which of them decode ("claims" when its        *)
(* payload is a JSON object), its header's members by their places, its    *)
(* payload [claims], and its signature.                                    *)
Segment(tok, part) == part \in tok.decodes
(* The last member of a name wins; one of the wrong type, None here, is    *)
(* skipped.                                                                *)
Member(members, name) ==
    LET is == {i \in DOMAIN members : members[i].name = name /\ members[i].value # None}
    IN  IF is = {} THEN None ELSE members[CHOOSE i \in is : \A j \in is : j <= i].value
Named(members, name) == \E i \in DOMAIN members : members[i].name = name

NumericDate(claims, name) == Member(claims, name)
Unreadable(members, name) == \E i \in DOMAIN members : members[i].name = name /\ members[i].value = None
DecodePayload(claims, now, leeway) ==
    LET exp == NumericDate(claims, "exp")
        nbf == NumericDate(claims, "nbf")
    IN  IF exp # None /\ now > exp + leeway THEN "expired"
        ELSE IF nbf # None /\ now + leeway < nbf THEN "not-yet-valid"
        ELSE IF Unreadable(claims, "exp") THEN "bad-expiry"
        ELSE IF exp = None THEN "no-expiry" ELSE "valid"
PayloadNotes(claims, now, leeway) ==
    LET exp == NumericDate(claims, "exp")
        iat == NumericDate(claims, "iat")
    IN  {n \in {"issued in the future"} : iat # None /\ iat > now + leeway}
        \cup {n \in {"long life"} : exp # None /\ iat # None /\ exp - iat > Day}

Allowed(alg, k) == k.alg \in {"", alg}
Fit(alg, keys) == {i \in DOMAIN keys : JwtKeyFits(JwsAlgs[alg], keys[i]) /\ Allowed(alg, keys[i])}
(* The token names one of several: only that one may have signed it.       *)
Narrowed(fit, keys, pasted, kid) ==
    {i \in fit : pasted.material /\ kid # "" /\ Cardinality(fit) > 1 => keys[i].kid = kid}

Verdict(state, by, hint) == [state |-> state, by |-> by, hint |-> hint]
Verify(input, sig, alg, pasted, enc, kid, crit) ==
    LET scheme == JwsAlgs[alg]
        Signs(k) == VerifyJWS(scheme, k, input, sig)
        keys == ReadKeys(pasted, enc)
        tried == Narrowed(Fit(alg, keys), keys, pasted, kid)
        right == {i \in tried : Signs(keys[i])}
        readings == SecretReadings(pasted, "auto")
        others == {i \in DOMAIN readings : Signs(readings[i])}
    IN  IF alg \in NoneAlgs THEN Verdict("refused", None, None)
        ELSE IF ~pasted.given THEN Verdict("unchecked", None, None)
        ELSE IF crit \/ alg \notin Supported THEN Verdict("refused", None, None)
        ELSE IF ~pasted.material /\ scheme.kind # "secret" THEN Verdict("refused", None, None)
        ELSE IF keys = None THEN Verdict("error", None, None)
        ELSE IF Fit(alg, keys) = {} THEN Verdict("refused", None, None)
        ELSE IF tried = {} THEN Verdict("invalid", None, None)
        ELSE IF right # {} THEN Verdict("valid", keys[FirstOf(right)], None)
        ELSE Verdict("invalid", keys[FirstOf(tried)],
                     IF pasted.material \/ enc = "auto" \/ others = {} THEN None ELSE readings[FirstOf(others)])

Input(tok) == [header |-> tok.header, payload |-> tok.payload]
Suspicious == {"jku", "x5u", "jwk", "x5c"}
DecodeJWT(tok, pasted, enc, now, leeway) ==
    LET alg == Member(tok.header, "alg")
        kid == Member(tok.header, "kid")
        claims == tok.payload.claims
        readable == tok.parts = 3 /\ Segment(tok, "claims")
    IN  IF \/ tok.parts \notin {3, 5} \/ ~Segment(tok, "header") \/ Unreadable(tok.header, "alg")
           \/ tok.parts = 3 /\ ~Segment(tok, "payload")
        THEN None
        ELSE [alg |-> alg,
              validity |-> IF readable THEN DecodePayload(claims, now, leeway) ELSE None,
              notes |-> {s \in Suspicious : Named(tok.header, s)}
                        \cup (IF readable THEN PayloadNotes(claims, now, leeway) ELSE {}),
              verification |->
                IF tok.parts = 5 THEN Verdict("unchecked", None, None)
                ELSE IF ~Segment(tok, "sig") THEN Verdict("invalid", None, None)
                ELSE Verify(Input(tok), tok.sig, IF alg = None THEN "" ELSE alg, pasted, enc,
                            IF kid = None THEN "" ELSE kid, Named(tok.header, "crit"))]

-----------------------------------------------------------------------------
(* Signing.                                                                *)

SigningKey(alg, pasted, enc, kid) ==
    LET scheme == JwsAlgs[alg]
        fits == {i \in DOMAIN pasted.keys : JwtKeyFits(scheme, pasted.keys[i]) /\ (kid = "" \/ pasted.keys[i].kid \in {"", kid})}
        first == pasted.keys[FirstOf(fits)]
        secret == pasted.readings[IF enc = "auto" THEN "utf8" ELSE enc]
    IN  IF ~pasted.given THEN None
        ELSE IF ~pasted.material THEN (IF scheme.kind # "secret" \/ secret = None THEN None ELSE Secret(secret))
        ELSE IF pasted.keys = None THEN None
        ELSE IF fits = {} THEN None
        ELSE IF scheme.kind # "secret" /\ ~first.private THEN None ELSE first

M(name, value) == [name |-> name, value |-> value]
(* The form's own members first, then those it was given.                  *)
BuildHeader(alg, extra, kid) ==
    LET typ == Member(extra, "typ")
        own == {p \in {3} : kid # "" /\ ~Named(extra, "kid")}
        kept == {i \in DOMAIN extra : extra[i].name \notin {"alg", "typ"}}
    IN  [p \in {1, 2} \cup own \cup {i + 3 : i \in kept} |->
            IF p = 1 THEN M("alg", alg) ELSE IF p = 2 THEN M("typ", IF typ = None THEN "JWT" ELSE typ)
            ELSE IF p = 3 THEN M("kid", kid) ELSE extra[p - 3]]
BuildPayload(claims, now, setIat, preset) ==
    LET iat == IF setIat /\ ~Named(claims, "iat") THEN <<M("iat", now)>> ELSE <<>>
        exp == IF preset # "" /\ ~Named(claims, "exp") THEN <<M("exp", now + Presets[preset])>> ELSE <<>>
    IN  claims \o iat \o exp

RunJWTSign(form, pasted, now) ==
    LET key == SigningKey(form.alg, pasted, form.enc, form.kid)
        header == BuildHeader(form.alg, form.extra, form.kid)
        payload == [claims |-> BuildPayload(form.claims, now, form.iat, form.exp)]
        input == [header |-> header, payload |-> payload]
    IN  IF form.alg \notin Supported THEN None
        ELSE IF key = None \/ form.exp \notin DOMAIN Presets \cup {""} THEN None
        ELSE [parts |-> 3, decodes |-> {"header", "payload", "claims", "sig"}, header |-> header, payload |-> payload, sig |-> SignJWS(JwsAlgs[form.alg], key, input)]

-----------------------------------------------------------------------------
(* DPoP.                                                                   *)

DefaultPort(scheme) == CASE scheme = "http" -> "80" [] scheme = "https" -> "443" [] OTHER -> None
\* The default port kept.
DpopURIKeepsPort(u) ==
    IF u.scheme = "" \/ u.host = "" THEN None
    ELSE [u EXCEPT !.host = Lower[@], !.query = FALSE, !.path = IF @ = "" THEN "/" ELSE @]
DpopURI(u) ==
    IF u.scheme = "" \/ u.host = "" THEN None
    ELSE [u EXCEPT !.host = Lower[@], !.port = IF @ = DefaultPort(u.scheme) THEN "" ELSE @,
                   !.query = FALSE, !.path = IF @ = "" THEN "/" ELSE @]

S256(token) == <<"s256", token>>
DpopRequest(req) == IF req.htm = "" \/ DpopURI(req.htu) = None THEN None ELSE [htm |-> req.htm, htu |-> DpopURI(req.htu)]
DpopSigningKey(alg, pasted, fresh) == IF pasted.given THEN SigningKey(alg, pasted, "utf8", "") ELSE fresh
(* The public half alone, as a header's jwk.                               *)
PublicHalf(k) == [reads |-> TRUE, leaks |-> FALSE, key |-> [k EXCEPT !.private = FALSE, !.alg = "", !.kid = ""]]

RunDPoPGenerate(req, alg, pasted, fresh, now) ==
    LET at == DpopRequest(req)
        key == DpopSigningKey(alg, pasted, fresh)
        header == [typ |-> "dpop+jwt", alg |-> alg, jwk |-> PublicHalf(key)]
        claims == [jti |-> "random", htm |-> at.htm, htu |-> at.htu, iat |-> now,
                   ath |-> IF req.token = "" THEN <<>> ELSE S256(req.token)]
    IN  IF at = None \/ key = None THEN None
        ELSE [decodes |-> {"header", "payload", "sig"}, header |-> header, payload |-> claims,
              sig |-> SignJWS(JwsAlgs[alg], key, [header |-> header, payload |-> claims])]

(* A header's jwk: one that reads as a public key, with no private member. *)
DpopHeaderKey(jwk) == jwk.reads /\ ~jwk.leaks /\ jwk.key.kind # "secret"

(* The checks that fail.                                                   *)
DpopFails(proof, at, token, now, leeway) ==
    LET hdr == proof.header
        claims == proof.payload
        asymmetric == hdr.alg \in Supported /\ JwsAlgs[hdr.alg].kind # "secret"
        keyed == DpopHeaderKey(hdr.jwk)
        signed == /\ asymmetric /\ keyed /\ JwtKeyFits(JwsAlgs[hdr.alg], hdr.jwk.key)
                  /\ VerifyJWS(JwsAlgs[hdr.alg], hdr.jwk.key, Input(proof), proof.sig)
        Failed(name, ok) == IF ok THEN {} ELSE {name}
    IN  Failed("typ", hdr.typ = "dpop+jwt") \cup Failed("alg", asymmetric) \cup Failed("jwk", keyed)
        \cup Failed("signature", signed) \cup Failed("htm", claims.htm = at.htm)
        \cup Failed("htu", ~claims.htu.query /\ DpopURI(claims.htu) = at.htu)
        \cup Failed("iat", claims.iat - now \in -leeway..leeway) \cup Failed("jti", claims.jti # "")
        \cup Failed("ath", claims.ath = (IF token = "" THEN <<>> ELSE S256(token)))
RunDPoPVerify(proof, req, now, leeway) ==
    LET at == DpopRequest(req)
    IN  IF at = None \/ ~Segment(proof, "sig") THEN None ELSE DpopFails(proof, at, req.token, now, leeway) = {}

-----------------------------------------------------------------------------
(* PKCE and the HMAC tool.  A verifier is its length, whether its          *)
(* characters are legal, and its text.                                     *)

PkceMin == 43
PkceMax == 128
PkceChallenge(text, method) == IF method = "plain" THEN <<text>> ELSE S256(text)
RunPKCEGenerate(length, method, text) ==
    [verifier |-> [len |-> length, legal |-> TRUE, text |-> text], challenge |-> PkceChallenge(text, method), method |-> method]
RunPKCEVerify(verifier, challenge, method) ==
    verifier.len \in PkceMin..PkceMax /\ verifier.legal /\ PkceChallenge(verifier.text, method) = challenge

Hashes == {"MD5", "SHA-1", "SHA-256", "SHA-512"}
HashDigests(msg, key) == {[hash |-> h, key |-> key, msg |-> msg] : h \in Hashes}
(* The other readings of the key, text aside, that would give the expected *)
(* MAC.                                                                    *)
OtherReadings(pasted, msg, key, expected) ==
    {e \in {"base64", "hex"} : pasted.readings[e] \notin {None, key} /\ expected \in HashDigests(msg, pasted.readings[e])}
RunHMAC(msg, pasted, enc, expected) ==
    LET key == pasted.readings[IF enc = "auto" THEN "utf8" ELSE enc]
        match == expected \in HashDigests(msg, key)
        others == OtherReadings(pasted, msg, key, expected)
        other == IF "base64" \in others THEN "base64" ELSE "hex"
    IN  IF key = None THEN None
        ELSE IF match \/ others = {} THEN [key |-> key, match |-> match, hint |-> None]
        ELSE IF enc = "auto" THEN [key |-> pasted.readings[other], match |-> TRUE, hint |-> None]
        ELSE [key |-> key, match |-> FALSE, hint |-> other]

-----------------------------------------------------------------------------
(* What the verdicts promise.                                              *)

(* A key says it signed a token: it is of the algorithm's kind and curve,  *)
(* not restricted to another, and its owner signed exactly these bytes.    *)
Signed(tok, alg, k) ==
    /\ k.kind = JwsAlgs[alg].kind /\ JwsAlgs[alg].curve \in {"", k.curve} /\ k.alg \in {"", alg}
    /\ tok.sig = [scheme |-> JwsAlgs[alg], id |-> k.id, input |-> Input(tok)]

(* A token is called valid only when a key that was pasted signed it and   *)
(* the algorithm may use that key: never unsigned, never with a critical   *)
(* extension, never a public key taken for a secret.  And a token one of   *)
(* the keys signed, named by its kid or the only one it could be, is       *)
(* called valid (jwt.go:337).                                              *)
VerdictIsSound(tok, pasted, enc) ==
    LET d == DecodeJWT(tok, pasted, enc, 0, 0)
        keys == ReadKeys(pasted, enc)
        kid == Member(tok.header, "kid")
        Could(k) == k.kind = JwsAlgs[d.alg].kind /\ JwsAlgs[d.alg].curve \in {"", k.curve} /\ k.alg \in {"", d.alg}
        Chosen(k) == \/ kid \in {None, "", k.kid}
                     \/ Cardinality({i \in DOMAIN keys : Could(keys[i])}) < 2
        Shown(k) == Signed(tok, d.alg, k) /\ (~pasted.material \/ Chosen(k))
        plain == d.alg \in Supported /\ Segment(tok, "sig") /\ ~Named(tok.header, "crit") /\ pasted.given /\ keys # None
                 /\ (pasted.material \/ JwsAlgs[d.alg].kind = "secret")
    IN  d # None /\ tok.parts = 3 =>
            (d.verification.state = "valid" <=> plain /\ \E i \in DOMAIN keys : Shown(keys[i]))

(* What the sign form gives verifies with the key it was given, when that  *)
(* is one key its JWK does not restrict and the form adds no crit or kid   *)
(* of its own (jwt.go:538).                                                *)
SignedVerifies(form, pasted, now) ==
    LET tok == RunJWTSign(form, pasted, now)
        d == DecodeJWT(tok, pasted, form.enc, now, 60)
    IN  /\ tok # None
        /\ ~pasted.material \/ (Len(pasted.keys) = 1 /\ pasted.keys[1].alg \in {"", form.alg})
        /\ ~Named(form.extra, "crit") /\ ~Named(form.extra, "kid")
        => /\ d.alg = form.alg /\ d.verification.state = "valid"
           /\ form.exp # "" /\ ~Named(form.claims, "exp") /\ ~Named(form.claims, "nbf") => d.validity = "valid"

(* Two addresses a server would tell apart.                                *)
SameAddress(u, v) ==
    LET Port(w) == IF w.port = "" THEN DefaultPort(w.scheme) ELSE w.port
        Path(w) == IF w.path = "" THEN "/" ELSE w.path
    IN  u.scheme = v.scheme /\ Lower[u.host] = Lower[v.host] /\ Port(u) = Port(v) /\ Path(u) = Path(v)
(* A proof made for one request is valid for that request within the skew, *)
(* however its address is written, and for no other method, address,       *)
(* access token or time; altered, it is valid for none (dpop.go:214).      *)
ProofBinds(made, spoilt, asked, alg, pasted, fresh, iat, now, leeway) ==
    LET proof == RunDPoPGenerate(made, alg, pasted, fresh, iat)
        given == spoilt @@ proof.payload
        valid == RunDPoPVerify([proof EXCEPT !.payload = given], asked, now, leeway)
    IN  proof # None /\ DpopRequest(asked) # None =>
            (valid <=> /\ given = proof.payload /\ made.htm = asked.htm /\ SameAddress(made.htu, asked.htu)
                       /\ made.token = asked.token /\ iat - now \in -leeway..leeway)

(* A verifier and challenge made together agree, and agree with no other   *)
(* verifier or method (pkce.go:91).                                        *)
PkceHolds(length, method, other) ==
    LET made == RunPKCEGenerate(length, method, "text")
    IN  /\ RunPKCEVerify(made.verifier, made.challenge, method)
        /\ RunPKCEVerify(other, made.challenge, method) => other.text = made.verifier.text
        /\ \A m \in {"S256", "plain"} \ {method} : ~RunPKCEVerify(made.verifier, made.challenge, m)

(* With the encoding left to the tool, an expected MAC under any reading   *)
(* of the key is found, and the MACs shown are that reading's; with one    *)
(* named, a MAC under another is never called a match (hmac.go:36).        *)
HmacFinds(msg, pasted, enc, hash, under) ==
    LET r == RunHMAC(msg, pasted, enc, [hash |-> hash, key |-> under, msg |-> msg])
    IN  r # None =>
            /\ r.match => r.key = under
            /\ enc = "auto" /\ (\E e \in DOMAIN pasted.readings : pasted.readings[e] = under) => r.match
            /\ r.hint # None => pasted.readings[r.hint] = under
=============================================================================
