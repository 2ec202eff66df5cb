------------------------------ MODULE CipherKeys ------------------------------
(***************************************************************************)
(* Reading keys and showing them again (src/tools/ciphertools/keys.go,     *)
(* keyview.go).                                                            *)
(*                                                                         *)
(* A number or a byte string is how long it is and which key it belongs    *)
(* to, [len, of]; the members of one key agree on "of".  An EC private     *)
(* scalar is its "of": zero and the curve's order are no keys.             *)
(***************************************************************************)
EXTENDS Integers, Sequences, FiniteSets, SequencesExt

CONSTANTS None,   \* nothing there
          Junk,   \* bytes that do not decode
          MaxKeys,
          MaxRSABits,
          MaxExponent, \* of an RSA key, 2^31 - 1
          MaxDER, \* bytes of the longest private key read
          ManyPrimes, \* RSA moduli, by whose they are, of more than two primes
          Order   \* of a curve

Part(len, of) == [len |-> len, of |-> of]
Size == [c \in {"P-256", "P-384", "P-521"} |-> IF c = "P-256" THEN 32 ELSE IF c = "P-384" THEN 48 ELSE 66]
Ed25519Size == 32

(* A public key; "" is the type of one that cannot sign.                   *)
Public(type, curve, bits, e, id) == [type |-> type, curve |-> curve, bits |-> bits, e |-> e, id |-> id]
Signs(pub) == pub.type \in {"rsa", "ec", "ed25519"} /\ (pub.type = "rsa" => pub.bits <= MaxRSABits)

Key(pub, private) == [kind |-> pub.type, public |-> pub, private |-> private, secret |-> None, kid |-> "", alg |-> "", use |-> ""]
KeyFromPublic(pub) == IF Signs(pub) THEN Key(pub, FALSE) ELSE None
KeyFromPrivate(pub) == IF Signs(pub) THEN Key(pub, TRUE) ELSE None

(* A block may hold an RSA key no JWK is read as, by its exponent, or one  *)
(* of many primes, for which there is no private JWK here.                 *)
JwkTakes(pub) == pub.type = "rsa" => pub.e \in 3..MaxExponent
HasManyPrimes(pub) == pub.type = "rsa" /\ pub.id \in ManyPrimes

-----------------------------------------------------------------------------
(* JSON web keys.  A member is None, Junk or a part.                       *)

JwkMembers == {"n", "e", "x", "y", "k", "d", "p", "q"}
PrivateMembers == {"d", "p", "q", "k"}
Jwk(kty, crv, members) ==
    [kty |-> kty, crv |-> crv, kid |-> "", alg |-> "", use |-> "",
     has |-> [m \in JwkMembers |-> IF m \in DOMAIN members THEN members[m] ELSE None]]

Decodes(j, members) == \A m \in members : j.has[m] # Junk
Number(j, m) == IF j.has[m] = None THEN Part(0, 0) ELSE j.has[m]

\* A private half of another key let through.
BelongsToAnyone(j, of) == TRUE
Belongs(j, of) == j.has["d"].of = of
PrivateOf(j, public) ==
    LET d == j.has["d"] IN
    CASE j.kty = "RSA" -> /\ j.has["p"] # None /\ j.has["q"] # None /\ Decodes(j, {"d", "p", "q"})
                          /\ \A m \in {"p", "q"} : j.has[m].len <= public.bits /\ j.has[m].of = public.id
                          /\ Belongs(j, public.id) /\ ~HasManyPrimes(public)
      [] j.kty = "EC" -> /\ d # Junk /\ d.len <= Size[j.crv] /\ d.of \in 1..Order - 1
                         /\ Belongs(j, public.id)
      [] j.kty = "OKP" -> d # Junk /\ d.len = Ed25519Size /\ Belongs(j, public.id)

(* The public key a JWK's members spell, or None.                          *)
PublicOf(j) ==
    LET n == Number(j, "n")
        e == Number(j, "e")
        x == Number(j, "x")
        y == Number(j, "y")
    IN  CASE j.kty = "RSA" -> IF /\ Decodes(j, {"n", "e"}) /\ e.of \in 3..MaxExponent /\ n.len <= MaxRSABits
                              THEN Public("rsa", "", n.len, e.of, n.of) ELSE None
          [] j.kty = "EC" -> IF /\ j.crv \in DOMAIN Size /\ Decodes(j, {"x", "y"}) /\ x.len <= Size[j.crv]
                                /\ y.len <= Size[j.crv] /\ x.of = y.of /\ x.of # 0
                             THEN Public("ec", j.crv, 0, 0, x.of) ELSE None
          [] j.kty = "OKP" -> IF j.crv = "Ed25519" /\ x # Junk /\ x.len = Ed25519Size
                              THEN Public("ed25519", "", 0, 0, x.of) ELSE None
          [] OTHER -> None
KeyFromJWK(j) ==
    LET public == PublicOf(j)
        Read(k) == [k EXCEPT !.kid = j.kid, !.alg = j.alg, !.use = j.use]
    IN  IF j.kty = "oct"
        THEN IF j.has["k"] = Junk THEN None
             ELSE Read([Key(Public("secret", "", 0, 0, 0), FALSE) EXCEPT !.secret = Number(j, "k")])
        ELSE IF public = None THEN None
        ELSE IF j.has["d"] = None THEN Read(Key(public, FALSE))
        ELSE IF PrivateOf(j, public) THEN Read(Key(public, TRUE)) ELSE None

PublicJWK(pub) ==
    LET member == IF pub.type = "ec" THEN (IF pub.curve \in DOMAIN Size THEN Part(Size[pub.curve], pub.id) ELSE None)
                  ELSE Part(Ed25519Size, pub.id)
    IN  CASE pub.type = "rsa" -> Jwk("RSA", "", [n |-> IF pub.bits = 0 THEN None ELSE Part(pub.bits, pub.id), e |-> Part(3, pub.e)])
          [] pub.type = "ec" -> Jwk("EC", pub.curve, [x |-> member, y |-> member])
          [] pub.type = "ed25519" -> Jwk("OKP", "Ed25519", [x |-> member])
PrivateJWK(pub) ==
    LET d == Part(CASE pub.type = "rsa" -> pub.bits [] pub.type = "ec" -> Size[pub.curve] [] OTHER -> Ed25519Size, pub.id)
        prime == IF pub.type = "rsa" THEN Part(pub.bits \div 2, pub.id) ELSE None
    IN  IF HasManyPrimes(pub) THEN None
        ELSE [PublicJWK(pub) EXCEPT !.has["d"] = d, !.has["p"] = prime, !.has["q"] = prime]

(* RFC 7638: the members that make the key, and no other.                  *)
JWKThumbprint(j) ==
    LET members == CASE j.kty = "RSA" -> {"e", "n"} [] j.kty = "EC" -> {"x", "y"} [] j.kty = "OKP" -> {"x"} [] OTHER -> {"k"}
    IN  IF \E m \in members : j.has[m] = None THEN None ELSE <<j.kty, j.crv, [m \in members |-> j.has[m]]>>

-----------------------------------------------------------------------------
(* PEM blocks and authorized_keys lines.  A block is its type, its size,   *)
(* whether it is encrypted and the key in it, None when it does not parse; *)
(* a line is its key type, its certificate and its key.                    *)

PrivateTypes == {"PRIVATE KEY", "RSA PRIVATE KEY", "EC PRIVATE KEY", "OPENSSH PRIVATE KEY"}
PublicTypes == {"PUBLIC KEY", "RSA PUBLIC KEY", "CERTIFICATE"}
Skipped == "skipped"
KeyFromPEM(b) ==
    IF b.encrypted \/ (b.type \in PrivateTypes /\ b.len > MaxDER) THEN None
    ELSE IF b.type = "EC PARAMETERS" THEN [kind |-> Skipped]
    ELSE IF b.type \notin PrivateTypes \cup PublicTypes \/ b.holds = None THEN None
    ELSE IF b.type \in PrivateTypes THEN KeyFromPrivate(b.holds) ELSE KeyFromPublic(b.holds)

KeyFromOpenSSH(line) ==
    IF line.type \in {"sk-ssh-ed25519", "ssh-dss"} \/ line.holds = None THEN None ELSE KeyFromPublic(line.holds)

(* The shape of a paste decides what it may be: a broken block is a broken *)
(* key, never a secret.                                                    *)
LooksLikeKeyMaterial(paste) == paste.form \in {"jwk", "pem", "ssh"}

(* What one item reads as, by the paste's form; all of them, or None when  *)
(* one does not read.                                                      *)
ReadItem(form, i) ==
    CASE form = "jwk" -> KeyFromJWK(i) [] form = "pem" -> KeyFromPEM(i) [] form = "ssh" -> KeyFromOpenSSH(i)
(* The n-th place of a set of them, and what a sequence has at each.        *)
Nth(at, n) == CHOOSE i \in at : Cardinality({j \in at : j < i}) = n - 1
Those(s, at) == [n \in 1..Cardinality(at) |-> s[Nth(at, n)]]
Entries(paste) == [i \in DOMAIN paste.items |-> ReadItem(paste.form, paste.items[i])]
Readable(paste) == Len(paste.items) <= MaxKeys /\ \A i \in DOMAIN paste.items : Entries(paste)[i] # None
ParseKeys(paste) ==
    LET kept == Those(Entries(paste), {i \in DOMAIN paste.items : Entries(paste)[i].kind # Skipped})
    IN  IF ~LooksLikeKeyMaterial(paste) \/ ~Readable(paste) THEN None
        ELSE IF kept = <<>> THEN None ELSE kept

-----------------------------------------------------------------------------
(* Showing a key: its public forms from the public half alone, and the     *)
(* private ones when it has a private half.                                *)

UsualAlg(pub) ==
    CASE pub.type = "rsa" -> "RS256" [] pub.type = "ed25519" -> "EdDSA"
      [] pub.type = "ec" -> CASE pub.curve = "P-256" -> "ES256" [] pub.curve = "P-384" -> "ES384" [] OTHER -> "ES512"
ViewKey(k) ==
    LET public == PublicJWK(k.public)
        thumbprint == JWKThumbprint(public)
        own == IF k.private THEN PrivateJWK(k.public) ELSE None
        Label(j) == [j EXCEPT !.kid = IF k.kid = "" THEN thumbprint ELSE k.kid,
                              !.alg = IF k.alg = "" THEN UsualAlg(k.public) ELSE k.alg, !.use = k.use]
        Shown(p, t, priv) == [publicJWK |-> p, thumbprint |-> t, privateJWK |-> priv, pem |-> k.private, openssh |-> p # None]
    IN  IF k.kind = "secret"
        THEN Shown(None, JWKThumbprint(Jwk("oct", "", [k |-> IF k.secret.len = 0 THEN None ELSE k.secret])), None)
        ELSE IF thumbprint = None THEN None
        ELSE Shown(Label(public), thumbprint, IF own # None THEN Label(own) ELSE None)

ViewsOf(keys) ==
    LET views == [i \in DOMAIN keys |-> ViewKey(keys[i])]
        public == [i \in DOMAIN keys |-> views[i].publicJWK]
    IN  IF keys = None THEN None
        ELSE IF \E i \in DOMAIN views : views[i] = None THEN None
        ELSE [views |-> views, set |-> IF Len(keys) > 1 THEN Those(public, {i \in DOMAIN keys : public[i] # None}) ELSE <<>>]
RunKeysInspect(paste) == ViewsOf(ParseKeys(paste))

(* A passphrase encrypts the OpenSSH form, the only one left.              *)
RunKeysGenerate(pub, passphrase) ==
    LET view == ViewKey(KeyFromPrivate(pub))
    IN  IF passphrase = "" THEN view ELSE [view EXCEPT !.pem = FALSE, !.privateJWK = None]

-----------------------------------------------------------------------------
(* The promise: every key shown is the key pasted.  Its public JWK carries *)
(* no private member and reads back as the public key; its private JWK     *)
(* reads back as the whole key, under the same thumbprint; the public JWKS *)
(* of a paste reads back as its keys; and a key is shown as private only   *)
(* if the private half that was pasted is its own (keys.go:279).  Made     *)
(* with a passphrase, it shows no form of it in the clear.  Two keys are   *)
(* left out and no others: one whose exponent a JWK may not have is shown  *)
(* in a JWK that reads as no key, never as another one (keys.go:302), and  *)
(* one of many primes is shown without a private JWK (keys.go:468).  keys  *)
(* is what was read of the paste, r what is shown of it.                   *)
KeyIsWhole(paste, keys, r) ==
    LET Plain(k) == [k EXCEPT !.kid = "", !.alg = "", !.use = ""]
        ReadsAs(j, k) == IF JwkTakes(k.public) THEN Plain(KeyFromJWK(j)) = k ELSE KeyFromJWK(j) = None
        Half(k) == [k EXCEPT !.private = FALSE]
    IN  r # None =>
            /\ \A i \in DOMAIN keys :
                LET k == Plain(keys[i])
                    v == r.views[i]
                IN  /\ v.publicJWK # None =>
                        /\ \A m \in PrivateMembers : v.publicJWK.has[m] = None
                        /\ ReadsAs(v.publicJWK, Half(k))
                        /\ JWKThumbprint(v.publicJWK) = v.thumbprint
                    /\ v.privateJWK # None <=> k.private /\ ~HasManyPrimes(k.public)
                    /\ v.privateJWK # None => ReadsAs(v.privateJWK, k) /\ JWKThumbprint(v.privateJWK) = v.thumbprint
                    /\ k.private => LET made == RunKeysGenerate(k.public, "passphrase") IN
                        ~made.pem /\ made.privateJWK = None /\ made.publicJWK = RunKeysGenerate(k.public, "").publicJWK
                    /\ paste.form = "jwk" /\ k.private => paste.items[i].has["d"].of = k.public.id
            /\ \A i \in DOMAIN r.set : \E k \in DOMAIN keys :
                r.set[i] = r.views[k].publicJWK /\ ReadsAs(r.set[i], Half(Plain(keys[k])))
=============================================================================
