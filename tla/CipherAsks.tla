------------------------------- MODULE CipherAsks -------------------------------
(***************************************************************************)
(* What the cipher tools are asked in the small world of MCReports.        *)
(***************************************************************************)
EXTENDS Integers, Sequences, FiniteSets, TLC

CONSTANTS None, Day, Presets, Lower, Junk, MaxKeys, MaxRSABits, MaxExponent, MaxDER, ManyPrimes, Order

Token == INSTANCE CipherToken

Keys == INSTANCE CipherKeys

-----------------------------------------------------------------------------
(* Keys: two owners' RSA and EC keys, an Ed25519 key, a JWK secret, one    *)
(* restricted to an algorithm, and secrets that read differently.          *)

Key(kind, curve, id) == [kind |-> kind, curve |-> curve, alg |-> "", kid |-> "", private |-> TRUE, id |-> id]
Rsa == Key("rsa", "", "r")
Keyed == {Rsa, [Rsa EXCEPT !.kid = "one"], [Rsa EXCEPT !.id = "s", !.kid = "two"], [Rsa EXCEPT !.alg = "PS256"],
          [Rsa EXCEPT !.private = FALSE], Key("ec", "P-256", "e"), Key("ec", "P-384", "e"), Key("ed25519", "", "d"),
          Key("secret", "", "k"), [Key("secret", "", "k") EXCEPT !.kid = "two"]}
NoReadings == [utf8 |-> None, base64 |-> None, hex |-> None]
Material(keys) == [given |-> TRUE, material |-> TRUE, keys |-> keys, readings |-> NoReadings]
Secrets == {[given |-> TRUE, material |-> FALSE, keys |-> None, readings |-> [utf8 |-> "k", base64 |-> b, hex |-> h]] :
               b \in {None, "k", "b"}, h \in {None, "b", "x"}}
Nothing == [given |-> FALSE, material |-> FALSE, keys |-> None, readings |-> NoReadings]
Pastes == {Material(None)} \cup {Material(<<k>>) : k \in Keyed} \cup {Nothing}
          \cup {Material(<<j, k>>) : j \in Keyed, k \in {q \in Keyed : q.kind \in {"rsa", "ec"} /\ q.private}}

-----------------------------------------------------------------------------
(* Tokens, signed by one owner or by nobody.                               *)

M(name, value) == [name |-> name, value |-> value]
Named(alg, rest) == <<M("alg", alg), M("typ", "JWT")>> \o rest
Claims == {<<>>, <<M("exp", 5)>>}
Algs == {"HS256", "HS512", "RS256", "PS256", "ES256", "ES384", "EdDSA", "Ed25519"}
Rests == {<<>>, <<M("kid", "one")>>, <<M("kid", "two"), M("kid", None)>>, <<M("crit", "b64")>>}
Signatures(header, payload) ==
    {[scheme |-> Token!JwsAlgs[a], id |-> i, input |-> [header |-> h, payload |-> payload]] :
        a \in {"HS256", "RS256", "PS256", "ES256", "EdDSA"}, i \in {"", "r", "s", "e", "d", "k", "b"},
        h \in {header, Named("RS256", <<M("jku", "url")>>)}}
Whole == {"header", "payload", "claims", "sig"}
Tokens ==
    UNION {{[parts |-> 3, decodes |-> Whole, header |-> Named(a, r), payload |-> [claims |-> <<>>], sig |-> s] :
               s \in {g \in Signatures(Named(a, r), [claims |-> <<>>]) : a = "HS256" \/ g.scheme = Token!JwsAlgs[a]}} :
              a \in Algs, r \in Rests}
    \cup {[parts |-> n, decodes |-> d, header |-> h, payload |-> [claims |-> <<>>], sig |-> None] :
             n \in 2..5, d \in {{}, {"header"}, {"payload"}, {"header", "payload"}}, h \in {Named("none", <<>>), Named(None, <<>>), <<>>}}
TokenAsks ==
    [tool : {"jwt decode"}, token : Tokens, paste : Pastes, enc : {"auto"}]
    \cup [tool : {"jwt decode"}, token : {u \in Tokens : u.header \in {Named(a, <<>>) : a \in Algs}}, paste : Secrets, enc : {"auto", "base64"}]

Forms == [alg : Algs \cup {"HS999"}, extra : {<<>>, <<M("alg", "none"), M("typ", "at+jwt")>>, <<M("kid", "two")>>, <<M("crit", "b64")>>},
          kid : {"", "one", "three"}, claims : {<<>>, <<M("exp", 5), M("iat", 1)>>, <<M("nbf", 90)>>}, iat : BOOLEAN,
          exp : {"", "5m", "7d", "bad"}, enc : {"auto", "hex"}]
SignAsks == [tool : {"jwt sign"}, now : {6}, form : Forms, paste : {Material(<<k>>) : k \in Keyed} \cup Secrets \cup {Nothing}]

-----------------------------------------------------------------------------
(* Requests a proof is made for and shown at.                              *)

Address(scheme, host, port, path, query) == [scheme |-> scheme, host |-> host, port |-> port, path |-> path, query |-> query]
Addresses == {Address(s, h, p, w, q) : s \in {"http", "https"}, h \in {"API", "api"}, p \in {"", "80", "443"}, w \in {"", "/"}, q \in BOOLEAN}
             \cup {Address("https", "other", "", "/A", FALSE), Address("https", "api", "", "/A", FALSE), Address("", "api", "", "", FALSE)}
Request(m, u, t) == [htm |-> m, htu |-> u, token |-> t]
Made == {Request("GET", u, t) : u \in Addresses, t \in {"", "t1"}}
Shown == {Request("GET", u, "t1") : u \in Addresses}
         \cup {Request(m, Address("https", "api", "", "/", FALSE), t) : m \in {"GET", "POST", ""}, t \in {"", "t1", "t2"}}
Spoilt == {<<>>} \cup {("htm" :> "POST"), ("iat" :> 7), ("jti" :> ""), ("ath" :> <<>>), ("htu" :> Address("https", "other", "", "/A", FALSE))}
Fresh(alg) == IF alg = "ES256" THEN Key("ec", "P-256", "new") ELSE IF alg = "RS256" THEN Key("rsa", "", "new") ELSE Key("ed25519", "", "new")
Proof(made, shown, spoilt, alg, paste, iat) ==
    [tool |-> "dpop", made |-> made, shown |-> shown, spoilt |-> spoilt, alg |-> alg, paste |-> paste, fresh |-> Fresh(alg),
     iat |-> iat, now |-> 6, leeway |-> 2]
ProofAsks ==
    {Proof(m, s, <<>>, "ES256", Nothing, 6) : m \in Made, s \in Shown}
    \cup {Proof(Request("GET", Address("https", "api", "", "/", FALSE), "t1"), s, x, a, p, i) :
            s \in {Request("GET", Address("https", "API", "443", "", TRUE), "t1"), Request("POST", Address("https", "api", "", "/", FALSE), "t1")},
            x \in Spoilt, a \in {"ES256", "RS256", "EdDSA"}, p \in {Nothing} \cup {Material(<<k>>) : k \in Keyed}, i \in 3..9}

PkceAsks == [tool : {"pkce"}, length : {43, 44, 128}, method : {"S256", "plain"},
             other : [len : {42, 43, 128, 129}, legal : BOOLEAN, text : {"text", "other"}]]
MacAsks == [tool : {"hmac"}, msg : {"msg"}, paste : Secrets, enc : {"auto", "utf8", "base64", "hex"}, hash : Token!Hashes, under : {"k", "b", "x", "z"}]

(* Keys to inspect, whole and mixed, by way of every form.                 *)
P(len, of) == Keys!Part(len, of)
Jwks ==
    {Keys!Jwk("RSA", "", ("n" :> n) @@ ("e" :> P(3, e)) @@ ("d" :> d) @@ ("p" :> p) @@ ("q" :> q)) :
        n \in {None, Junk, P(2048, 1), P(2048, 3), P(9000, 1)}, e \in {1, 65537}, d \in {None, Junk, P(2048, 1), P(2048, 3)},
        p \in {None, P(1024, 1), P(1024, 3), P(3000, 1)}, q \in {Junk, P(1024, 1), P(1024, 3)}}
    \cup {Keys!Jwk("EC", c, ("x" :> x) @@ ("y" :> y) @@ ("d" :> d)) :
            c \in {"P-256", "P-521", "P-999"}, x \in {None, P(31, 1), P(66, 1), P(32, 2)}, y \in {None, Junk, P(32, 1), P(32, 2)},
            d \in {None, Junk, P(32, 0), P(31, 1), P(66, 2), P(32, 3)}}
    \cup {Keys!Jwk("OKP", c, ("x" :> x) @@ ("d" :> d)) :
            c \in {"Ed25519", "X25519"}, x \in {Junk, P(32, 1), P(31, 1)}, d \in {None, P(32, 1), P(32, 2), P(31, 1)}}
    \cup {Keys!Jwk(t, "", "k" :> k) : t \in {"oct", ""}, k \in {None, Junk, P(16, 0)}}
Named1 == {[Keys!Jwk("OKP", "Ed25519", "x" :> P(32, 1)) EXCEPT !.kid = "one", !.alg = a] : a \in {"EdDSA", "RS256"}}
Rsas == {Keys!Public("rsa", "", 1024, e, i) : e \in {1, 65537, MaxExponent + 1}, i \in {1, 3}}
Pubs == Rsas \cup {Keys!Public("rsa", "", 9000, 65537, 1)}
        \cup {Keys!Public(t, "", 0, 0, 2) : t \in {"ed25519", "ecdh"}} \cup {Keys!Public("ec", c, 0, 0, 2) : c \in {"P-384", "P-224"}}
Pems == [type : Keys!PrivateTypes \cup Keys!PublicTypes \cup {"EC PARAMETERS", "PGP"}, encrypted : BOOLEAN, len : {100, 101},
         holds : Pubs \cup {None}]
Lines == [type : {"ssh-rsa", "ssh-dss", "sk-ssh-ed25519"}, holds : Pubs \cup {None}]
KeyAsks ==
    {[tool |-> "keys", form |-> f, items |-> <<i>>] : f \in {"jwk"}, i \in Jwks \cup Named1}
    \cup {[tool |-> "keys", form |-> "jwk", items |-> <<i, j>>] : i \in Named1, j \in Jwks}
    \cup {[tool |-> "keys", form |-> "pem", items |-> <<i>>] : i \in Pems}
    \cup {[tool |-> "keys", form |-> "pem", items |-> <<i, j>>] : i, j \in {p \in Pems : p.len = 100 /\ ~p.encrypted}}
    \cup {[tool |-> "keys", form |-> "ssh", items |-> <<i>> \o s] : i \in Lines, s \in {<<>>} \cup {<<j>> : j \in Lines}}
    \cup {[tool |-> "keys", form |-> f, items |-> [i \in 1..3 |-> [type |-> "ssh-rsa", holds |-> None]]] : f \in {"ssh", "text"}}

(* Accounts and codes.                                                     *)
Names == UNION {[1..n -> {"a", ":", " "}] : n \in 0..2}
Settings == [type : {"totp", "hotp"}, account : Names, issuer : Names, algorithm : {"SHA1"}, digits : {6}, period : {0, 2, 30},
             counter : {0, 3, 8}, secret : {"s"}]
One(t, p, c, a, d) == [type |-> t, account |-> <<"a">>, issuer |-> <<>>, algorithm |-> a, digits |-> d, period |-> p, counter |-> c, secret |-> "s"]
CodeAsks ==
    {[tool |-> "otp uri", settings |-> s] : s \in Settings}
    \cup {[tool |-> "otp code", settings |-> One(t, p, c, "SHA512", d), now |-> n, counter |-> k] :
            t \in {"totp", "hotp"}, p \in {0, 1, 2, 3}, c \in {0, 1, 4, 8}, d \in {6, 9}, n \in -1..7, k \in 0..9}
=============================================================================
