-------------------------------- MODULE Reports --------------------------------
(***************************************************************************)
(* The tools that answer a request from what is in it and keep nothing:    *)
(* what one may be asked, and what holds of every answer.                  *)
(***************************************************************************)
EXTENDS Integers, Sequences, FiniteSets

CONSTANTS None,       \* nothing there
          MaxResult,  \* characters an MCP call may return
          Offset,     \* time zone -> its offset in minutes east, for the zones that load
          CrawlerASN, \* good bot -> the networks of its operator alone
          Day,        \* the life a token should not outlive, in seconds
          Presets,    \* expiry preset -> seconds
          Lower,      \* a host as written -> in lower case
          Junk,       \* bytes that do not decode
          MaxKeys, MaxRSABits, MaxExponent, MaxDER, ManyPrimes, \* limits of a paste of keys
          Order,      \* of a curve
          Bin,        \* counter -> the number its HMAC is truncated to
          MinPeriod, MaxCounter \* of one-time codes

VARIABLE ask \* [tool, ...]: the request that was answered, or None

ASSUME NoneIsNoValue == None \notin STRING \cup Seq(Int) \cup Int
ASSUME LimitsAreNumbers == MaxResult \in Nat /\ MaxResult >= 2
ASSUME CrawlersHaveNetworks == \A b \in DOMAIN CrawlerASN : None \notin CrawlerASN[b]

ASSUME PresetsAreSeconds == \A p \in DOMAIN Presets : Presets[p] \in Nat
ASSUME LowerIsSettled ==
    \A h \in DOMAIN Lower : Lower[h] \in DOMAIN Lower /\ Lower[Lower[h]] = Lower[h] /\ (Lower[h] = "" => h = "")

-----------------------------------------------------------------------------
Header == INSTANCE HeaderReport

(* Headers: directives with a number or none, a status, an age, cookies,   *)
(* and the lines of a paste.                                               *)
Directives == Seq([name : STRING, value : Nat \cup {None}])
CacheRequest(q) ==
    /\ q.code \in Nat /\ q.head.age \in Nat
    /\ q.head.cc \in Directives /\ q.head.cdn \in Directives /\ q.head.cf \in Directives /\ q.head.surr \in Directives
Cookie == [prefix : {"", "__Host-", "__Secure-"}, secure : BOOLEAN, domain : BOOLEAN, root : BOOLEAN,
           samesite : STRING, auth : BOOLEAN, httpOnly : BOOLEAN]
SecurityRequest(q) == q.head.cookies \in Seq(Cookie)
PasteRequest(q) == q.lines \in Seq([kind : STRING, code : Nat, name : STRING, request : BOOLEAN])

(* The lifetime at the edge (headers_cache.go:170), the security verdict   *)
(* (headers_security.go:305) and the answer a paste is read as             *)
(* (headers.go:250) are the origin's own.                                  *)
HeadersHold == ask # None =>
    /\ ask.tool = "cache" => Header!EdgeHonoursTheOrigin(ask.code, ask.head)
    /\ ask.tool = "security" => Header!SecurityIsFair(ask.head)
    /\ ask.tool = "paste" => Header!PasteIsTheLastAnswer(ask.lines)

-----------------------------------------------------------------------------
Bot == INSTANCE BotScore

(* Signals: flags, what was measured, user agents that name a crawler the  *)
(* table has or none, and the halves that were collected.                  *)
UserAgents == {None} \cup [name : STRING, os : STRING \cup {None}, major : Nat, bot : BOOLEAN, embedded : BOOLEAN,
                           good : DOMAIN CrawlerASN \cup {None}]
PayloadFields == {"ua", "ok", "bad", "odd", "ctx", "langs", "lang", "cores", "platform", "engine", "jsEngine", "chMajor",
                  "brands", "vendor", "appVersion", "productSub", "gpu", "touch", "tz", "tzOffset", "webrtc", "plugins",
                  "mimes", "fonts", "outerH", "innerH", "net4", "v"}
BotRequest(q) ==
    /\ PayloadFields \cup {"http", "net", "halves", "reuse", "churn"} \subseteq DOMAIN q.signals
    /\ q.signals.v \in Nat
    /\ q.signals.ua \in UserAgents /\ q.signals.http.ua \in UserAgents

(* An old collector's silence is no evidence (botcheck.go:66), and the     *)
(* score is fair to genuine browsers and deaf to who is merely odd         *)
(* (scoring.go:294).                                                       *)
BotHolds == ask # None /\ ask.tool = "bot" =>
    /\ Bot!OldPayloadIsNoEvidence(ask.signals, Bot!Evaluate(ask.signals))
    /\ Bot!ScoreIsFair(ask.signals, Bot!Evaluate(ask.signals))

-----------------------------------------------------------------------------
Gate == INSTANCE McpGate

(* The MCP gate (handler.go): an address is read as one of a family, and a *)
(* toolset is up or not.  A result is an error's text, nothing, or an      *)
(* object: texts at finitely many paths.                                   *)
Address == [family : {"v4", "v6", "junk"}, net : Nat, host : Nat]
GateRequest(q) ==
    /\ q.deps \in [up : SUBSET Gate!Toolsets, key : STRING \cup {None}]
    /\ q.req \in [path : STRING, method : STRING, json : BOOLEAN, site : STRING, ip : Address, apiKey : STRING,
                  auth : {None} \cup [scheme : STRING, token : STRING], body : STRING]
    /\ q.full \in SUBSET Seq(Nat)
JsonSteps == [of : {"key"}, key : Seq(STRING)] \cup [of : {"item"}, at : Nat]
ResultRequest(q) ==
    /\ q.result.error \in BOOLEAN /\ q.result.text \in Seq(STRING)
    /\ q.result.obj # None =>
          /\ IsFiniteSet(DOMAIN q.result.obj) /\ DOMAIN q.result.obj \subseteq Seq(JsonSteps)
          /\ \A p \in DOMAIN q.result.obj : q.result.obj[p] \in Seq(STRING)

(* Only the key's holder learns of the owner's endpoint (handler.go:124),  *)
(* and nothing hidden leaves in a result (sanitize.go:18).                 *)
GateHolds == ask # None =>
    /\ ask.tool = "mcp" => Gate!GateHolds(ask.deps, ask.req, ask.full)
    /\ ask.tool = "mcp result" => Gate!ResultIsWhole(ask.result)

-----------------------------------------------------------------------------
Token == INSTANCE CipherToken

ASSUME NoneIsNoAlgorithm == None \notin Token!Supported

(* Tokens and keys: a paste holds what it read as; a form adds members and *)
(* claims; a proof's key fits its algorithm, which is no secret's; and an  *)
(* address's host has a lower-case form.                                   *)
TokenKeys == [kind : STRING, curve : STRING, alg : STRING, kid : STRING, private : BOOLEAN, id : STRING]
Pastes == [given : BOOLEAN, material : BOOLEAN, keys : {None} \cup Seq(TokenKeys),
           readings : [{"utf8", "base64", "hex"} -> STRING \cup {None}]]
ReadAs == {"auto", "utf8", "base64", "hex"}
Secrets == [kind : {"secret"}, curve : {""}, alg : {""}, kid : {""}, private : {FALSE}, id : STRING]
ASSUME NoneIsNoReading == \A S \in SUBSET (1..3) : None \notin [S -> Secrets]
DecodeRequest(q) == q.paste \in Pastes /\ q.enc \in ReadAs
SignRequest(q) ==
    /\ q.paste \in Pastes /\ q.form.enc \in ReadAs /\ q.form.kid \in STRING /\ q.now \in Nat
    /\ q.form.extra \in Seq([name : STRING, value : STRING \cup {None}])
    /\ q.form.claims \in Seq([name : STRING, value : Int \cup {None}])
Written == [scheme : STRING, host : DOMAIN Lower, port : STRING, path : STRING, query : BOOLEAN]
Shown == [htm : STRING, token : STRING, htu : Written]
ProofRequest(q) ==
    /\ q.paste \in Pastes /\ q.made \in Shown /\ q.shown \in Shown /\ q.iat \in Int /\ q.now \in Int /\ q.leeway \in Nat
    /\ q.alg \in Token!Supported /\ Token!JwsAlgs[q.alg].kind # "secret"
    /\ q.fresh \in TokenKeys /\ Token!JwtKeyFits(Token!JwsAlgs[q.alg], q.fresh)
PkceRequest(q) == q.length \in Token!PkceMin..Token!PkceMax /\ q.method \in {"S256", "plain"}
MacRequest(q) == q.paste \in Pastes /\ q.enc \in ReadAs /\ q.hash \in Token!Hashes /\ q.under \in STRING

(* "Verified" means signed by a key given, over what is shown (jwt.go); a  *)
(* proof or a challenge holds for what it was made for only (dpop.go).     *)
TokenHolds == ask # None =>
    /\ ask.tool = "jwt decode" => Token!VerdictIsSound(ask.token, ask.paste, ask.enc)
    /\ ask.tool = "jwt sign" => Token!SignedVerifies(ask.form, ask.paste, ask.now)
    /\ ask.tool = "dpop" => Token!ProofBinds(ask.made, ask.spoilt, ask.shown, ask.alg, ask.paste, ask.fresh,
                                             ask.iat, ask.now, ask.leeway)
    /\ ask.tool = "pkce" => Token!PkceHolds(ask.length, ask.method, ask.other)
    /\ ask.tool = "hmac" => Token!HmacFinds(ask.msg, ask.paste, ask.enc, ask.hash, ask.under)

-----------------------------------------------------------------------------
Keys == INSTANCE CipherKeys
Otp == INSTANCE OneTimeCode

(* Pastes of keys: JWKs with any members, and blocks and lines with a key  *)
(* in them: an RSA key of any exponent and of two primes or more, an EC    *)
(* key whose number is below its curve's order.                            *)
Parts == [len : Nat, of : Nat]
Jwks == [kty : STRING, crv : STRING, kid : STRING, alg : STRING, use : STRING, has : [Keys!JwkMembers -> Parts \cup {None, Junk}]]
Publics == [type : {"rsa"}, curve : {""}, bits : Nat, e : Nat \ {0}, id : Nat]
           \cup [type : {"ec"}, curve : STRING, bits : {0}, e : {0}, id : 1..Order - 1]
           \cup [type : {"ed25519", "ecdh"}, curve : {""}, bits : {0}, e : {0}, id : Nat]
KeysRequest(q) ==
    /\ q.form = "jwk" => q.items \in Seq(Jwks)
    /\ q.form = "pem" => q.items \in Seq([type : STRING, encrypted : BOOLEAN, len : Nat, holds : Publics \cup {None}])
    /\ q.form = "ssh" => q.items \in Seq([type : STRING, holds : Publics \cup {None}])

(* Names: an escape stands for one character and is none itself.           *)
Names == Seq(STRING \ {"%3A", "%3a", "%20"})
Settings == [type : {"totp", "hotp"}, account : Names, issuer : Names, algorithm : STRING, digits : Nat, period : Nat,
             counter : Nat, secret : STRING]
CodeRequest(q) == q.settings \in Settings /\ q.now \in Int /\ q.now <= MaxCounter /\ q.counter \in Nat

Words == STRING \cup {"", "RSA", "EC", "OKP", "Ed25519", "P-256", "P-384", "P-521", "RS256", "ES256", "ES384", "ES512", "EdDSA"}
Thumbprints == Words \X Words \X UNION {[S -> Parts] : S \in SUBSET Keys!JwkMembers}
ASSUME NoneIsNoKey ==
    /\ Junk \notin Parts \cup {None} /\ None \notin Parts
    /\ None \notin [type : {"rsa", "ec", "ed25519"}, curve : Words, bits : Nat, e : Nat, id : Nat]
    /\ None \notin [kty : Words, crv : Words, kid : Words \cup Thumbprints, alg : Words, use : Words,
                    has : [Keys!JwkMembers -> Parts \cup {None}]]
ASSUME NoneIsNoSettings == None \notin Settings /\ None \notin [settings : Settings, notes : SUBSET STRING]
ASSUME KeyLimitsAreNumbers == MaxRSABits \in Nat /\ MaxExponent \in Nat /\ Order \in Nat
ASSUME PeriodsAreNumbers == MinPeriod \in Nat \ {0} /\ MaxCounter \in Nat

(* A key shown is the key pasted, its halves belong together (keys.go:279, *)
(* keyview.go); an account reads back from its URI and a code is of its    *)
(* moment (totp.go).                                                       *)
KeyHolds == ask # None =>
    /\ ask.tool = "keys" => Keys!KeyIsWhole(ask, Keys!ParseKeys(ask), Keys!RunKeysInspect(ask))
    /\ ask.tool = "otp uri" => Otp!UriReadsBack(ask.settings)
    /\ ask.tool = "otp code" => Otp!CodesAreOfTheMoment(ask.settings, ask.now, ask.counter)

-----------------------------------------------------------------------------
(* One request, of any tool.                                               *)

Request(q) ==
    /\ q.tool = "cache" => CacheRequest(q)
    /\ q.tool = "security" => SecurityRequest(q)
    /\ q.tool = "paste" => PasteRequest(q)
    /\ q.tool = "bot" => BotRequest(q)
    /\ q.tool = "mcp" => GateRequest(q)
    /\ q.tool = "jwt decode" => DecodeRequest(q)
    /\ q.tool = "jwt sign" => SignRequest(q)
    /\ q.tool = "dpop" => ProofRequest(q)
    /\ q.tool = "pkce" => PkceRequest(q)
    /\ q.tool = "hmac" => MacRequest(q)
    /\ q.tool = "keys" => KeysRequest(q)
    /\ q.tool = "otp uri" => q.settings \in Settings
    /\ q.tool = "otp code" => CodeRequest(q)
    /\ q.tool = "mcp result" => ResultRequest(q)
Reporting == ask = None /\ [][ask = None /\ Request(ask')]_ask
=============================================================================
