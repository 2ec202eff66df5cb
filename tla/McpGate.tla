-------------------------------- MODULE McpGate --------------------------------
(***************************************************************************)
(* The gate of the MCP endpoints (src/tools/mcptools/handler.go): which    *)
(* endpoints there are, who may reach one with what, and the shape of what *)
(* a tool may send back.  A key is a model value; a request is [path,      *)
(* method, json, site, ip, apiKey, auth, body].  An address is [family,    *)
(* net, host]; a text is a sequence of "hidden" characters and others, and *)
(* a JSON object a function from the paths of its values to their texts: a *)
(* path steps by a key into an object and by a number into a list.         *)
(***************************************************************************)
EXTENDS Integers, Sequences, FiniteSets, SequencesExt

CONSTANTS None, MaxResult

OwnerEndpoint == "owner"
Toolsets == {"ip", "dns", "link", "cipher", "botcheck", "mail", "site"}

-----------------------------------------------------------------------------
(* The endpoints.  deps is [up, key]: the toolsets whose services are      *)
(* there, and the owner's key, None when there is none.                    *)

Tool(toolset, name) == [toolset |-> toolset, name |-> name]
OwnerSpecs(deps) ==
    IF deps.key = None THEN {} ELSE {Tool(OwnerEndpoint, n) : n \in {"create", "list", "revoke"}}
PublicSpecs(deps) == {Tool(t, t) : t \in deps.up}

\* Mutant: every tool is on /mcp, the owner's too.
BuildEndpointsAll(specs) ==
    [e \in {t.toolset : t \in specs} \cup {""} |-> {t \in specs : e \in {t.toolset, ""}}]

(* Each tool on its toolset's endpoint, every public one on /mcp too.      *)
BuildEndpoints(specs) ==
    LET On(t) == IF t.toolset = OwnerEndpoint THEN {OwnerEndpoint} ELSE {t.toolset, ""}
    IN  [e \in UNION {On(t) : t \in specs} |-> {t \in specs : e \in On(t)}]
Endpoints(deps) == BuildEndpoints(PublicSpecs(deps) \cup OwnerSpecs(deps))
(* The landing page lists the public endpoints.                            *)
Catalog(eps) == [e \in DOMAIN eps \cap (Toolsets \cup {""}) |-> eps[e]]

-----------------------------------------------------------------------------
(* A request.                                                              *)

Authorized(deps, key) == deps.key # None /\ key = deps.key
(* X-Api-Key, or else the token of a Bearer.                               *)
OwnerKey(req) ==
    IF req.apiKey # "" THEN req.apiKey
    ELSE IF req.auth # None /\ req.auth.scheme = "bearer" THEN req.auth.token ELSE ""

(* One bucket to an IPv4 address or an IPv6 /64, one to all that is junk.  *)
RateLimitKey(ip) ==
    CASE ip.family = "v4" -> <<ip.net, ip.host>>
      [] ip.family = "v6" -> <<ip.net>>
      [] OTHER -> <<>>

Answer(status, body) == [status |-> status, body |-> body, spent |-> None, tools |-> {}, keys |-> {}, listed |-> {}]
NoEndpoint == Answer(404, "no endpoint")
Landing(eps) == [Answer(200, "page") EXCEPT !.listed = UNION {Catalog(eps)[e] : e \in DOMAIN Catalog(eps)}]
Batch(req) == req.method = "POST" /\ req.body = "batch"

(* full holds the buckets with no token left.  What reaches the SDK has    *)
(* the tools of its endpoint, and the keys that are left in its headers.   *)
Serve(deps, req, full) ==
    LET eps == Endpoints(deps)
        owners == req.path = OwnerEndpoint
        bucket == RateLimitKey(req.ip)
        Taken(answer) == [answer EXCEPT !.spent = bucket]
    IN  IF req.path \notin DOMAIN eps THEN NoEndpoint
        \* Ahead of every other answer, so that only the key's holder learns of the endpoint.
        ELSE IF owners /\ ~Authorized(deps, OwnerKey(req)) THEN NoEndpoint
        ELSE IF ~owners /\ req.method = "GET" /\ ~req.json THEN Landing(eps)
        ELSE IF req.site \in {"cross-site", "same-site"} THEN Answer(403, "cross-site")
        ELSE IF bucket \in full THEN Answer(429, "limited")
        ELSE IF Batch(req) THEN Taken(Answer(400, "batch"))
        ELSE Taken([Answer(200, "mcp") EXCEPT
                 !.tools = eps[req.path],
                 !.keys = IF owners THEN {} ELSE {req.apiKey} \cup (IF req.auth = None THEN {} ELSE {req.auth.token})])

-----------------------------------------------------------------------------
(* A result: an error's text, or an object.                                *)

\* What a hidden character is written as: backslash, u, braces, four digits.
Written == <<"\\", "u", "{", "0", "0", "0", "0", "}">>
Clean(text) == FlattenSeq([i \in DOMAIN text |-> IF text[i] = "hidden" THEN Written ELSE <<text[i]>>])

KeyStep(text) == [of |-> "key", key |-> text]
ItemStep(i) == [of |-> "item", at |-> i]
CleanStep(s) == IF s.of = "key" THEN KeyStep(Clean(s.key)) ELSE s
CleanPath(p) == [i \in DOMAIN p |-> CleanStep(p[i])]

(* p and q part at two keys of one object that are written alike.          *)
Together(p, q, i) == \A j \in 1..(i - 1) : p[j] = q[j]
Clash(p, q) ==
    \E i \in DOMAIN p \cap DOMAIN q : Together(p, q, i) /\ p[i] # q[i] /\ CleanStep(p[i]) = CleanStep(q[i])

(* Of such keys the map keeps the one it is given last, in no fixed order. *)
Survivors(obj) ==
    {kept \in SUBSET DOMAIN obj : /\ \A p, q \in kept : ~Clash(p, q)
                                 /\ \A p \in DOMAIN obj \ kept : \E q \in kept : Clash(p, q)}

Walk(obj, kept) == [c \in {CleanPath(p) : p \in kept} |-> Clean(obj[CHOOSE p \in kept : CleanPath(p) = c])]

(* What is written at each node of the object: its key, its value.         *)
Nodes(obj) == UNION {{SubSeq(p, 1, i) : i \in DOMAIN p} : p \in DOMAIN obj}
Spell(obj) ==
    [n \in Nodes(obj) |-> (IF Last(n).of = "key" THEN <<Last(n).key>> ELSE <<>>)
                          \o (IF n \in DOMAIN obj THEN <<obj[n]>> ELSE <<>>)]
Size(obj) == FoldFunction(LAMBDA texts, n : n + FoldLeft(LAMBDA m, t : m + Len(t), 1, texts), 0, Spell(obj))

Failed(text) == [error |-> TRUE, text |-> text, obj |-> None]
(* Lists are never cut: what is too large is refused.                      *)
Measured(r, obj) == IF Size(obj) > MaxResult THEN Failed(<<"too", "large">>) ELSE [error |-> FALSE, text |-> r.text, obj |-> obj]
(* The results that may leave.                                             *)
Sanitize(r) ==
    IF r.error THEN {Failed(SubSeq(Clean(r.text), 1, IF Len(Clean(r.text)) < MaxResult THEN Len(Clean(r.text)) ELSE MaxResult))}
    ELSE IF r.obj = None THEN {None}
    ELSE {Measured(r, Walk(r.obj, kept)) : kept \in Survivors(r.obj)}

-----------------------------------------------------------------------------
(* The promise: to who has not the key, the owner's endpoint is a path     *)
(* where nothing is, whatever else is asked, and trying one costs nobody a *)
(* token; who reaches the tools has taken a token and sends one message    *)
(* from no foreign page; the owner's tools are on their own endpoint and   *)
(* see no key, public tools are on /mcp too; the page lists just the       *)
(* public ones (handler.go:124).                                           *)
GateHolds(deps, req, full) ==
    LET reply == Serve(deps, req, full)
        missing == Serve(deps, [req EXCEPT !.path = "nowhere"], full)
        holder == deps.key # None /\ deps.key \in {req.apiKey} \cup (IF req.auth = None THEN {} ELSE {req.auth.token})
        public == PublicSpecs(deps)
    IN  /\ req.path = OwnerEndpoint /\ ~holder => reply = missing
        /\ reply.tools # {} =>
              /\ reply.spent # None /\ reply.spent \notin full
              /\ ~Batch(req) /\ req.site \notin {"cross-site", "same-site"}
              /\ (reply.tools \cap OwnerSpecs(deps) # {}) => holder /\ reply.keys = {} /\ reply.tools \cap public = {}
              /\ req.path = "" => reply.tools = public
        /\ reply.body = "page" => reply.listed = public

(* Nothing a reader cannot see leaves, in a value or in a key, however     *)
(* deep; no more than one call may return.  Every value that leaves is one *)
(* that was given, at its own place, and of the lists it lies in all items *)
(* leave with it; a value is left out only for another whose path parts    *)
(* from its own at a key written the same (sanitize.go:18).                *)
ResultIsWhole(r) ==
    \A out \in Sanitize(r) :
        /\ out # None /\ out.error => "hidden" \notin ToSet(out.text) /\ Len(out.text) <= MaxResult
        /\ out # None /\ ~out.error =>
              /\ Size(out.obj) <= MaxResult
              /\ \A n \in Nodes(out.obj) : \A t \in ToSet(Spell(out.obj)[n]) : "hidden" \notin ToSet(t)
              /\ \A p \in DOMAIN r.obj : \E q \in DOMAIN r.obj :
                    /\ q = p \/ Clash(p, q)
                    /\ CleanPath(q) \in DOMAIN out.obj /\ out.obj[CleanPath(q)] = Clean(r.obj[q])
              /\ \A c \in DOMAIN out.obj : \E p \in DOMAIN r.obj :
                    /\ c = CleanPath(p) /\ out.obj[c] = Clean(r.obj[p])
                    /\ \A q \in DOMAIN r.obj : \A i \in DOMAIN p \cap DOMAIN q :
                          Together(p, q, i) /\ q[i].of = "item" =>
                              \E d \in DOMAIN out.obj : i \in DOMAIN d /\ \A j \in 1..i : d[j] = CleanStep(q[j])
=============================================================================
