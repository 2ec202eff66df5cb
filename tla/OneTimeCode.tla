------------------------------ MODULE OneTimeCode ------------------------------
(***************************************************************************)
(* One-time passwords (src/tools/ciphertools/totp.go): the codes around a  *)
(* moment or a counter, the check of a typed code, and otpauth:// URIs.    *)
(*                                                                         *)
(* A name is the sequence of its characters, of which only ":" and " "     *)
(* matter; escaped, they are "%3A" and "%20".                              *)
(***************************************************************************)
EXTENDS Integers, Sequences, FiniteSets, SequencesExt

CONSTANTS None,
          Bin,       \* counter -> the number its HMAC is truncated to
          MinPeriod, \* the shortest period
          MaxCounter \* 2^63 - 1

(* Settings: type, account, issuer, algorithm, digits, period, counter and *)
(* secret.                                                                 *)

HOTP(s, counter) == [secret |-> s.secret, algorithm |-> s.algorithm, digits |-> s.digits, bin |-> Bin[counter]]

Algorithms == {"SHA1", "SHA256", "SHA512"}
OtpParams(s, counter) ==
    IF s.algorithm \notin Algorithms \/ s.digits \notin 6..8 THEN None
    ELSE IF s.type = "totp" THEN (IF s.period \in MinPeriod..300 THEN [s EXCEPT !.counter = 0] ELSE None)
    ELSE IF counter \in 0..MaxCounter THEN [s EXCEPT !.counter = counter, !.period = 0] ELSE None

-----------------------------------------------------------------------------
(* The codes.                                                              *)

RunTOTP(s, now) ==
    LET counter == IF s.type = "totp" THEN now \div s.period ELSE s.counter
        first == IF counter = 0 THEN 0 ELSE -1 \* counter 0 has no previous
    IN  IF s.type = "totp" /\ now < 0 THEN None
        ELSE [counter |-> counter,
              remaining |-> IF s.type = "totp" THEN s.period - (now % s.period) ELSE 0,
              code |-> HOTP(s, counter),
              codes |-> [off \in first..1 |-> [counter |-> counter + off, code |-> HOTP(s, counter + off)]]]

(* The step a typed code is of: the current one wins a tie, then the       *)
(* earlier.  A code of the wrong length or with a letter matches nothing.  *)
Matches(r, code) == {off \in DOMAIN r.codes : r.codes[off].code = code}
\* The earliest step wins.
FirstOf(offs) == CHOOSE off \in offs : \A o \in offs : off <= o
Winner(offs) == IF 0 \in offs THEN 0 ELSE CHOOSE off \in offs : \A o \in offs : off <= o
Check(r, code) == IF Matches(r, code) = {} THEN None ELSE Winner(Matches(r, code))

-----------------------------------------------------------------------------
(* Addresses.                                                              *)

Escape(name) == [i \in DOMAIN name |-> CASE name[i] = ":" -> "%3A" [] name[i] = " " -> "%20" [] OTHER -> name[i]]
Unescape(text) == [i \in DOMAIN text |-> CASE text[i] \in {"%3A", "%3a"} -> ":" [] text[i] = "%20" -> " " [] OTHER -> text[i]]
Trimmed(text) ==
    LET from == IF text # <<>> /\ Head(text) = ":" THEN Tail(text) ELSE text
    IN  IF from # <<>> /\ Last(from) = ":" THEN Front(from) ELSE from
BuildOTPURI(s) ==
    [type |-> s.type, label |-> Trimmed(Escape(s.issuer) \o <<":">> \o Escape(s.account)), secret |-> s.secret,
     issuer |-> s.issuer, algorithm |-> s.algorithm, digits |-> s.digits, period |-> s.period, counter |-> s.counter]

At(text, cs) == SelectInSeq(text, LAMBDA c : c \in cs)
\* Any encoded ':' separates, whether or not there is a literal one.
SeparatorAny(label) == LET i == At(label, {"%3A", "%3a"}) IN IF i = 0 THEN label ELSE [label EXCEPT ![i] = ":"]
(* An encoded ':' separates when there is no literal one.                  *)
Separator(label) ==
    LET i == At(label, {"%3A", "%3a"}) IN IF i = 0 \/ At(label, {":"}) # 0 THEN label ELSE [label EXCEPT ![i] = ":"]
LeftTrim(name) ==
    LET from == {i \in DOMAIN name : name[i] # " "} IN
    IF from = {} THEN <<>> ELSE SubSeq(name, CHOOSE i \in from : \A j \in from : i <= j, Len(name))
ParseOTPURI(u) ==
    LET label == Separator(u.label)
        cut == At(label, {":"})
        prefix == IF cut = 0 THEN <<>> ELSE Unescape(SubSeq(label, 1, cut - 1))
        account == IF cut = 0 THEN Unescape(label) ELSE LeftTrim(Unescape(SubSeq(label, cut + 1, Len(label))))
        read == OtpParams([type |-> u.type, account |-> account, issuer |-> IF u.issuer = <<>> THEN prefix ELSE u.issuer,
                           algorithm |-> u.algorithm, digits |-> u.digits, period |-> u.period, counter |-> 0,
                           secret |-> u.secret], IF u.counter = None THEN 0 ELSE u.counter)
    IN  IF u.type \notin {"totp", "hotp"} \/ u.secret = None \/ read = None THEN None
        ELSE [settings |-> read,
              notes |-> {n \in {"issuer from the label"} : u.issuer = <<>> /\ prefix # <<>>}
                        \cup {n \in {"two issuers"} : u.issuer # <<>> /\ cut # 0 /\ prefix # u.issuer}
                        \cup {n \in {"no counter"} : u.type = "hotp" /\ u.counter = None}]

-----------------------------------------------------------------------------
(* What they promise.                                                      *)

(* An account with both its names, or with an account and no ':' in it,    *)
(* reads back whole from its URI and disagrees with nothing                *)
(* (totp.go:275).                                                          *)
UriReadsBack(s) ==
    LET back == ParseOTPURI(BuildOTPURI(s))
    IN  /\ OtpParams(s, s.counter) = s
        /\ s.account # <<>> /\ (s.issuer # <<>> \/ At(s.account, {":"}) = 0)
        /\ s.account # <<>> => Head(s.account) # " "
        => back # None /\ back.settings = s /\ back.notes = {}

(* A code is called a match only for a step whose window is the moment's   *)
(* or the next to it, never for a step before the first, and the moment's  *)
(* own code always for its own step (totp.go:319).                         *)
CodesAreOfTheMoment(s, now, counter) ==
    LET r == RunTOTP(s, now)
        off == Check(r, HOTP(s, counter))
    IN  OtpParams(s, s.counter) = s /\ r # None =>
            /\ off # None => HOTP(s, counter) = HOTP(s, r.counter + off) /\ r.counter + off \in 0..MaxCounter + 1
            /\ Check(r, HOTP(s, r.counter)) = 0
            /\ counter \in r.counter - 1..r.counter + 1 => off # None
            /\ s.type = "totp" =>
                /\ now \in r.counter * s.period..(r.counter + 1) * s.period - 1
                /\ now + r.remaining = (r.counter + 1) * s.period
=============================================================================
