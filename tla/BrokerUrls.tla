------------------------------ MODULE BrokerUrls ------------------------------
(***************************************************************************)
(* What becomes of the --brokers argument: Url and UrlList read it, Watch  *)
(* chooses the producer from it, and HttpProducer makes its connections    *)
(* from it, in another process that reads it anew from the watches table.  *)
(*                                                                         *)
(* A text is a sequence of symbols: the delimiters, and words, which hold  *)
(* no delimiter.  Url keeps a position in its target; here it is what is   *)
(* left of the target from there.                                          *)
(***************************************************************************)
EXTENDS Base64, SequencesExt

CONSTANTS
  Words,       \* texts without a delimiter, in lower case
  MaxWords,    \* bound: words in a password
  MaxTargets,  \* bound: targets in a list
  MaxFull      \* bound: the same, if one has a user, a port or a path

Delimiters == {":", "/", "?", "#", "@", "[", "]", ","}

\* Ports, what unescape_path reads or cannot read, and schemes.
Special == {"443", "8080", "%70", "{}", "http", "HTTP", "https", "1"}

ASSUME WordsAssumption == Words \cap (Delimiters \cup Special) = {}

ASSUME BoundsAssumption ==
  MaxWords \in Nat /\ MaxTargets \in Nat /\ MaxFull \in Nat

-----------------------------------------------------------------------------
(***************************************************************************)
(* Texts                                                                   *)
(***************************************************************************)

\* existsForward: find_first_of looks for any one of the delimiters.
Exists(text, delimiters) == \E i \in DOMAIN text : text[i] \in delimiters

First(text, delimiters) == SelectInSeq(text, LAMBDA s : s \in delimiters)

\* captureUpTo: all that is left if there is no delimiter.
Before(text, delimiters) ==
  IF Exists(text, delimiters)
  THEN SubSeq(text, 1, First(text, delimiters) - 1) ELSE text

\* moveBefore: the position stays if there is none.
From(text, delimiters) ==
  IF Exists(text, delimiters)
  THEN SubSeq(text, First(text, delimiters), Len(text)) ELSE text

Skip(text, n) == SubSeq(text, n + 1, Len(text))

After(text, delimiter) == Skip(From(text, {delimiter}), 1)

\* tolower
Lower(text) ==
  [i \in DOMAIN text |-> IF text[i] = "HTTP" THEN "http" ELSE text[i]]

\* What the number in a text is; the other words are no numbers.
Number(text) ==
  CASE text = <<"443">>  -> 443
    [] text = <<"8080">> -> 8080
    [] OTHER             -> 0

\* The bytes of a username and a password: one for each symbol.
ByteOf(s) == CASE s = ":" -> 58 [] s = "p" -> 112 [] OTHER -> 255

Bytes(text) == [k \in DOMAIN text |-> ByteOf(text[k])]

-----------------------------------------------------------------------------
(***************************************************************************)
(* Url                                                                     *)
(***************************************************************************)

\* Path, query and fragment.
UrlTail(text, pathExists) ==
  LET hasQuery  == Exists(text, {"?"})
      inner     == IF hasQuery THEN After(text, "?") ELSE text
      hasMark   == Exists(inner, {"#"})
  IN [path |-> IF hasQuery THEN Before(text, {"?"})
               ELSE IF hasMark \/ pathExists THEN Before(text, {"#"}) ELSE <<>>,
      query |-> IF hasQuery THEN Before(inner, {"#"}) ELSE <<>>,
      fragment |-> IF hasMark THEN Before(After(inner, "#"), {"#"}) ELSE <<>>]

\* Mutation: the host ends at the first colon, whatever the host is.
HostPort_NoBrackets(text) ==
  [host |-> Before(text, {":"}),
   port |-> IF Exists(text, {":"}) THEN Before(After(text, ":"), {"#"})
                                   ELSE <<>>]

\* Host and port.  What follows the "]" of an IPv6 host is not looked at.
HostPort(text) ==
  IF Exists(text, {"["})
  THEN [host |-> Before(Skip(text, 1), {"]"}), port |-> <<>>]
  ELSE [host |-> Before(text, {":"}),
        port |-> IF Exists(text, {":"}) THEN Before(After(text, ":"), {"#"})
                                        ELSE <<>>]

\* Username and password.
UserInfo(text) ==
  [username |-> Before(text, {":"}),
   password |-> IF Exists(text, {":"})
                THEN Before(After(text, ":"), {"#"}) ELSE <<>>]

\* What follows "//".  find_first_of finds any "/", and two symbols are skipped.
Named(text) == Skip(From(After(text, ":"), {"/"}), 2)

Authority(text) ==
  IF Exists(After(text, ":"), {"/"}) THEN Before(Named(text), {"/"}) ELSE <<>>

HasUser(text) == Exists(Authority(text), {"@"})

HostText(text) ==
  IF HasUser(text) THEN After(Authority(text), "@") ELSE Authority(text)

\* "Expected : in Url", "Malformed ipv6"
Throws(text) ==
  \/ ~Exists(text, {":"})
  \/ Exists(HostText(text), {"["}) /\ ~Exists(Skip(HostText(text), 1), {"]"})

\* fromString
FromString(text) ==
  LET rest   == After(text, ":")
      scheme == Lower(Before(text, {":"}))
      tail   == IF Exists(rest, {"/"})
                THEN UrlTail(From(Named(text), {"/"}), Exists(Named(text), {"/"}))
                ELSE [path |-> Before(rest, {"#"}), query |-> <<>>,
                      fragment |-> <<>>]
      user   == UserInfo(IF HasUser(text) THEN Before(Authority(text), {"@"})
                                          ELSE <<>>)
      host   == HostPort(HostText(text))
  IN [scheme |-> scheme,
      secure |-> scheme \in {<<"ssh">>, <<"https">>} \/ host.port = <<"443">>,
      username |-> user.username, password |-> user.password,
      host |-> host.host, port |-> host.port,
      path |-> tail.path, query |-> tail.query, fragment |-> tail.fragment]

\* getPort is an unsigned short.
GetPort(url) ==
  IF url.port # <<>> THEN Number(url.port) % 65536
  ELSE CASE url.scheme = <<"https">> -> 443
         [] url.scheme = <<"http">>  -> 80
         [] OTHER                    -> 0

\* unescape_path stops at what it cannot read, and leaves what it has read.
Unescaped(text) ==
  [i \in DOMAIN Before(text, {"{}"}) |-> IF text[i] = "%70" THEN "p" ELSE text[i]]

Marked(mark, text) == IF text = <<>> THEN <<>> ELSE <<mark>> \o text

GetFullPath(url) ==
  Unescaped(url.path) \o Marked("?", url.query) \o Marked("#", url.fragment)

-----------------------------------------------------------------------------
(***************************************************************************)
(* UrlList                                                                 *)
(***************************************************************************)

\* std::getline: where a token begins; no text follows a last delimiter.
Begins(text, delimiter) ==
  {b \in DOMAIN text : b = 1 \/ text[b - 1] = delimiter}

\* The k-th of them.
Kth(begins, k) ==
  CHOOSE b \in begins : Cardinality({a \in begins : a <= b}) = k

Token(text, b, delimiter) == Before(Skip(text, b - 1), {delimiter})

SplitString(text, delimiter) ==
  LET begins == Begins(text, delimiter)
  IN [k \in 1 .. Cardinality(begins) |->
        Token(text, Kth(begins, k), delimiter)]

Sources(text) == SplitString(text, ",")

Schemes(text) ==
  {Lower(Before(source, {":"})) : source \in ToSet(Sources(text))}

\* setBrokers throws on a target that is no Url, and "on mismatch".
Refused(text) ==
  \/ \E source \in ToSet(Sources(text)) : Throws(source)
  \/ \E a, b \in Schemes(text) : a # b

ProducerType(text) ==
  IF Schemes(text) \cap {<<"http">>, <<"https">>} # {} THEN "HTTP" ELSE "KAFKA"

-----------------------------------------------------------------------------
(***************************************************************************)
(* The commands and the process of a watch                                 *)
(***************************************************************************)

VARIABLES
  targets,     \* history: the targets that were meant
  stage,       \* "typed", "refused", "added" or "running"
  brokers,     \* the argument of the command, then the column of the row
  producer,    \* the producer's type
  connections  \* of the HttpProducer

vars == <<targets, stage, brokers, producer, connections>>

\* The parts of the targets that are given, and how they are written.
Absent == <<>>
Texts  == {<<w>> : w \in Words}
Target == [scheme : {<<"http">>, <<"HTTP">>, <<"https">>},
           user : {Absent} \cup Texts,
           password : UNION {[1 .. n -> Words] : n \in 0 .. MaxWords},
           host : Texts \cup {<<":", ":", "1">>},
           port : {Absent, <<"443">>, <<"8080">>},
           path : {Absent, <<"/">>, <<"/", "%70">>} \cup
                  UNION {{<<"/", w>>, <<"/", w, "{}", w>>} : w \in Words},
           query : {Absent} \cup Texts, fragment : {Absent} \cup Texts]

IsV6(t) == t.host = <<":", ":", "1">>

\* A password comes with a user, and a query or a fragment with a path:
\* without one they are read as part of the host.  An IPv6 host has no port.
Targets ==
  {t \in Target :
     /\ t.password # Absent => t.user # Absent
     /\ t.path = Absent => t.query = Absent /\ t.fragment = Absent
     /\ IsV6(t) => t.port = Absent}

WrittenUser(t) ==
  IF t.user = Absent THEN <<>>
  ELSE t.user \o (Marked(":", t.password) \o <<"@">>)

WrittenHost(t) ==
  IF IsV6(t) THEN <<"[">> \o (t.host \o <<"]">>)
             ELSE t.host \o Marked(":", t.port)

WrittenTail(t) ==
  t.path \o (Marked("?", t.query) \o Marked("#", t.fragment))

\* A Kafka broker is a host, and may have a port.
Kafkas == [host : Texts, port : {Absent, <<"8080">>}]

IsTarget(t) == "scheme" \in DOMAIN t

Written(t) ==
  IF IsTarget(t)
  THEN t.scheme \o
         (<<":", "/", "/">> \o ((WrittenUser(t) \o WrittenHost(t))
                                  \o WrittenTail(t)))
  ELSE t.host \o Marked(":", t.port)

IsFull(t) ==
  IsTarget(t) /\ (t.user # Absent \/ t.path # Absent \/ t.port # Absent)

Simple == {t \in Targets : ~IsFull(t)}

Init ==
  /\ targets = <<>> /\ stage = "typed" /\ brokers = <<>>
  /\ producer = "KAFKA" /\ connections = <<>>

\* The user types one more target.
TypeTarget ==
  /\ stage = "typed"
  /\ Len(targets) < IF \E o \in ToSet(targets) : IsFull(o)
                    THEN MaxFull ELSE MaxTargets
  /\ \E t \in Kafkas \cup (IF Len(targets) < MaxFull THEN Targets ELSE Simple) :
       /\ targets' = Append(targets, t)
       /\ brokers' = brokers \o
            ((IF targets = <<>> THEN <<>> ELSE <<",">>) \o Written(t))
  /\ UNCHANGED <<stage, producer, connections>>

\* logport watch: Watch's constructor, and the row, if it does not throw.
\* The list may end with a comma.
AddWatch ==
  /\ stage = "typed"
  /\ \E end \in IF targets = <<>> THEN {<<>>} ELSE {<<>>, <<",">>} :
       brokers' = brokers \o end
  /\ IF Refused(brokers')
     THEN stage' = "refused" /\ UNCHANGED producer
     ELSE stage' = "added" /\ producer' = ProducerType(brokers')
  /\ UNCHANGED <<targets, connections>>

\* HttpProducer's constructor makes a connection of each target.
Connection(source) ==
  LET url == FromString(source)
  IN [host |-> url.host, port |-> GetPort(url), secure |-> url.secure,
      authorization |->
        IF url.username = <<>> THEN <<>>
        ELSE Encode(Bytes(url.username \o <<":">> \o url.password)),
      fullPath |-> GetFullPath(url)]

\* The watch's process reads the row and makes its producer.
RunNow ==
  /\ stage = "added"
  /\ stage' = "running"
  /\ producer' = ProducerType(brokers)
  /\ connections' = IF producer' = "KAFKA" THEN <<>>
                    ELSE [i \in DOMAIN Sources(brokers) |->
                            Connection(Sources(brokers)[i])]
  /\ UNCHANGED <<targets, brokers>>

Next == TypeTarget \/ AddWatch \/ RunNow

Spec == Init /\ [][Next]_vars

-----------------------------------------------------------------------------
(***************************************************************************)
(* Properties                                                              *)
(***************************************************************************)

\* What a path stands for: as far as unescape_path can read it.
ReadPath(path) ==
  IF path = <<"/", "%70">> THEN <<"/", "p">>
  ELSE IF "{}" \in ToSet(path) THEN SubSeq(path, 1, 2) ELSE path

MeantPort(t) ==
  LET https == t.scheme = <<"https">>
  IN CASE t.port = <<"8080">>       -> 8080
       [] t.port = <<"443">>        -> 443
       [] t.port = Absent /\ https  -> 443
       [] t.port = Absent /\ ~https -> 80

ConnectsTo(c, t) ==
  /\ c.host = t.host
  /\ c.secure = (t.scheme = <<"https">> \/ t.port = <<"443">>)
  /\ c.port = MeantPort(t)
  /\ c.fullPath =
       ReadPath(t.path) \o Marked("?", t.query) \o Marked("#", t.fragment)
  /\ IF t.user = Absent THEN c.authorization = <<>>
     ELSE Decode(c.authorization) = Bytes(t.user \o <<":">> \o t.password)

\* The process of a watch connects to the targets that the command was
\* given: to each of them, at its host and its port or its scheme's, securely
\* if that is https or 443, with its credentials (an unbase64() gives them
\* back) and its path, query and fragment; whatever parts of Targets a target
\* has, and however its scheme is written.
ConnectsToTheTargets ==
  stage = "running" /\ producer = "HTTP" =>
    /\ Len(connections) = Len(targets)
    /\ \A i \in DOMAIN targets : ConnectsTo(connections[i], targets[i])

\* What comes before the first colon of a target, in lower case.
Lead(t) == IF IsTarget(t)
           THEN IF t.scheme = <<"https">> THEN t.scheme ELSE <<"http">>
           ELSE t.host

\* Which lists setBrokers takes, whatever its users mean by them: a list is
\* taken if all its targets have one scheme, in lower or upper case, and only
\* then; the producer is HttpProducer if that is http or https.  A Kafka list
\* is taken for one of Urls: its brokers need a port, and a broker's host is
\* its scheme, so that they must all be on one host.  The lists that the
\* README of the repository gives are refused by this.
ListsAreJudged ==
  LET taken == /\ \A t \in ToSet(targets) : IsTarget(t) \/ t.port # Absent
               /\ \A t, o \in ToSet(targets) : Lead(t) = Lead(o)
  IN /\ stage = "refused" => ~taken
     /\ stage \in {"added", "running"} =>
          /\ taken
          /\ producer = "HTTP" <=> \E t \in ToSet(targets) : IsTarget(t)

=============================================================================
