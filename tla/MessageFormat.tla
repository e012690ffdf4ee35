--------------------------- MODULE MessageFormat ---------------------------
(***************************************************************************)
(* From the body of a request to the message for QQ and the two fields for *)
(* the log: package gatus, as handler.alert uses it.                       *)
(*                                                                         *)
(* A text is a sequence of characters (runes).  The code tells apart white *)
(* space ("sp", "cr", "nl"), bytes that are not UTF-8 ("bad"), brackets    *)
(* and the colon; a word it knows, as "Endpoint" or "triggered", counts as *)
(* one character.                                                          *)
(***************************************************************************)
EXTENDS Integers, SequencesExt

CONSTANTS
    Characters,       \* what texts are made of
    AlertBodies,      \* alerts posted as JSON
    TextBodies,       \* texts posted as text/plain
    MessagePrefixes,  \* message.prefix
    MessageLimits     \* message.max_length; below 1 there is none

Text == Seq(Characters)

Alert ==
    [state : Text, name : Text, group : Text, url : Text, description : Text, errors : Text]

\* The characters Format adds are characters like any other.
ASSUME CharactersAssumption ==
    {"sp", "nl", "/", ":", ".", "Endpoint", "URL", "Description", "Errors"} \subseteq Characters
ASSUME BodiesAssumption == AlertBodies \subseteq Alert /\ TextBodies \subseteq Text
ASSUME PrefixesAssumption == MessagePrefixes \subseteq Text
ASSUME LimitsAssumption == MessageLimits \subseteq Int

VARIABLES
    kind,     \* the body's media type, "json" or "text"
    body,
    prefix,
    limit,
    status,   \* "read", "refused" (422) or "ready" for Send
    message,
    logged    \* what the log says of the alert: [endpoint, state]

vars == <<kind, body, prefix, limit, status, message, logged>>

Space == {"sp", "cr", "nl"}
-----------------------------------------------------------------------------
(* Texts. *)

Visible(s) == {i \in DOMAIN s : s[i] \notin Space}

TrimSpace(s) ==
    IF Visible(s) = {} THEN <<>> ELSE SubSeq(s, Min(Visible(s)), Max(Visible(s)))

ValidString(s) == "bad" \notin ToSet(s)

\* Each run of white space between two words becomes one space.
oneLine(s) ==
    LET Squeeze(line, c) ==
            IF c \notin Space THEN Append(line, c)
            ELSE IF Last(line) = "sp" THEN line
            ELSE Append(line, "sp")
    IN  FoldLeft(Squeeze, <<>>, TrimSpace(s))

\* CR LF and CR become LF.
multiLine(s) ==
    LET Break(i) ==
            IF s[i] = "cr" THEN <<"nl">>
            ELSE IF s[i] = "nl" /\ i > 1 /\ s[i - 1] = "cr" THEN <<>>
            ELSE <<s[i]>>
    IN  TrimSpace(FlattenSeq([i \in DOMAIN s |-> Break(i)]))

Join(lines) == FoldLeft(LAMBDA text, line : text \o <<"nl">> \o line, Head(lines), Tail(lines))

\* strings.Split(text, "\n"): never without a line.
Lines(text) ==
    LET Add(lines, c) ==
            IF c = "nl" THEN Append(lines, <<>>) ELSE Append(Front(lines), Append(Last(lines), c))
    IN  FoldLeft(Add, << <<>> >>, text)

\* strings.Cut(line, ":"); 0 if there is no colon
Colon(line) == SelectInSeq(line, LAMBDA c : c = ":")
Name(line) == SubSeq(line, 1, Colon(line) - 1)
Value(line) == SubSeq(line, Colon(line) + 1, Len(line))

withPrefix(value, p) ==
    IF TrimSpace(p) = <<>> THEN value ELSE TrimSpace(p) \o <<"nl">> \o value

suffix == <<".", ".", ".">>

\* Bugs: the suffix comes on top of the limit, or the end is kept.
truncateThenMark(value, max) ==
    IF max < 1 \/ Len(value) <= max THEN value ELSE SubSeq(value, 1, max) \o suffix
truncateFront(value, max) ==
    IF max < 1 \/ Len(value) <= max THEN value
    ELSE IF max <= Len(suffix) THEN SubSeq(suffix, 1, max)
    ELSE suffix \o SubSeq(value, Len(value) - max + Len(suffix) + 1, Len(value))

truncate(value, max) ==
    IF max < 1 \/ Len(value) <= max THEN value
    ELSE IF max <= Len(suffix) THEN SubSeq(suffix, 1, max)
    ELSE SubSeq(value, 1, max - Len(suffix)) \o suffix
-----------------------------------------------------------------------------
(* Alerts. *)

Validate(a) ==
    /\ TrimSpace(a.state) # <<>>
    /\ TrimSpace(a.name) # <<>>
    /\ \A field \in DOMAIN a : ValidString(a[field])

LogValue(a) ==
    LET group == TrimSpace(a.group)
    IN  (IF group = <<>> THEN <<>> ELSE group \o <<"sp", "/", "sp">>) \o TrimSpace(a.name)

Labelled(label, value) == <<label, ":", "sp">> \o value
IfAny(label, value) == IF value = <<>> THEN <<>> ELSE << Labelled(label, value) >>

\* Bug: the description comes before the endpoint.
FormatDescriptionFirst(a, p, max) ==
    LET lines == << oneLine(a.state) >> \o IfAny("Description", multiLine(a.description))
                 \o << Labelled("Endpoint", oneLine(LogValue(a))) >>
    IN  truncate(withPrefix(Join(lines), p), max)

Format(a, p, max) ==
    LET lines == << oneLine(a.state), Labelled("Endpoint", oneLine(LogValue(a))) >>
                 \o IfAny("URL", oneLine(a.url))
                 \o IfAny("Description", multiLine(a.description))
                 \o IfAny("Errors", multiLine(a.errors))
    IN  truncate(withPrefix(Join(lines), p), max)

ValidText(value) == ValidString(value) /\ multiLine(value) # <<>>

FormatText(value, p, max) == truncate(withPrefix(multiLine(value), p), max)

Unbracketed(s) ==
    IF Len(s) >= 2 /\ s[1] = "[" /\ s[Len(s)] = "]" THEN TrimSpace(SubSeq(s, 2, Len(s) - 1)) ELSE s

NotLogged == [endpoint |-> <<>>, state |-> <<>>]

\* Upper case, of the words told apart.
ToUpper(s) ==
    LET Upper(c) == CASE c = "triggered" -> "TRIGGERED" [] c = "Endpoint" -> "ENDPOINT" [] OTHER -> c
    IN  [i \in DOMAIN s |-> Upper(s[i])]

\* The state and the endpoint of a text of the documented form.
TextMetadata(value) ==
    LET lines == Lines(multiLine(value))
        state == ToUpper(Unbracketed(TrimSpace(lines[1])))
        named == {i \in 2..Len(lines) :
                    /\ Colon(lines[i]) # 0
                    /\ ToUpper(TrimSpace(Name(lines[i]))) = <<"ENDPOINT">>}
    IN  IF state \notin {<<"TRIGGERED">>, <<"RESOLVED">>} THEN NotLogged
        ELSE [endpoint |-> IF named = {} THEN <<>> ELSE oneLine(Value(lines[Min(named)])),
              state    |-> state]
-----------------------------------------------------------------------------
Init ==
    /\ \/ kind = "json" /\ body \in AlertBodies
       \/ kind = "text" /\ body \in TextBodies
    /\ prefix \in MessagePrefixes
    /\ limit \in MessageLimits
    /\ status = "read"
    /\ message = <<>>
    /\ logged = NotLogged

PrepareAlert ==
    /\ kind = "json" /\ status = "read"
    /\ Validate(body)
    /\ status' = "ready"
    /\ message' = Format(body, prefix, limit)
    /\ logged' = [endpoint |-> LogValue(body), state |-> body.state]
    /\ UNCHANGED <<kind, body, prefix, limit>>

PrepareText ==
    /\ kind = "text" /\ status = "read"
    /\ ValidText(body)
    /\ status' = "ready"
    /\ message' = FormatText(body, prefix, limit)
    /\ logged' = TextMetadata(body)
    /\ UNCHANGED <<kind, body, prefix, limit>>

Refuse ==
    /\ status = "read"
    /\ IF kind = "json" THEN ~Validate(body) ELSE ~ValidText(body)
    /\ status' = "refused"
    /\ UNCHANGED <<kind, body, prefix, limit, message, logged>>

Prepared == status # "read" /\ UNCHANGED vars

Next == PrepareAlert \/ PrepareText \/ Refuse \/ Prepared

Spec == Init /\ [][Next]_vars
-----------------------------------------------------------------------------
Unlimited == 0
FullMessage ==
    IF kind = "json" THEN Format(body, prefix, Unlimited) ELSE FormatText(body, prefix, Unlimited)

\* What shortening to max characters has to achieve: it happens only if needed,
\* uses all of the room, keeps the beginning and shows by dots that it happened.
BestFit(full, max, text) ==
    \/ /\ text = full
       /\ max >= 1 => Len(full) <= max
    \/ /\ max >= 1 /\ Len(full) > max
       /\ Len(text) = max
       /\ \E n \in 0..max :
            /\ max - n <= Len(suffix)
            /\ n = 0 \/ max - n = Len(suffix)
            /\ text = SubSeq(full, 1, n) \o SubSeq(suffix, 1, max - n)

\* No message exceeds message.max_length, at its smallest values included, and
\* none loses more than it must.
MessageIsBestFit == status = "ready" => BestFit(FullMessage, limit, message)

Shown(s) == FlattenSeq([i \in DOMAIN s |-> IF s[i] \in Space THEN <<>> ELSE <<s[i]>>])

\* However long the rest of an alert, and whatever line breaks its fields hold,
\* its state can be read in the message right after the prefix, provided that
\* the limit has room for both: no bound on the prefix keeps that room free.
StateSurvives ==
    status = "ready" /\ kind = "json"
    /\ (limit < 1 \/ limit >= Len(TrimSpace(prefix)) + 1 + Len(oneLine(body.state)) + Len(suffix))
    => IsPrefix(Shown(prefix) \o Shown(body.state), Shown(message))

\* An alert with one of the two states is logged alike whether it comes as JSON
\* or as the text that Format makes of it: no line break or label within a field
\* is taken for another field.
LogsAgree ==
    status = "ready" /\ kind = "json" =>
        LET state == ToUpper(Unbracketed(oneLine(body.state)))
            asText == TextMetadata(Format(body, <<>>, Unlimited))
        IN  state \in {<<"TRIGGERED">>, <<"RESOLVED">>} =>
                asText = [endpoint |-> oneLine(logged.endpoint), state |-> state]
=============================================================================
