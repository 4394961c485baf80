----------------------------- MODULE WireFormat -----------------------------
(***************************************************************************)
(* What happens to a text on its way from an agent or a dashboard through  *)
(* the server to a page: json.dumps or escape_json at the sender, the      *)
(* regular expression of json_get_string in the server, escape_json again, *)
(* and decode and json.loads in MonitorConnector.  A text is a short       *)
(* sequence over the characters these functions tell apart; a word stands  *)
(* for itself.                                                             *)
(***************************************************************************)
EXTENDS Naturals, Sequences, SequencesExt

CONSTANTS
  Char,       \* the characters texts are made of, a subset of AnyChar
  Origin,     \* who sends: "dashboard" or "agent"
  MaxLen      \* the longest text

Quote == "quote"
Backslash == "backslash"
Colon == "colon"
Comma == "comma"
Newline == "newline"      \* stands for '\r' and '\t' too
Control == "ctrl"         \* any other control character
NonAscii == "e-acute"
NotUtf8 == "raw"          \* a byte that no character has in UTF-8
NonAsciiCode == "u00e9"   \* what json.dumps writes after a backslash for it
ControlCode == "u0001"
Key == "text"             \* the name of the field behind the one looked at

AnyChar == {"a", "n", Colon, Quote, Backslash, Newline, Control, NonAscii, NotUtf8,
            NonAsciiCode, ControlCode, Key}

ASSUME WireAssumption ==
  Char \subseteq AnyChar /\ Origin \subseteq {"dashboard", "agent"} /\ MaxLen \in Nat

Text == BoundedSeq(Char, MaxLen)

VARIABLES
  origin,     \* who sent the text
  typed,      \* the text as it was entered
  stage,      \* how far it is: typed, sent, stored, announced, shown or rejected
  text,       \* the text at this stage
  stored,     \* history: the text as the server stored it
  follower    \* what the server took for the field behind the text

vars == <<origin, typed, stage, text, stored, follower>>

Has(s, ch) == \E i \in DOMAIN s : s[i] = ch

(* A text written character by character, each as the table says.          *)
Written(s, table) ==
  LET out[n \in 0..Len(s)] == IF n = 0 THEN << >> ELSE out[n - 1] \o table[s[n]]
  IN  out[Len(s)]

-----------------------------------------------------------------------------
(* json.dumps with its default ensure_ascii.                               *)
dumps(s) ==
  Written(s, [ch \in AnyChar |-> IF ch \in {Quote, Backslash} THEN <<Backslash, ch>>
                                ELSE IF ch = Newline THEN <<Backslash, "n">>
                                ELSE IF ch = Control THEN <<Backslash, ControlCode>>
                                ELSE IF ch = NonAscii THEN <<Backslash, NonAsciiCode>>
                                ELSE <<ch>>])

(* Mutant: a newline is copied.                                            *)
newline_copied(s) ==
  Written(s, [ch \in AnyChar |-> IF ch \in {Quote, Backslash} THEN <<Backslash, ch>> ELSE <<ch>>])

(* Mutant: a backslash is copied.                                          *)
backslash_copied(s) ==
  Written(s, [ch \in AnyChar |-> IF ch = Quote THEN <<Backslash, ch>>
                                ELSE IF ch = Newline THEN <<Backslash, "n">>
                                ELSE <<ch>>])

(* Mutant: a quote is copied.                                              *)
quote_copied(s) ==
  Written(s, [ch \in AnyChar |-> IF ch = Backslash THEN <<Backslash, ch>>
                                ELSE IF ch = Newline THEN <<Backslash, "n">>
                                ELSE <<ch>>])

escape_json(s) ==
  Written(s, [ch \in AnyChar |-> IF ch \in {Quote, Backslash} THEN <<Backslash, ch>>
                                ELSE IF ch = Newline THEN <<Backslash, "n">>
                                ELSE <<ch>>])

(* The message, from the text's name on: the text and one more field.      *)
Follower == <<"a">>
Field(key, value) == <<Quote, key, Quote, Colon, Quote>> \o value \o <<Quote>>
payload(s) == Field("first", s) \o <<Comma>> \o Field(Key, Follower)

(* regex_search: the leftmost place where the quoted key, a colon and a    *)
(* quote stand, and from there up to the next quote whatever precedes it.  *)
json_get_string(line, key) ==
  LET Matches(i, j) == /\ SubSeq(line, i, i + 4) = <<Quote, key, Quote, Colon, Quote>>
                       /\ j >= i + 5 /\ line[j] = Quote
      starts == {i \in 1..Len(line) - 5 : \E j \in 1..Len(line) : Matches(i, j)}
      i == CHOOSE n \in starts : \A m \in starts : n <= m
      ends == {j \in 1..Len(line) : Matches(i, j)}
  IN  SubSeq(line, i + 5, (CHOOSE n \in ends : \A m \in ends : n <= m) - 1)

(* json.loads: an escape is undone, and a bare quote or control character  *)
(* or an unknown escape is an error.                                       *)
Invalid == <<"invalid">>
Unescaped == [ch \in {Quote, Backslash, "n", NonAsciiCode, ControlCode} |->
                CASE ch = "n" -> Newline
                  [] ch = NonAsciiCode -> NonAscii
                  [] ch = ControlCode -> Control
                  [] OTHER -> ch]

loads(s) ==
  LET Then(ch, rest) == IF rest = Invalid THEN Invalid ELSE <<ch>> \o rest
      from[i \in 1..Len(s) + 1] ==
        IF i > Len(s) THEN << >>
        ELSE IF s[i] = Backslash
             THEN IF i < Len(s) /\ s[i + 1] \in DOMAIN Unescaped
                  THEN Then(Unescaped[s[i + 1]], from[i + 2])
                  ELSE Invalid
             ELSE IF s[i] \in {Quote, Newline, Control} THEN Invalid ELSE Then(s[i], from[i + 1])
  IN  from[1]

(* chunk.decode, of a chunk that may end inside a character of several     *)
(* bytes.                                                                  *)
decodes(s, cut) == ~Has(s, NotUtf8) /\ ~(cut /\ Has(s, NonAscii))

-----------------------------------------------------------------------------
(* A form's text is stripped and not empty, and is text: the name of an    *)
(* agent is any bytes.                                                     *)
stripped(s) == ~Has(s, NotUtf8) /\ s # << >> /\ s[1] # Newline /\ s[Len(s)] # Newline

Init ==
  /\ origin \in Origin
  /\ typed \in Text
  /\ origin = "dashboard" => stripped(typed)
  /\ stage = "typed"
  /\ text = typed
  /\ stored = << >>
  /\ follower = Follower

(* _send of a dashboard; connect_to_server and metrics_payload of an agent.*)
Send ==
  /\ stage = "typed"
  /\ stage' = "sent"
  /\ text' = IF origin = "dashboard" THEN dumps(text) ELSE escape_json(text)
  /\ UNCHANGED <<origin, typed, stored, follower>>

(* handle_line takes the fields out of the line.                           *)
Store ==
  /\ stage = "sent"
  /\ stage' = "stored"
  /\ text' = json_get_string(payload(text), "first")
  /\ stored' = text'
  /\ follower' = json_get_string(payload(text), Key)
  /\ UNCHANGED <<origin, typed>>

(* The event made of them.                                                 *)
Announce ==
  /\ stage = "stored"
  /\ stage' = "announced"
  /\ text' = escape_json(text)
  /\ UNCHANGED <<origin, typed, stored, follower>>

(* _consume decodes what arrives and applies json.loads to the line.       *)
Show ==
  /\ stage = "announced"
  /\ \E cut \in BOOLEAN :
     LET loaded == IF decodes(text, cut) THEN loads(text) ELSE Invalid
     IN  IF loaded = Invalid
         THEN stage' = "rejected" /\ UNCHANGED text
         ELSE stage' = "shown" /\ text' = loaded
  /\ UNCHANGED <<origin, typed, stored, follower>>

Next == Send \/ Store \/ Announce \/ Show

Spec == Init /\ [][Next]_vars

-----------------------------------------------------------------------------
Special == {Quote, Backslash, Newline, Control, NonAscii}
Refusable == {Control, NonAscii, NotUtf8}

(* No text, whatever is in it, ends the line it is sent in: what is sent   *)
(* holds no newline.                                                       *)
OneLine == stage \in {"sent", "announced"} => ~Has(text, Newline)

(* A page gets exactly what the server stored, and plain text as it was    *)
(* typed; and no text that reaches the server from a dashboard, nor any    *)
(* name of an agent in printable ASCII, makes a line the dashboard cannot  *)
(* take.  (It refuses control characters and bytes that are not UTF-8, and *)
(* any other character outside ASCII if a chunk ends inside it.)           *)
EventsReadable ==
  /\ stage = "shown" => text = stored
  /\ stage = "shown" /\ (\A ch \in Special : ~Has(typed, ch)) => text = typed
  /\ stage = "rejected" => origin = "agent" /\ \E ch \in Refusable : Has(typed, ch)

(* Nothing written into one field is taken for another field.              *)
FieldsSeparate == follower = Follower

(* Two agents share an entry of latest_metrics_ only if they were given    *)
(* the same name: what is stored of a name without quotes still tells      *)
(* which name it was.                                                      *)
NamesDistinct ==
  stage = "stored" /\ origin = "agent" /\ ~Has(typed, Quote) /\ ~Has(typed, Control)
    => loads(stored) = typed
=============================================================================
