----------------------------- MODULE MessageLog -----------------------------
(***************************************************************************)
(* The log of the end-to-end test of mqtt_paho: MqttSubscriber             *)
(* (src/paho_subscriber) appends what it receives to a file, a line with   *)
(* the time for each message; ApplicationTest (test/test.cpp) reads that   *)
(* file and the file of the inputs with FileReader (test/fileManager) and  *)
(* expects the same last message in them.  Nothing but the log connects    *)
(* the subscriber to the test, which may run at any time.                  *)
(*                                                                         *)
(* A text is a sequence of characters out of the few that the parsers tell *)
(* apart: a bar, a blank, the separator " : " (one character here), the    *)
(* end of a line, and letters; "t" stands for a digit of the time.         *)
(***************************************************************************)
EXTENDS Naturals, Sequences, SequencesExt

CONSTANTS
  Payloads,     \* texts that are published
  Inputs,       \* input files: the payload of each of their lines
  MaxKills      \* bound: kills of the subscriber

Sep == "sep"
EndLine == "endl"
Time == <<"t">>
Header == <<"P", "P", "P", Sep>>   \* "PAYLOAD : "
Texts == Payloads \cup UNION {Range(f) : f \in Inputs}
Characters == {Sep, EndLine, "t", "P", " ", "|"} \cup UNION {Range(text) : text \in Texts}

(* The lines of an input file have no ends of lines in them. *)
ASSUME LogAssumption ==
  /\ MaxKills \in Nat
  /\ Payloads \subseteq Seq(Characters)
  /\ Inputs \subseteq Seq(Seq(Characters \ {EndLine}))

VARIABLES
  input,      \* the input file
  log,        \* received_message.txt
  subscriber, \* "off", "waiting" or "writing" (in msgArrvd)
  listening,  \* it is connected and subscribed
  transit,    \* messages on their way to it
  rest,       \* what msgArrvd has not written yet
  kills,      \* kills of the subscriber
  received,   \* history: the payloads msgArrvd was given, in order
  expected    \* history: what the lines of the log should read

subscriberVars == <<subscriber, listening, rest>>
historyVars == <<received, expected>>
logVars == <<input, log, subscriberVars, transit, kills, historyVars>>

(* A line that holds the rest of a record cut short. *)
Damaged == <<"damaged">>

LogTypeOK ==
  /\ input \in Seq(Seq(Characters)) /\ log \in Seq(Characters)
  /\ subscriber \in {"off", "waiting", "writing"}
  /\ listening \in BOOLEAN
  /\ transit \in Seq(Seq(Characters)) /\ rest \in Seq(Characters)
  /\ kills \in 0..MaxKills
  /\ received \in Seq(Seq(Characters)) /\ expected \in Seq(Seq(Characters) \cup {Damaged})
  /\ rest # <<>> => subscriber = "writing"
  /\ listening => subscriber # "off"

LogInit ==
  /\ input \in {[n \in DOMAIN f |-> Header \o f[n]] : f \in Inputs}
  /\ log = <<>>
  /\ subscriber = "off" /\ listening = FALSE
  /\ transit = <<>> /\ rest = <<>>
  /\ kills = 0
  /\ received = <<>> /\ expected = <<>>
-----------------------------------------------------------------------------
Drop(s, n) == SubSeq(s, n + 1, Len(s))

(* FileReader::read, one line: what follows the first separator.  Without  *)
(* one, npos + 3 is 2.                                                     *)
AfterSeparator(line) ==
  LET found == {i \in DOMAIN line : line[i] = Sep} IN
    IF found = {} THEN Drop(line, 2) ELSE Drop(line, Min(found))

(* substr throws when it starts behind the end. *)
LineThrows(line) == Len(line) = 1 /\ line # <<Sep>>

(* getline: the lines of a text that are not empty, the last one perhaps   *)
(* unended, as the text is read character by character.                    *)
Lines(text) ==
  LET read[n \in 0..Len(text)] ==
        IF n = 0 THEN <<>>
        ELSE LET lines == read[n - 1] IN
          IF text[n] = EndLine THEN lines
          ELSE IF n = 1 \/ text[n - 1] = EndLine THEN Append(lines, <<text[n]>>)
          ELSE Front(lines) \o <<Append(Last(lines), text[n])>>
  IN read[Len(text)]

(* The messages FileReader::read collects in msg_, *)
Messages(lines) == [n \in DOMAIN lines |-> AfterSeparator(lines[n])]

(* each followed by " | ". *)
Joined(messages) ==
  FlattenSeq([n \in DOMAIN messages |-> messages[n] \o <<" ", "|", " ">>])

Bars(text) == {i \in DOMAIN text : text[i] = "|"}

(* mutant: every search starts at the front *)
FirstBar(text, n) == Min(Bars(text))

(* nthSubstr: the place of the n-th bar. *)
NthBar(text, n) == CHOOSE i \in Bars(text) : Cardinality({j \in Bars(text) : j <= i}) = n

(* mutant: the last bar is taken for the one before it *)
AfterLastBar(text) ==
  LET n == Cardinality(Bars(text)) IN
    IF n > 1 THEN Drop(text, NthBar(text, n) + 1) ELSE text

(* FileReader::getLastMessage *)
GetLastMessage(text) ==
  LET n == Cardinality(Bars(text)) IN
    IF n > 1 THEN Drop(text, NthBar(text, n - 1) + 1) ELSE text

(* What ApplicationTest comes to: the constructors of two FileReaders, and *)
(* the comparison.  The log only grows while it is read, so the reader     *)
(* sees it as it is when the end is reached.  (A file of empty lines only  *)
(* would leave getLastMessage without a result; neither file can be one.)  *)
Verdict ==
  LET in == input
      out == Lines(log)
      last(lines) == GetLastMessage(Joined(Messages(lines)))
  IN IF in = <<>> \/ out = <<>> THEN "exit"
     ELSE IF \E line \in Range(in) \cup Range(out) : LineThrows(line) THEN "throws"
     ELSE IF last(in) = last(out) THEN "pass" ELSE "fail"
-----------------------------------------------------------------------------
(* A message reaches the broker; it is for a subscriber with a connection. *)
Publish(payload) ==
  /\ transit' = IF listening THEN Append(transit, payload) ELSE transit
  /\ UNCHANGED <<input, log, subscriberVars, kills, historyVars>>

(* The result of the subscription is not looked at: without one, the       *)
(* subscriber waits all the same.                                          *)
MqttConnect ==
  /\ subscriber = "off"
  /\ subscriber' = "waiting"
  /\ listening' \in BOOLEAN
  /\ UNCHANGED <<input, log, transit, rest, kills, historyVars>>

Record(payload) == Time \o <<Sep>> \o payload \o <<EndLine>>

Torn == log # <<>> /\ Last(log) # EndLine

(* mutant: the file is opened without app *)
Truncated == <<>>

(* What the file holds once it is open: app keeps what was written. *)
Opened == log

(* msgArrvd writes a record at the end of the file, through a buffer that  *)
(* is flushed when it is full and when the file is closed.                 *)
MsgArrvd ==
  /\ subscriber = "waiting" /\ transit # <<>>
  /\ subscriber' = "writing"
  /\ \E n \in 0..Len(Record(Head(transit))) :
       /\ log' = Opened \o SubSeq(Record(Head(transit)), 1, n)
       /\ rest' = Drop(Record(Head(transit)), n)
  /\ transit' = Tail(transit)
  /\ received' = Append(received, Head(transit))
  /\ expected' = IF Torn THEN expected ELSE Append(expected, Head(transit))
  /\ UNCHANGED <<input, listening, kills>>

CloseFile ==
  /\ subscriber = "writing"
  /\ subscriber' = "waiting"
  /\ log' = log \o rest
  /\ rest' = <<>>
  /\ UNCHANGED <<input, listening, transit, kills, historyVars>>

(* The subscriber is killed, or leaves with exit because the file cannot   *)
(* be opened: what it had not flushed is gone, and so is what is in        *)
(* transit, the session being clean.                                       *)
Kill ==
  /\ kills < MaxKills
  /\ kills' = kills + 1
  /\ subscriber # "off"
  /\ subscriber' = "off" /\ listening' = FALSE
  /\ transit' = <<>> /\ rest' = <<>>
  /\ expected' =
       IF rest = <<>> THEN expected
       ELSE IF rest # Record(Last(received))
         THEN IF Torn THEN Append(Front(expected), Damaged) ELSE expected
       ELSE IF Torn THEN expected ELSE Front(expected)
  /\ UNCHANGED <<input, log, received>>

(* "Q" ends MqttConnect; the destructor disconnects. *)
Quit ==
  /\ subscriber = "waiting"
  /\ subscriber' = "off" /\ listening' = FALSE
  /\ transit' = <<>>
  /\ UNCHANGED <<input, log, rest, kills, historyVars>>

(* connLost only prints: the subscriber waits on, and hears nothing more. *)
SubscriberConnLost ==
  /\ listening
  /\ listening' = FALSE
  /\ transit' = <<>>
  /\ UNCHANGED <<input, log, subscriber, rest, kills, historyVars>>

SubscriberStops == Kill \/ Quit \/ SubscriberConnLost
-----------------------------------------------------------------------------
Text(payload) == Head(Lines(payload))
InputText == Drop(Last(input), Len(Header))

(* Every payload is a line of its own in the log, with the time before it. *)
OneLine ==
  \A payload \in Range(received) :
    Len(Lines(payload)) = 1 /\ Head(payload) # EndLine

(* FileReader reads back exactly what the subscriber received, a message   *)
(* for a record and in order, whatever was killed when: only the line of a *)
(* record that was cut short is spoilt, together with the record that is   *)
(* appended to it.                                                         *)
ReadBack ==
  subscriber # "writing" /\ OneLine =>
    LET read == Messages(Lines(log)) IN
      /\ Len(read) = Len(expected)
      /\ \A i \in DOMAIN expected :
           expected[i] # Damaged => read[i] = Text(expected[i])

(* No payload has a bar, and the last payload of the input no separator.   *)
PlainTexts ==
  /\ \A text \in {InputText} \cup Range(received) : Bars(text) = {}
  /\ Sep \notin Range(InputText)

(* The test passes only if the last payload of the input file came through *)
(* the broker, provided no record is being written or left unended (its    *)
(* beginning may look like the payload), no payload has a bar, which       *)
(* getLastMessage takes for its own, or a line of its own, and the input   *)
(* no separator (a spoilt line joined to a record could look like it).     *)
PassIsEarned ==
  Verdict = "pass" /\ subscriber # "writing" /\ ~Torn /\ PlainTexts /\ OneLine
    => \E i \in DOMAIN received : Text(received[i]) = InputText
=============================================================================
